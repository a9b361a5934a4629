----------------------------- MODULE FiniteSums -----------------------------
(***************************************************************************)
(* Facts about the sum of a function over a finite set                     *)
(* (Functions!SumFunctionOnSet).  The operator is a recursive function;    *)
(* that its defining equation has a solution, and every other fact here,   *)
(* is proved by a set of minimal cardinality among the counterexamples.    *)
(***************************************************************************)
EXTENDS Integers, FiniteSets, Functions, FiniteSetTheorems, WellFoundedInduction, TLAPS

Pick(s) == CHOOSE x \in s : TRUE

\* g is the function that SumFunctionOnSet defines by recursion, on the sets of D.
IsSum(g, f, D) == g = [s \in D |-> IF s = {} THEN 0 ELSE f[Pick(s)] + g[s \ {Pick(s)}]]

IsSumOf(g, f, S) == IsSum(g, f, SUBSET S)

\* The operator is the solution of its own recursion, at the set itself.
LEMMA SumUnfold ==
  ASSUME NEW f, NEW S
  PROVE  SumFunctionOnSet(f, S) = (CHOOSE g : IsSumOf(g, f, S))[S]
BY DEF SumFunctionOnSet, FoldFunctionOnSet, MapThenFoldSet, IsSum, IsSumOf, Pick

\* The element taken out first is one of the set's.
LEMMA PickIn ==
  ASSUME NEW s, s # {}
  PROVE  Pick(s) \in s
BY DEF Pick

\* A set of natural numbers that is not empty has a least element.
LEMMA LeastNat ==
  ASSUME NEW N, N \subseteq Nat, N # {}
  PROVE  \E n \in N : \A k \in N : n <= k
<1> DEFINE Less == {ss \in Nat \X Nat : ss[1] < ss[2]}
<1>1. IsWellFoundedOn(Less, Nat)
  BY NatLessThanWellFounded DEF OpToRel
<1>2. PICK n \in N : \A k \in N : <<k, n>> \notin Less
  <2> HIDE DEF Less
  <2> QED
    BY <1>1, WFMin
<1>3. ASSUME NEW k \in N PROVE n <= k
  <2>1. k \in Nat /\ n \in Nat /\ <<k, n>> \notin Less
    BY <1>2
  <2> QED
    BY <2>1
<1> QED
  BY <1>3

\* A non-empty family of finite sets has a member of least cardinality.
LEMMA SmallestSet ==
  ASSUME NEW F, F # {}, \A s \in F : IsFiniteSet(s)
  PROVE  \E s \in F : \A t \in F : Cardinality(s) <= Cardinality(t)
<1> DEFINE N == {Cardinality(s) : s \in F}
<1>1. N \subseteq Nat /\ N # {}
  BY FS_CardinalityType
<1>2. PICK n \in N : \A k \in N : n <= k
  BY <1>1, LeastNat
<1>3. PICK s \in F : n = Cardinality(s)
  OBVIOUS
<1> QED
  BY <1>2, <1>3

\* Taking an element out leaves a smaller set.
LEMMA SmallerWithout ==
  ASSUME NEW s, IsFiniteSet(s), NEW x \in s
  PROVE  /\ IsFiniteSet(s \ {x})
         /\ Cardinality(s) \in Nat /\ Cardinality(s \ {x}) \in Nat
         /\ Cardinality(s \ {x}) + 1 = Cardinality(s)
<1>1. /\ IsFiniteSet(s \ {x})
      /\ Cardinality(s \ {x}) = IF x \in s THEN Cardinality(s) - 1 ELSE Cardinality(s)
  BY FS_RemoveElement
<1>2. Cardinality(s) \in Nat
  BY FS_CardinalityType
<1>3. Cardinality(s \ {x}) \in Nat
  BY <1>1, FS_CardinalityType
<1> QED
  BY <1>1, <1>2, <1>3

\* The recursion has a solution on the subsets of a finite set: one for the subsets
\* of at most n elements gives one for those of n + 1.
LEMMA SumsExist ==
  ASSUME NEW f, NEW S, IsFiniteSet(S)
  PROVE  \E g : IsSumOf(g, f, S)
<1> DEFINE D(n) == {s \in SUBSET S : Cardinality(s) <= n}
           B == {n \in Nat : ~ \E g : IsSum(g, f, D(n))}
<1>0. \A s \in SUBSET S : IsFiniteSet(s) /\ Cardinality(s) \in Nat
  BY FS_Subset, FS_CardinalityType
<1>1. B = {}
  <2> SUFFICES ASSUME B # {} PROVE FALSE
    OBVIOUS
  <2>1. PICK n \in B : \A k \in B : n <= k
    <3> HIDE DEF D
    <3> QED
      BY LeastNat
  <2>2. n # 0
    <3> SUFFICES ASSUME n = 0 PROVE FALSE
      OBVIOUS
    <3>1. \A s \in D(0) : s = {}
      BY <1>0, FS_EmptySet
    <3>2. IsSum([s \in D(0) |-> 0], f, D(0))
      BY <3>1 DEF IsSum
    <3> HIDE DEF D
    <3> QED
      BY <3>2
  <2>3. n - 1 \in Nat /\ n - 1 \notin B
    <3> HIDE DEF D
    <3>1. n \in Nat /\ n - 1 \in Nat
      BY <2>2
    <3>2. n - 1 \in B => n <= n - 1
      BY <2>1
    <3> HIDE DEF B
    <3> QED
      BY <3>1, <3>2
  <2>4. PICK g : IsSum(g, f, D(n - 1))
    BY <2>3
  <2> DEFINE h == [s \in D(n) |-> IF s = {} THEN 0 ELSE f[Pick(s)] + g[s \ {Pick(s)}]]
  <2>5. ASSUME NEW s \in D(n), s # {}
        PROVE  /\ s \ {Pick(s)} \in D(n) /\ s \ {Pick(s)} \in D(n - 1)
               /\ h[s \ {Pick(s)}] = g[s \ {Pick(s)}]
    <3>1. Pick(s) \in s
      BY <2>5, PickIn
    <3>2. s \ {Pick(s)} \in D(n) /\ s \ {Pick(s)} \in D(n - 1)
      BY <1>0, <3>1, SmallerWithout
    <3>3. g[s \ {Pick(s)}] = IF s \ {Pick(s)} = {} THEN 0
             ELSE f[Pick(s \ {Pick(s)})] + g[(s \ {Pick(s)}) \ {Pick(s \ {Pick(s)})}]
      <4> HIDE DEF D
      <4> QED
        BY <2>4, <3>2 DEF IsSum
    <3> QED
      <4> HIDE DEF D
      <4> QED
        BY <3>2, <3>3
  <2>6. h = [s \in D(n) |-> IF s = {} THEN 0 ELSE f[Pick(s)] + h[s \ {Pick(s)}]]
    <3> DEFINE h2 == [s \in D(n) |-> IF s = {} THEN 0 ELSE f[Pick(s)] + h[s \ {Pick(s)}]]
    <3>1. \A s \in D(n) : h[s] = h2[s]
      <4> HIDE DEF D
      <4>1. ASSUME NEW s \in D(n) PROVE h[s] = h2[s]
        <5>1. CASE s = {}
          BY <5>1
        <5>2. CASE s # {}
          BY <5>2, <2>5
        <5> QED
          BY <5>1, <5>2
      <4> QED
        BY <4>1
    <3> HIDE DEF D
    <3> QED
      BY <3>1
  <2>7. IsSum(h, f, D(n))
    <3> HIDE DEF D, h
    <3> QED
      BY <2>6 DEF IsSum
  <2> HIDE DEF D, h
  <2> QED
    BY <2>7
<1>2. D(Cardinality(S)) = SUBSET S
  <2>1. \A s \in SUBSET S : Cardinality(s) <= Cardinality(S)
    BY FS_Subset
  <2> QED
    BY <2>1
<1>3. Cardinality(S) \in Nat
  BY <1>0
<1> HIDE DEF D
<1> QED
  BY <1>1, <1>2, <1>3 DEF IsSumOf

\* Two solutions agree wherever both are defined.
LEMMA SumsAgree ==
  ASSUME NEW f, NEW S, NEW T, IsFiniteSet(S), T \subseteq S,
         NEW g, IsSumOf(g, f, S), NEW h, IsSumOf(h, f, T)
  PROVE  g[T] = h[T]
<1> DEFINE F == {u \in SUBSET T : g[u] # h[u]}
<1> SUFFICES ASSUME F # {} PROVE FALSE
  OBVIOUS
<1>1. \A u \in F : IsFiniteSet(u)
  BY FS_Subset
<1>2. PICK u \in F : \A v \in F : Cardinality(u) <= Cardinality(v)
  BY <1>1, SmallestSet
<1>3. /\ g[u] = IF u = {} THEN 0 ELSE f[Pick(u)] + g[u \ {Pick(u)}]
      /\ h[u] = IF u = {} THEN 0 ELSE f[Pick(u)] + h[u \ {Pick(u)}]
  BY DEF IsSum, IsSumOf
<1>4. u # {} /\ Pick(u) \in u
  BY <1>3, PickIn
<1>5. u \ {Pick(u)} \notin F
  BY <1>1, <1>2, <1>4, SmallerWithout
<1>6. g[u \ {Pick(u)}] = h[u \ {Pick(u)}]
  BY <1>5
<1> QED
  BY <1>3, <1>4, <1>6

\* The defining equation of the sum.
LEMMA SumDef ==
  ASSUME NEW f, NEW S, IsFiniteSet(S)
  PROVE  SumFunctionOnSet(f, S) =
           IF S = {} THEN 0 ELSE f[Pick(S)] + SumFunctionOnSet(f, S \ {Pick(S)})
<1> DEFINE g == CHOOSE g : IsSumOf(g, f, S)
           T == S \ {Pick(S)}
           h == CHOOSE h : IsSumOf(h, f, T)
<1>1. IsSumOf(g, f, S)
  BY SumsExist
<1>2. IsFiniteSet(T)
  BY FS_Subset
<1>3. IsSumOf(h, f, T)
  BY <1>2, SumsExist
<1>4. SumFunctionOnSet(f, S) = g[S] /\ SumFunctionOnSet(f, T) = h[T]
  BY SumUnfold
<1>5. g[T] = h[T]
  <2>1. T \subseteq S
    OBVIOUS
  <2> HIDE DEF g, h, T
  <2> QED
    BY <1>1, <1>3, <2>1, SumsAgree
<1>6. g[S] = IF S = {} THEN 0 ELSE f[Pick(S)] + g[T]
  <2> HIDE DEF g
  <2> QED
    BY <1>1 DEF IsSum, IsSumOf
<1> QED
  BY <1>4, <1>5, <1>6

----------------------------------------------------------------------------

\* Nothing adds up to nothing.
THEOREM SumEmpty ==
  ASSUME NEW f
  PROVE  SumFunctionOnSet(f, {}) = 0
BY SumDef, FS_EmptySet

\* A sum of integers is one.
THEOREM SumType ==
  ASSUME NEW f, NEW S, IsFiniteSet(S), \A x \in S : f[x] \in Int
  PROVE  SumFunctionOnSet(f, S) \in Int
<1> DEFINE F == {T \in SUBSET S : SumFunctionOnSet(f, T) \notin Int}
<1> SUFFICES ASSUME F # {} PROVE FALSE
  OBVIOUS
<1>1. \A T \in F : IsFiniteSet(T)
  BY FS_Subset
<1>2. PICK T \in F : \A U \in F : Cardinality(T) <= Cardinality(U)
  BY <1>1, SmallestSet
<1>3. SumFunctionOnSet(f, T) =
        IF T = {} THEN 0 ELSE f[Pick(T)] + SumFunctionOnSet(f, T \ {Pick(T)})
  BY <1>1, SumDef
<1>4. T # {} /\ Pick(T) \in T
  BY <1>3, PickIn
<1>5. T \ {Pick(T)} \notin F
  BY <1>1, <1>2, <1>4, SmallerWithout
<1>6. SumFunctionOnSet(f, T \ {Pick(T)}) \in Int
  BY <1>5
<1> QED
  BY <1>3, <1>4, <1>6

\* Any element may be taken out first.
THEOREM SumRemove ==
  ASSUME NEW f, NEW S, IsFiniteSet(S), \A x \in S : f[x] \in Int, NEW x \in S
  PROVE  SumFunctionOnSet(f, S) = f[x] + SumFunctionOnSet(f, S \ {x})
<1> DEFINE F == {T \in SUBSET S : \E y \in T : SumFunctionOnSet(f, T) #
                                      f[y] + SumFunctionOnSet(f, T \ {y})}
<1>0. SUFFICES ASSUME F # {} PROVE FALSE
  OBVIOUS
<1>1. \A T \in SUBSET S : IsFiniteSet(T)
  BY FS_Subset
<1>2. PICK T \in F : \A U \in F : Cardinality(T) <= Cardinality(U)
  <2>1. \A T \in F : IsFiniteSet(T)
    BY <1>1
  <2> HIDE DEF F
  <2> QED
    BY <1>0, <2>1, SmallestSet
<1>3. PICK y \in T : SumFunctionOnSet(f, T) # f[y] + SumFunctionOnSet(f, T \ {y})
  OBVIOUS
<1> DEFINE p == Pick(T)
<1>4. p \in T
  BY PickIn
<1>5. SumFunctionOnSet(f, T) = f[p] + SumFunctionOnSet(f, T \ {p})
  BY <1>1, <1>3, SumDef
<1> HIDE DEF p
<1>6. p # y
  BY <1>3, <1>5
<1>7. T \ {p} \notin F /\ T \ {y} \notin F
  <2>1. /\ Cardinality(T) \in Nat
        /\ Cardinality(T \ {p}) + 1 = Cardinality(T) /\ Cardinality(T \ {p}) \in Nat
        /\ Cardinality(T \ {y}) + 1 = Cardinality(T) /\ Cardinality(T \ {y}) \in Nat
    BY <1>1, <1>4, SmallerWithout
  <2> HIDE DEF F
  <2> QED
    BY <1>2, <2>1
<1>8. SumFunctionOnSet(f, T \ {p}) = f[y] + SumFunctionOnSet(f, (T \ {p}) \ {y})
  BY <1>6, <1>7
<1>9. SumFunctionOnSet(f, T \ {y}) = f[p] + SumFunctionOnSet(f, (T \ {y}) \ {p})
  BY <1>4, <1>6, <1>7
<1>10. (T \ {p}) \ {y} = (T \ {y}) \ {p}
  OBVIOUS
<1>11. SumFunctionOnSet(f, (T \ {y}) \ {p}) \in Int
  <2>1. IsFiniteSet((T \ {y}) \ {p})
    BY <1>1
  <2> QED
    BY <2>1, SumType
<1>12. f[p] \in Int /\ f[y] \in Int
  BY <1>4
<1>13. SumFunctionOnSet(f, T \ {y}) = f[p] + SumFunctionOnSet(f, (T \ {p}) \ {y})
  BY <1>9, <1>10
<1> QED
  <2> DEFINE r == SumFunctionOnSet(f, (T \ {p}) \ {y})
  <2>1. r \in Int
    BY <1>10, <1>11
  <2>2. /\ SumFunctionOnSet(f, T) = f[p] + (f[y] + r)
        /\ SumFunctionOnSet(f, T \ {y}) = f[p] + r
    BY <1>5, <1>8, <1>13
  <2> HIDE DEF r
  <2> QED
    BY <1>3, <1>12, <2>1, <2>2

\* The sum only depends on the function's values on the set.
THEOREM SumAgree ==
  ASSUME NEW f, NEW g, NEW S, IsFiniteSet(S), \A x \in S : f[x] = g[x]
  PROVE  SumFunctionOnSet(f, S) = SumFunctionOnSet(g, S)
<1> DEFINE F == {T \in SUBSET S : SumFunctionOnSet(f, T) # SumFunctionOnSet(g, T)}
<1> SUFFICES ASSUME F # {} PROVE FALSE
  OBVIOUS
<1>1. \A T \in F : IsFiniteSet(T)
  BY FS_Subset
<1>2. PICK T \in F : \A U \in F : Cardinality(T) <= Cardinality(U)
  BY <1>1, SmallestSet
<1>3. /\ SumFunctionOnSet(f, T) =
           IF T = {} THEN 0 ELSE f[Pick(T)] + SumFunctionOnSet(f, T \ {Pick(T)})
      /\ SumFunctionOnSet(g, T) =
           IF T = {} THEN 0 ELSE g[Pick(T)] + SumFunctionOnSet(g, T \ {Pick(T)})
  BY <1>1, SumDef
<1>4. T # {} /\ Pick(T) \in T
  BY <1>3, PickIn
<1>5. T \ {Pick(T)} \notin F
  BY <1>1, <1>2, <1>4, SmallerWithout
<1>6. SumFunctionOnSet(f, T \ {Pick(T)}) = SumFunctionOnSet(g, T \ {Pick(T)})
  BY <1>5
<1> QED
  BY <1>3, <1>4, <1>6

\* The sum over two disjoint sets.
THEOREM SumUnion ==
  ASSUME NEW f, NEW S, NEW T, IsFiniteSet(S), IsFiniteSet(T), S \cap T = {},
         \A x \in S \cup T : f[x] \in Int
  PROVE  SumFunctionOnSet(f, S \cup T) = SumFunctionOnSet(f, S) + SumFunctionOnSet(f, T)
<1> DEFINE F == {U \in SUBSET S : SumFunctionOnSet(f, U \cup T) #
                                    SumFunctionOnSet(f, U) + SumFunctionOnSet(f, T)}
<1>0. SUFFICES ASSUME F # {} PROVE FALSE
  OBVIOUS
<1>1. \A U \in SUBSET S : IsFiniteSet(U) /\ IsFiniteSet(U \cup T)
  BY FS_Subset, FS_Union
<1>2. PICK U \in F : \A V \in F : Cardinality(U) <= Cardinality(V)
  <2>1. \A V \in F : IsFiniteSet(V)
    BY <1>1
  <2> HIDE DEF F
  <2> QED
    BY <1>0, <2>1, SmallestSet
<1>3. SumFunctionOnSet(f, T) \in Int
  BY SumType
<1>4. U # {}
  BY <1>3, SumEmpty
<1> DEFINE p == Pick(U)
<1>5. p \in U /\ p \notin T
  BY <1>4, PickIn
<1> HIDE DEF p
<1>6. U \ {p} \notin F
  <2>1. /\ Cardinality(U) \in Nat /\ Cardinality(U \ {p}) \in Nat
        /\ Cardinality(U \ {p}) + 1 = Cardinality(U)
    BY <1>1, <1>5, SmallerWithout
  <2> HIDE DEF F
  <2> QED
    BY <1>2, <2>1
<1>7. SumFunctionOnSet(f, U) = f[p] + SumFunctionOnSet(f, U \ {p})
  BY <1>1, <1>5, SumRemove
<1>8. SumFunctionOnSet(f, U \cup T) = f[p] + SumFunctionOnSet(f, (U \cup T) \ {p})
  <2>1. p \in U \cup T /\ IsFiniteSet(U \cup T) /\ \A x \in U \cup T : f[x] \in Int
    BY <1>1, <1>5
  <2> QED
    BY <2>1, SumRemove
<1>9. (U \cup T) \ {p} = (U \ {p}) \cup T
  BY <1>5
<1>10. SumFunctionOnSet(f, (U \ {p}) \cup T) =
         SumFunctionOnSet(f, U \ {p}) + SumFunctionOnSet(f, T)
  BY <1>6
<1>11. SumFunctionOnSet(f, U \ {p}) \in Int /\ f[p] \in Int
  <2>1. IsFiniteSet(U \ {p}) /\ \A x \in U \ {p} : f[x] \in Int
    BY <1>1
  <2> QED
    BY <1>5, <2>1, SumType
<1> QED
  <2> DEFINE r == SumFunctionOnSet(f, U \ {p})
             q == SumFunctionOnSet(f, T)
  <2>1. r \in Int /\ q \in Int /\ f[p] \in Int
    BY <1>3, <1>11
  <2>2. /\ SumFunctionOnSet(f, U) = f[p] + r
        /\ SumFunctionOnSet(f, U \cup T) = f[p] + (r + q)
        /\ SumFunctionOnSet(f, U \cup T) # SumFunctionOnSet(f, U) + q
    BY <1>7, <1>8, <1>9, <1>10
  <2> HIDE DEF r, q
  <2> QED
    BY <2>1, <2>2

\* Zeroes add nothing.
THEOREM SumZero ==
  ASSUME NEW f, NEW S, IsFiniteSet(S), \A x \in S : f[x] = 0
  PROVE  SumFunctionOnSet(f, S) = 0
<1> DEFINE F == {T \in SUBSET S : SumFunctionOnSet(f, T) # 0}
<1> SUFFICES ASSUME F # {} PROVE FALSE
  OBVIOUS
<1>1. \A T \in F : IsFiniteSet(T)
  BY FS_Subset
<1>2. PICK T \in F : \A U \in F : Cardinality(T) <= Cardinality(U)
  BY <1>1, SmallestSet
<1>3. SumFunctionOnSet(f, T) =
        IF T = {} THEN 0 ELSE f[Pick(T)] + SumFunctionOnSet(f, T \ {Pick(T)})
  BY <1>1, SumDef
<1>4. T # {} /\ Pick(T) \in T
  BY <1>3, PickIn
<1>5. T \ {Pick(T)} \notin F
  BY <1>1, <1>2, <1>4, SmallerWithout
<1>6. SumFunctionOnSet(f, T \ {Pick(T)}) = 0
  BY <1>5
<1> QED
  BY <1>3, <1>4, <1>6

\* What a sum becomes when the function changes at one element.
THEOREM SumChange ==
  ASSUME NEW f, NEW g, NEW S, IsFiniteSet(S), NEW x \in S,
         \A y \in S : f[y] \in Int /\ g[y] \in Int, \A y \in S \ {x} : g[y] = f[y]
  PROVE  SumFunctionOnSet(g, S) = SumFunctionOnSet(f, S) - f[x] + g[x]
<1>1. IsFiniteSet(S \ {x})
  BY FS_Subset
<1>2. SumFunctionOnSet(f, S) = f[x] + SumFunctionOnSet(f, S \ {x})
  BY SumRemove
<1>3. SumFunctionOnSet(g, S) = g[x] + SumFunctionOnSet(g, S \ {x})
  BY SumRemove
<1>4. SumFunctionOnSet(g, S \ {x}) = SumFunctionOnSet(f, S \ {x})
  BY <1>1, SumAgree
<1> DEFINE r == SumFunctionOnSet(f, S \ {x})
<1>5. r \in Int
  BY <1>1, SumType
<1>6. f[x] \in Int /\ g[x] \in Int
  OBVIOUS
<1>7. SumFunctionOnSet(f, S) = f[x] + r /\ SumFunctionOnSet(g, S) = g[x] + r
  BY <1>2, <1>3, <1>4
<1> HIDE DEF r
<1> QED
  BY <1>5, <1>6, <1>7

\* The sum of two functions.
THEOREM SumPlus ==
  ASSUME NEW f, NEW g, NEW h, NEW S, IsFiniteSet(S),
         \A x \in S : f[x] \in Int /\ g[x] \in Int /\ h[x] = f[x] + g[x]
  PROVE  SumFunctionOnSet(h, S) = SumFunctionOnSet(f, S) + SumFunctionOnSet(g, S)
<1> DEFINE F == {T \in SUBSET S : SumFunctionOnSet(h, T) #
                                    SumFunctionOnSet(f, T) + SumFunctionOnSet(g, T)}
<1> SUFFICES ASSUME F # {} PROVE FALSE
  OBVIOUS
<1>1. \A T \in SUBSET S : IsFiniteSet(T)
  BY FS_Subset
<1>2. PICK T \in F : \A U \in F : Cardinality(T) <= Cardinality(U)
  <2>1. \A T \in F : IsFiniteSet(T)
    BY <1>1
  <2> HIDE DEF F
  <2> QED
    BY <2>1, SmallestSet
<1>3. T # {}
  <2>1. SumFunctionOnSet(f, {}) = 0 /\ SumFunctionOnSet(g, {}) = 0 /\ SumFunctionOnSet(h, {}) = 0
    BY SumEmpty
  <2>2. SumFunctionOnSet(h, T) # SumFunctionOnSet(f, T) + SumFunctionOnSet(g, T)
    OBVIOUS
  <2>3. SUFFICES ASSUME T = {} PROVE FALSE
    OBVIOUS
  <2>4. 0 # 0 + 0
    BY <2>1, <2>2, <2>3, Zenon
  <2> QED
    BY <2>4
<1>4. PICK x \in T : TRUE
  BY <1>3
<1>5. T \ {x} \notin F
  <2>1. /\ Cardinality(T) \in Nat /\ Cardinality(T \ {x}) \in Nat
        /\ Cardinality(T \ {x}) + 1 = Cardinality(T)
    BY <1>1, <1>4, SmallerWithout
  <2> HIDE DEF F
  <2> QED
    BY <1>2, <2>1
<1>6. \A y \in T : h[y] \in Int /\ f[y] \in Int /\ g[y] \in Int
  OBVIOUS
<1>7. /\ SumFunctionOnSet(f, T) = f[x] + SumFunctionOnSet(f, T \ {x})
      /\ SumFunctionOnSet(g, T) = g[x] + SumFunctionOnSet(g, T \ {x})
      /\ SumFunctionOnSet(h, T) = h[x] + SumFunctionOnSet(h, T \ {x})
  BY <1>1, <1>4, <1>6, SumRemove
<1>8. SumFunctionOnSet(f, T \ {x}) \in Int /\ SumFunctionOnSet(g, T \ {x}) \in Int
  <2>1. IsFiniteSet(T \ {x}) /\ \A y \in T \ {x} : f[y] \in Int /\ g[y] \in Int
    BY <1>1
  <2> QED
    BY <2>1, SumType
<1>9. SumFunctionOnSet(h, T \ {x}) = SumFunctionOnSet(f, T \ {x}) + SumFunctionOnSet(g, T \ {x})
  BY <1>5
<1>10. h[x] = f[x] + g[x] /\ f[x] \in Int /\ g[x] \in Int
  BY <1>4
<1>11. SumFunctionOnSet(h, T) # SumFunctionOnSet(f, T) + SumFunctionOnSet(g, T)
  OBVIOUS
<1> HIDE DEF F
<1> QED
  BY <1>7, <1>8, <1>9, <1>10, <1>11

\* The opposite of a function.
THEOREM SumNegative ==
  ASSUME NEW f, NEW g, NEW S, IsFiniteSet(S), \A x \in S : f[x] \in Int /\ g[x] = -f[x]
  PROVE  SumFunctionOnSet(g, S) = -SumFunctionOnSet(f, S)
<1> DEFINE z == [x \in S |-> 0]
<1>1. \A x \in S : f[x] \in Int /\ g[x] \in Int /\ z[x] = f[x] + g[x] /\ z[x] = 0
  OBVIOUS
<1> HIDE DEF z
<1>2. SumFunctionOnSet(z, S) = SumFunctionOnSet(f, S) + SumFunctionOnSet(g, S)
  BY <1>1, SumPlus
<1>3. SumFunctionOnSet(z, S) = 0
  BY <1>1, SumZero
<1>4. SumFunctionOnSet(f, S) \in Int /\ SumFunctionOnSet(g, S) \in Int
  BY <1>1, SumType
<1> QED
  BY <1>2, <1>3, <1>4

\* The elements of a group: p says which group an element belongs to.
Group(p, S, i) == {x \in S : p[x] = i}

\* A sum may be taken group by group.
THEOREM SumByGroup ==
  ASSUME NEW f, NEW S, IsFiniteSet(S), \A x \in S : f[x] \in Int,
         NEW p, NEW I, IsFiniteSet(I), \A x \in S : p[x] \in I,
         NEW g, \A i \in I : g[i] = SumFunctionOnSet(f, Group(p, S, i))
  PROVE  SumFunctionOnSet(g, I) = SumFunctionOnSet(f, S)
<1> DEFINE Of(J) == {x \in S : p[x] \in J}
           F == {J \in SUBSET I : SumFunctionOnSet(g, J) # SumFunctionOnSet(f, Of(J))}
<1>0. Of(I) = S
  OBVIOUS
<1> SUFFICES ASSUME F # {} PROVE FALSE
  BY <1>0
<1>1. \A J \in SUBSET I : IsFiniteSet(J) /\ IsFiniteSet(Of(J))
  BY FS_Subset
<1>2. PICK J \in F : \A K \in F : Cardinality(J) <= Cardinality(K)
  <2>1. \A J \in F : IsFiniteSet(J)
    BY <1>1
  <2> HIDE DEF F
  <2> QED
    BY <2>1, SmallestSet
<1>3. J # {}
  <2>1. Of({}) = {}
    OBVIOUS
  <2> HIDE DEF Of
  <2> QED
    BY <2>1, SumEmpty
<1>4. PICK i \in J : TRUE
  BY <1>3
<1>5. J \ {i} \notin F
  <2>1. /\ Cardinality(J) \in Nat /\ Cardinality(J \ {i}) \in Nat
        /\ Cardinality(J \ {i}) + 1 = Cardinality(J)
    BY <1>1, <1>4, SmallerWithout
  <2> HIDE DEF F
  <2> QED
    BY <1>2, <2>1
<1>6. \A j \in I : g[j] \in Int
  <2> TAKE j \in I
  <2>1. IsFiniteSet(Group(p, S, j)) /\ \A x \in Group(p, S, j) : f[x] \in Int
    BY FS_Subset DEF Group
  <2>2. SumFunctionOnSet(f, Group(p, S, j)) \in Int
    BY <2>1, SumType
  <2> QED
    BY <2>2
<1>7. SumFunctionOnSet(g, J) = g[i] + SumFunctionOnSet(g, J \ {i})
  <2>1. IsFiniteSet(J) /\ \A j \in J : g[j] \in Int
    BY <1>1, <1>6
  <2> QED
    BY <1>4, <2>1, SumRemove
<1>8. SumFunctionOnSet(f, Of(J)) = SumFunctionOnSet(f, Group(p, S, i)) + SumFunctionOnSet(f, Of(J \ {i}))
  <2> DEFINE A == Group(p, S, i)
             B == Of(J \ {i})
  <2>1. /\ Of(J) = A \cup B /\ A \cap B = {} /\ \A x \in A \cup B : f[x] \in Int
        /\ IsFiniteSet(A) /\ IsFiniteSet(B)
    BY <1>4, FS_Subset DEF Group
  <2> HIDE DEF A, B, Of
  <2>2. SumFunctionOnSet(f, Of(J)) = SumFunctionOnSet(f, A) + SumFunctionOnSet(f, B)
    BY <2>1, SumUnion
  <2> QED
    BY <2>2 DEF A, B
<1>9. SumFunctionOnSet(g, J \ {i}) = SumFunctionOnSet(f, Of(J \ {i}))
  BY <1>5
<1>10. g[i] = SumFunctionOnSet(f, Group(p, S, i))
  BY <1>4
<1>11. SumFunctionOnSet(g, J) # SumFunctionOnSet(f, Of(J))
  OBVIOUS
<1> HIDE DEF F, Of
<1> QED
  BY <1>7, <1>8, <1>9, <1>10, <1>11

\* A column of a table r with rows S.
Column(r, S, y) == [x \in S |-> r[x][y]]

\* A table of integers with the sums of its rows, and with those of its columns.
IsTotal(f, r, S, T) ==
  \A x \in S : f[x] = SumFunctionOnSet(r[x], T) /\ \A y \in T : r[x][y] \in Int

IsFooter(g, r, S, T) == \A y \in T : g[y] = SumFunctionOnSet(Column(r, S, y), S)

\* The sum of the rows of a table is the sum of its columns.
THEOREM SumExchange ==
  ASSUME NEW S, NEW T, IsFiniteSet(S), IsFiniteSet(T), NEW r,
         NEW f, IsTotal(f, r, S, T), NEW g, IsFooter(g, r, S, T)
  PROVE  SumFunctionOnSet(f, S) = SumFunctionOnSet(g, T)
<1> USE DEF IsTotal, IsFooter
<1> DEFINE Sums(U) == [y \in T |-> SumFunctionOnSet(Column(r, S, y), U)]
           F == {U \in SUBSET S : SumFunctionOnSet(f, U) # SumFunctionOnSet(Sums(U), T)}
<1>0. SumFunctionOnSet(Sums(S), T) = SumFunctionOnSet(g, T)
  <2>1. \A y \in T : Sums(S)[y] = g[y]
    OBVIOUS
  <2> HIDE DEF Sums
  <2> QED
    BY <2>1, SumAgree
<1> SUFFICES ASSUME F # {} PROVE FALSE
  BY <1>0
<1>1. \A U \in SUBSET S : IsFiniteSet(U)
  BY FS_Subset
<1>2. PICK U \in F : \A V \in F : Cardinality(U) <= Cardinality(V)
  <2>1. \A V \in F : IsFiniteSet(V)
    BY <1>1
  <2> HIDE DEF F
  <2> QED
    BY <2>1, SmallestSet
<1>3. U # {}
  <2> SUFFICES ASSUME U = {} PROVE FALSE
    OBVIOUS
  <2>1. \A y \in T : Sums({})[y] = 0
    BY SumEmpty
  <2> HIDE DEF Sums
  <2>2. SumFunctionOnSet(Sums({}), T) = 0
    BY <2>1, SumZero
  <2> QED
    BY <2>2, SumEmpty
<1>4. PICK x \in U : TRUE
  BY <1>3
<1>5. U \ {x} \notin F
  <2>1. /\ Cardinality(U) \in Nat /\ Cardinality(U \ {x}) \in Nat
        /\ Cardinality(U \ {x}) + 1 = Cardinality(U)
    BY <1>1, <1>4, SmallerWithout
  <2> HIDE DEF F
  <2> QED
    BY <1>2, <2>1
<1>6. \A z \in S : f[z] \in Int
  <2> TAKE z \in S
  <2>1. SumFunctionOnSet(r[z], T) \in Int
    BY SumType
  <2> QED
    BY <2>1
<1>7. SumFunctionOnSet(f, U) = f[x] + SumFunctionOnSet(f, U \ {x})
  <2>1. IsFiniteSet(U) /\ \A z \in U : f[z] \in Int
    BY <1>1, <1>6
  <2> HIDE DEF IsTotal, IsFooter, F
  <2> QED
    BY <1>4, <2>1, SumRemove
<1>8. \A y \in T : /\ r[x][y] \in Int /\ Sums(U \ {x})[y] \in Int
                   /\ Sums(U)[y] = r[x][y] + Sums(U \ {x})[y]
  <2> TAKE y \in T
  <2> DEFINE w == Column(r, S, y)
  <2>1. /\ \A z \in U : w[z] \in Int
        /\ \A z \in U \ {x} : w[z] \in Int
        /\ IsFiniteSet(U) /\ IsFiniteSet(U \ {x}) /\ w[x] = r[x][y]
    BY <1>1, <1>4 DEF Column
  <2>2. Sums(U)[y] = SumFunctionOnSet(w, U) /\ Sums(U \ {x})[y] = SumFunctionOnSet(w, U \ {x})
    OBVIOUS
  <2>3. r[x][y] \in Int
    BY <1>4
  <2> HIDE DEF w, Sums
  <2>4. SumFunctionOnSet(w, U) = w[x] + SumFunctionOnSet(w, U \ {x})
    BY <1>4, <2>1, SumRemove
  <2>5. SumFunctionOnSet(w, U \ {x}) \in Int
    BY <2>1, SumType
  <2> QED
    BY <2>1, <2>2, <2>3, <2>4, <2>5
<1>9. SumFunctionOnSet(Sums(U), T) = SumFunctionOnSet(r[x], T) + SumFunctionOnSet(Sums(U \ {x}), T)
  <2> DEFINE a == r[x]
             b == Sums(U \ {x})
             c == Sums(U)
  <2>1. \A y \in T : a[y] \in Int /\ b[y] \in Int /\ c[y] = a[y] + b[y]
    <3> HIDE DEF Sums
    <3> QED
      BY <1>8
  <2> HIDE DEF a, b, c
  <2>2. SumFunctionOnSet(c, T) = SumFunctionOnSet(a, T) + SumFunctionOnSet(b, T)
    BY <2>1, SumPlus
  <2> QED
    BY <2>2 DEF a, b, c
<1>10. SumFunctionOnSet(f, U \ {x}) = SumFunctionOnSet(Sums(U \ {x}), T)
  BY <1>5
<1>11. f[x] = SumFunctionOnSet(r[x], T)
  BY <1>4
<1>12. SumFunctionOnSet(f, U) # SumFunctionOnSet(Sums(U), T)
  OBVIOUS
<1> HIDE DEF F, Sums
<1> QED
  BY <1>7, <1>9, <1>10, <1>11, <1>12

\* A sum of numbers within one of zero is within their number of it.
THEOREM SumBounded ==
  ASSUME NEW f, NEW S, IsFiniteSet(S), \A x \in S : f[x] \in -1..1
  PROVE  SumFunctionOnSet(f, S) \in -Cardinality(S)..Cardinality(S)
<1> DEFINE F == {T \in SUBSET S : SumFunctionOnSet(f, T) \notin -Cardinality(T)..Cardinality(T)}
<1> SUFFICES ASSUME F # {} PROVE FALSE
  OBVIOUS
<1>1. \A T \in SUBSET S : IsFiniteSet(T)
  BY FS_Subset
<1>2. PICK T \in F : \A U \in F : Cardinality(T) <= Cardinality(U)
  <2>1. \A T \in F : IsFiniteSet(T)
    BY <1>1
  <2> HIDE DEF F
  <2> QED
    BY <2>1, SmallestSet
<1>3. T # {}
  BY SumEmpty, FS_EmptySet
<1>4. PICK x \in T : TRUE
  BY <1>3
<1>5. /\ Cardinality(T) \in Nat /\ Cardinality(T \ {x}) \in Nat
      /\ Cardinality(T \ {x}) + 1 = Cardinality(T)
  BY <1>1, <1>4, SmallerWithout
<1>6. T \ {x} \notin F
  <2> HIDE DEF F
  <2> QED
    BY <1>2, <1>5
<1>7. SumFunctionOnSet(f, T) = f[x] + SumFunctionOnSet(f, T \ {x})
  <2>1. IsFiniteSet(T) /\ \A y \in T : f[y] \in Int
    BY <1>1
  <2> QED
    BY <1>4, <2>1, SumRemove
<1>8. f[x] \in -1..1
  BY <1>4
<1>9. SumFunctionOnSet(f, T \ {x}) \in -Cardinality(T \ {x})..Cardinality(T \ {x})
  BY <1>6
<1>10. SumFunctionOnSet(f, T) \notin -Cardinality(T)..Cardinality(T)
  OBVIOUS
<1> HIDE DEF F
<1> QED
  BY <1>5, <1>7, <1>8, <1>9, <1>10
====
