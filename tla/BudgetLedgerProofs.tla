-------------------------- MODULE BudgetLedgerProofs --------------------------
(***************************************************************************)
(* Proofs about BudgetLedger, for any categories, requests, plans, rates   *)
(* and months: every table keeps its type, the movements of a closed month *)
(* stay what the facts ask for, a frozen statement stays what they give    *)
(* when every month is computed again, neither the activation of the plan  *)
(* nor a reading of it changes a balance, and cash and what is still       *)
(* expected keep backing the categories and Unallocated.                   *)
(***************************************************************************)
EXTENDS BudgetLedger, FiniteSums, TLAPS

----------------------------------------------------------------------------
(* Amounts. *)

LEMMA HalfEvenType ==
  ASSUME NEW n \in Nat, NEW d \in Nat \ {0}
  PROVE  HalfEven(n, d) \in Nat
<1>1. n \div d \in Nat
  OBVIOUS
<1> QED BY <1>1 DEF HalfEven

LEMMA EurType ==
  ASSUME NEW money, money.amount \in Nat, NEW m \in Months
  PROVE  Eur(money, m) \in Nat
<1>1. UsdPerEur[m] \in Nat \ {0}
  BY ConstantsAssumption DEF ConstantsAssumption
<1> QED BY <1>1, HalfEvenType DEF Eur

\* A non-empty set of natural numbers up to n has a greatest element.
LEMMA MaxIn ==
  ASSUME NEW S, NEW n \in Nat, S \subseteq 0..n, S # {}
  PROVE  Max(S) \in S /\ \A x \in S : x <= Max(S)
<1> DEFINE N == {n - x : x \in S}
<1>1. N \subseteq Nat /\ N # {}
  OBVIOUS
<1>2. PICK k \in N : \A j \in N : k <= j
  <2> HIDE DEF N
  <2> QED BY <1>1, LeastNat
<1>3. PICK x \in S : k = n - x
  OBVIOUS
<1>4. \A y \in S : n - y \in N /\ y \in Int
  OBVIOUS
<1>5. \A y \in S : x >= y
  <2> HIDE DEF N
  <2> QED BY <1>2, <1>3, <1>4
<1>6. \E y \in S : \A z \in S : y >= z
  BY <1>5
<1>7. Max(S) \in S /\ \A y \in S : Max(S) >= y
  BY <1>6 DEF Max
<1> QED BY <1>7, <1>4

\* What applies in a month is a row of the table, the last one up to the month.
LEMMA ApplicableRow ==
  ASSUME NEW table, DOMAIN table \subseteq Months, NEW m \in Months,
         \E k \in DOMAIN table : k <= m
  PROVE  \E k \in DOMAIN table : k <= m /\ Applicable(table, m) = table[k]
<1> DEFINE S == {k \in DOMAIN table : k <= m}
<1>1. S \subseteq 0..m /\ S # {} /\ m \in Nat
  BY DEF Months
<1>2. Max(S) \in S
  <2> HIDE DEF S
  <2> QED BY <1>1, MaxIn
<1> QED BY <1>2 DEF Applicable

LEMMA SumIsOnDomain ==
  ASSUME NEW f
  PROVE  SumFunction(f) = SumFunctionOnSet(f, DOMAIN f)
BY DEF SumFunction

\* A sum of integers, written as a function.
LEMMA SumFunctionType ==
  ASSUME NEW f, IsFiniteSet(DOMAIN f), \A x \in DOMAIN f : f[x] \in Int
  PROVE  SumFunction(f) \in Int
BY SumIsOnDomain, SumType

\* A sum of natural numbers is one.
LEMMA SumNat ==
  ASSUME NEW f, NEW S, IsFiniteSet(S), \A x \in S : f[x] \in Nat
  PROVE  SumFunctionOnSet(f, S) \in Nat
<1> DEFINE F == {T \in SUBSET S : SumFunctionOnSet(f, T) \notin Nat}
<1> SUFFICES ASSUME F # {} PROVE FALSE
  OBVIOUS
<1>1. \A T \in F : IsFiniteSet(T)
  BY FS_Subset
<1>2. PICK T \in F : \A U \in F : Cardinality(T) <= Cardinality(U)
  <2> HIDE DEF F
  <2> QED BY <1>1, SmallestSet
<1>3. T # {}
  BY SumEmpty
<1>4. PICK x \in T : TRUE
  BY <1>3
<1>5. /\ IsFiniteSet(T) /\ Cardinality(T) \in Nat /\ Cardinality(T \ {x}) \in Nat
      /\ Cardinality(T \ {x}) + 1 = Cardinality(T)
  BY <1>1, SmallerWithout
<1>6. SumFunctionOnSet(f, T \ {x}) \in Nat
  <2>1. T \ {x} \in SUBSET S
    OBVIOUS
  <2>2. T \ {x} \notin F
    <3> HIDE DEF F
    <3> QED BY <1>2, <1>5
  <2> QED BY <2>1, <2>2
<1>7. SumFunctionOnSet(f, T) = f[x] + SumFunctionOnSet(f, T \ {x})
  BY <1>5, SumRemove
<1> QED BY <1>6, <1>7

LEMMA SumSingle ==
  ASSUME NEW f, NEW x, f[x] \in Int
  PROVE  SumFunctionOnSet(f, {x}) = f[x]
<1>1. IsFiniteSet({x}) /\ {x} \ {x} = {}
  BY FS_Singleton
<1>2. SumFunctionOnSet(f, {x}) = f[x] + SumFunctionOnSet(f, {x} \ {x})
  BY <1>1, SumRemove
<1> QED BY <1>1, <1>2, SumEmpty

\* Rows of zero add nothing.
LEMMA SumExtend ==
  ASSUME NEW f, NEW g, IsFiniteSet(DOMAIN g), DOMAIN f \subseteq DOMAIN g,
         \A x \in DOMAIN f : g[x] = f[x] /\ f[x] \in Int,
         \A x \in DOMAIN g \ DOMAIN f : g[x] = 0
  PROVE  SumFunction(g) = SumFunction(f)
<1> DEFINE S == DOMAIN f
           T == DOMAIN g \ DOMAIN f
<1>1. IsFiniteSet(S) /\ IsFiniteSet(T) /\ S \cap T = {} /\ DOMAIN g = S \cup T
  BY FS_Subset
<1>2. \A x \in S \cup T : g[x] \in Int
  OBVIOUS
<1>3. /\ \A x \in S : g[x] = f[x] /\ f[x] \in Int
      /\ \A x \in T : g[x] = 0
  OBVIOUS
<1>4. SumFunction(g) = SumFunctionOnSet(g, S \cup T) /\ SumFunction(f) = SumFunctionOnSet(f, S)
  BY <1>1, SumIsOnDomain
<1> HIDE DEF S, T
<1>5. SumFunctionOnSet(g, S \cup T) = SumFunctionOnSet(g, S) + SumFunctionOnSet(g, T)
  BY <1>1, <1>2, SumUnion
<1>6. SumFunctionOnSet(g, S) = SumFunctionOnSet(f, S)
  BY <1>1, <1>3, SumAgree
<1>7. SumFunctionOnSet(g, T) = 0
  BY <1>1, <1>3, SumZero
<1>8. SumFunctionOnSet(f, S) \in Int
  BY <1>1, <1>3, SumType
<1> QED BY <1>4, <1>5, <1>6, <1>7, <1>8

----------------------------------------------------------------------------
(* The types of the tables. *)

USE ConstantsAssumption

IsTable(f, V) ==
  DOMAIN f \subseteq Months /\ f = [k \in DOMAIN f |-> f[k]] /\ \A k \in DOMAIN f : f[k] \in V

Instances ==
  [amount : Nat, currency : Currencies, eur : Nat, completed : SUBSET Months, shortfall : Nat]

Entries ==
  [kind : Kinds, month : Months, from : Buckets \cup {External}, to : Buckets \cup {External},
   amount : Nat, currency : Currencies, eur : Nat]

Treatments == {"salary", "unexpected", "refund", "legacy"}

\* The calendar: months are closed in order once they are over, and the closed months of
\* the plan have been materialised.
CalendarType ==
  /\ month \in Months /\ start \subseteq Months /\ \A s \in start : start = {s} /\ s <= month
  /\ Closed \subseteq 1..(month - 1) /\ \A m \in Closed : 1..m \subseteq Closed
  /\ \A m \in Closed : Started(m) => m \in DOMAIN plan
  /\ ops \in 0..MaxOps

\* The plan: allocations, settings and instances.
PlanType ==
  /\ categories \subseteq Categories /\ DOMAIN periods = Categories
  /\ \A c \in Categories : IsTable(periods[c], Nat) /\ (c \in categories => FirstMonth \in DOMAIN periods[c])
  /\ IsTable(settings, Money)
  /\ IsTable(plan, Instances) /\ \A k \in DOMAIN plan : k <= month /\ Started(k)

\* The entries and what is recorded about them.
EntriesType ==
  /\ DOMAIN txns \subseteq TxnIds
  /\ \A t \in DOMAIN txns :
       txns[t] \in Entries /\ txns[t].month <= month /\ {txns[t].from, txns[t].to} \subseteq Known \cup {External}
  /\ DOMAIN receipts \subseteq TxnIds
  /\ \A t \in DOMAIN receipts : receipts[t] \in [treatment : Treatments, expected : SUBSET DOMAIN plan]
  /\ \A t \in DOMAIN receipts \cap DOMAIN txns : \A k \in receipts[t].expected : k <= txns[t].month
  /\ start = {} => DOMAIN receipts = {}

CorrectionsType ==
  /\ adjusted \in [Months -> Int] /\ corrections \in [Months -> [Buckets -> Int]]
  /\ \A m \in Months : \A b \in Buckets \ Known : corrections[m][b] = 0

\* The sources a movement of month m can have.
MovementKeys(m) ==
  {<<Unallocated, "funding", m>>}
  \cup {<<c, kind, m>> : c \in Known, kind \in {"allocation", "correction"}}
  \cup {<<c, kind, t>> : c \in Known, kind \in {"spending", "reallocation"}, t \in TxnIds}
  \cup {<<Unallocated, "income", t>> : t \in TxnIds}
  \cup {<<Unallocated, kind, k>> : kind \in {"excess", "settlement"}, k \in DOMAIN plan}

\* Only the months of the plan have movements.
LedgerType ==
  /\ DOMAIN ledger = Months
  /\ \A m \in Months :
       /\ DOMAIN ledger[m] \subseteq MovementKeys(m)
       /\ DOMAIN ledger[m] # {} => Started(m) /\ m \in DOMAIN plan
       /\ \A key \in DOMAIN ledger[m] : ledger[m][key] \in Int

\* The facts, which every derived amount is computed from.
FactsType ==
  CalendarType /\ PlanType /\ EntriesType /\ CorrectionsType

\* The snapshots: they list Unallocated from the start, and never fewer categories than
\* an earlier one.
IsSnapshots(s) ==
  \A m \in DOMAIN s :
    /\ DOMAIN s[m].balances \subseteq Known
    /\ \A c \in DOMAIN s[m].balances : s[m].balances[c] \in Int
    /\ Unallocated \in DOMAIN s[m].balances <=> Started(m)
    /\ s[m].coverage # {} <=> Started(m)
    /\ \A k \in DOMAIN s : k <= m => DOMAIN s[k].balances \subseteq DOMAIN s[m].balances

TypeInv ==
  /\ FactsType /\ LedgerType /\ IsSnapshots(frozen)
  /\ opening \in Int /\ drift \in Int

----------------------------------------------------------------------------
(* The types of what is computed from them. *)

LEMMA FiniteTables ==
  ASSUME FactsType
  PROVE  /\ IsFiniteSet(categories) /\ IsFiniteSet(Known) /\ IsFiniteSet(Buckets)
         /\ IsFiniteSet(DOMAIN txns) /\ IsFiniteSet(DOMAIN plan)
         /\ \A m \in Int : IsFiniteSet(1..m)
<1>1. IsFiniteSet(categories) /\ IsFiniteSet(DOMAIN txns)
  BY FS_Subset DEF ConstantsAssumption, FactsType, PlanType, EntriesType
<1>2. ASSUME NEW m \in Int PROVE IsFiniteSet(1..m)
  <2>1. 1 \in Int
    OBVIOUS
  <2> QED BY <2>1, FS_Interval
<1>3. IsFiniteSet({Unallocated}) /\ IsFiniteSet({})
  BY FS_Singleton, FS_EmptySet
<1>4. IsFiniteSet(Known)
  BY <1>1, <1>3, FS_Union DEF Known
<1>5. IsFiniteSet(Buckets)
  BY <1>3, FS_Union DEF Buckets, ConstantsAssumption
<1>6. IsFiniteSet(DOMAIN plan)
  <2>1. DOMAIN plan \subseteq 1..LastMonth /\ LastMonth \in Int
    BY DEF FactsType, PlanType, IsTable, Months, ConstantsAssumption
  <2> QED BY <1>2, <2>1, FS_Subset
<1> QED BY <1>1, <1>2, <1>4, <1>5, <1>6

LEMMA KnownBuckets ==
  ASSUME FactsType
  PROVE  Known \subseteq Buckets
BY DEF Known, Buckets, FactsType, PlanType

LEMMA ExpectedType ==
  IsTable(settings, Money) => \A m \in Months : Expected(m) \in Money
<1> SUFFICES ASSUME IsTable(settings, Money), NEW m \in Months
             PROVE  Expected(m) \in Money
  OBVIOUS
<1>1. IsTable(settings, Money) /\ DefaultPlan \in Money
  BY DEF ConstantsAssumption
<1>2. CASE \E k \in DOMAIN settings : k <= m
  <2>1. Applicable(settings, m) \in Money
    BY <1>1, <1>2, ApplicableRow DEF IsTable
  <2> QED BY <1>2, <2>1 DEF Expected
<1> QED BY <1>1, <1>2 DEF Expected

LEMMA AllocationType ==
  FactsType => \A c \in categories, m \in Months : Allocation(c, m) \in Nat
<1> SUFFICES ASSUME FactsType, NEW c \in categories, NEW m \in Months
             PROVE  Allocation(c, m) \in Nat
  OBVIOUS
<1>1. IsTable(periods[c], Nat) /\ FirstMonth \in DOMAIN periods[c]
  BY DEF FactsType, PlanType
<1>2. FirstMonth <= m
  BY DEF FirstMonth, Months
<1>3. PICK k \in DOMAIN periods[c] : Applicable(periods[c], m) = periods[c][k]
  BY <1>1, <1>2, ApplicableRow DEF IsTable
<1> QED BY <1>1, <1>3 DEF Allocation, IsTable

LEMMA TotalAllocationType ==
  FactsType => \A m \in Months : TotalAllocation(m) \in Int
<1> SUFFICES ASSUME FactsType, NEW m \in Months PROVE TotalAllocation(m) \in Int
  OBVIOUS
<1>1. \A c \in categories : Allocation(c, m) \in Int
  BY AllocationType
<1> QED BY <1>1, FiniteTables, SumFunctionType DEF TotalAllocation

LEMMA InstanceType ==
  IsTable(settings, Money) => \A m \in Months : Instance(m) \in Instances
<1> SUFFICES ASSUME IsTable(settings, Money), NEW m \in Months
             PROVE  Instance(m) \in Instances
  OBVIOUS
<1>1. Expected(m) \in Money
  BY ExpectedType
<1>2. Expected(m).amount \in Nat /\ Expected(m).currency \in Currencies
  BY <1>1 DEF Money
<1>3. Eur(Expected(m), m) \in Nat
  BY <1>2, EurType
<1> QED BY <1>2, <1>3 DEF Instance, Instances

\* The receipts of an expectation are entries.
LEMMA MatchedFinite ==
  ASSUME FactsType, NEW k, NEW through
  PROVE  /\ IsFiniteSet(MatchedReceipts(k, through))
         /\ MatchedReceipts(k, through) \subseteq DOMAIN txns
         /\ MatchedReceipts(k, through) \subseteq DOMAIN receipts
<1>1. MatchedReceipts(k, through) \subseteq DOMAIN txns
  BY DEF MatchedReceipts
<1> QED BY <1>1, FiniteTables, FS_Subset DEF MatchedReceipts

LEMMA NativeType ==
  ASSUME NEW t, txns[t] \in Entries, NEW p \in Instances
  PROVE  Native(t, p) \in Nat
<1>1. txns[t].amount \in Nat /\ txns[t].eur \in Nat /\ p.amount \in Nat /\ p.eur \in Nat
  BY DEF Entries, Instances
<1>2. txns[t].eur * p.amount \in Nat
  BY <1>1
<1>3. p.eur # 0 => HalfEven(txns[t].eur * p.amount, p.eur) \in Nat
  BY <1>1, <1>2, HalfEvenType
<1> QED BY <1>1, <1>3 DEF Native

LEMMA FundingPortionType ==
  ASSUME NEW native \in Nat, NEW p \in Instances
  PROVE  FundingPortion(native, p) \in Nat
<1>1. p.amount \in Nat /\ p.eur \in Nat
  BY DEF Instances
<1>2. native * p.eur \in Nat
  BY <1>1
<1>3. p.amount # 0 => HalfEven(native * p.eur, p.amount) \in Nat
  BY <1>1, <1>2, HalfEvenType
<1> QED BY <1>3 DEF FundingPortion

LEMMA RemainderType ==
  FactsType => \A k, through : \A p \in Instances : Remainder(k, p, through) \in Nat
<1> SUFFICES ASSUME FactsType, NEW k, NEW through, NEW p \in Instances
             PROVE  Remainder(k, p, through) \in Nat
  OBVIOUS
<1> DEFINE f == [t \in MatchedReceipts(k, through) |-> Native(t, p)]
<1>1. \A t \in MatchedReceipts(k, through) : txns[t] \in Entries
  BY MatchedFinite DEF FactsType, EntriesType
<1>2. \A t \in DOMAIN f : f[t] \in Int
  BY <1>1, NativeType
<1>3. SumFunction(f) \in Int
  <2>1. IsFiniteSet(DOMAIN f)
    BY MatchedFinite
  <2> HIDE DEF f
  <2> QED BY <1>2, <2>1, SumFunctionType
<1> HIDE DEF f
<1>4. Positive(p.amount - SumFunction(f)) \in Nat
  BY <1>3 DEF Positive, Instances
<1>5. FundingPortion(Positive(p.amount - SumFunction(f)), p) \in Nat
  BY <1>4, FundingPortionType
<1> QED BY <1>5 DEF Remainder, f

LEMMA OutstandingType ==
  FactsType => \A k \in DOMAIN plan : \A through : Outstanding(k, through) \in Nat
<1> SUFFICES ASSUME FactsType, NEW k \in DOMAIN plan, NEW through
             PROVE  Outstanding(k, through) \in Nat
  OBVIOUS
<1>1. plan[k] \in Instances
  BY DEF FactsType, PlanType, IsTable
<1> QED BY <1>1, RemainderType DEF Outstanding

LEMMA ReceivedType ==
  ASSUME FactsType, NEW k \in DOMAIN plan, NEW S \in SUBSET DOMAIN txns
  PROVE  ReceivedAmount(k, S) \in Nat
<1>1. plan[k] \in Instances /\ \A t \in S : txns[t] \in Entries
  BY DEF FactsType, PlanType, IsTable, EntriesType
<1> DEFINE f == [t \in S |-> Native(t, plan[k])]
<1>2. IsFiniteSet(S) /\ \A t \in S : f[t] \in Nat
  BY <1>1, NativeType, FiniteTables, FS_Subset
<1>3. SumFunctionOnSet(f, S) \in Nat
  <2> HIDE DEF f
  <2> QED BY <1>2, SumNat
<1>4. SumFunction(f) = SumFunctionOnSet(f, S)
  BY SumIsOnDomain
<1> QED BY <1>3, <1>4 DEF ReceivedAmount

LEMMA MinOfTwo ==
  ASSUME NEW a \in Int, NEW b \in Int
  PROVE  Min({a, b}) = IF a <= b THEN a ELSE b
<1>1. CASE a <= b
  <2>1. \E x \in {a, b} : \A y \in {a, b} : x <= y
    BY <1>1
  <2>2. Min({a, b}) \in {a, b} /\ \A y \in {a, b} : Min({a, b}) <= y
    BY <2>1 DEF Min
  <2> QED BY <1>1, <2>2
<1>2. CASE ~(a <= b)
  <2>1. \E x \in {a, b} : \A y \in {a, b} : x <= y
    BY <1>2
  <2>2. Min({a, b}) \in {a, b} /\ \A y \in {a, b} : Min({a, b}) <= y
    BY <2>1 DEF Min
  <2> QED BY <1>2, <2>2
<1> QED BY <1>1, <1>2

\* What a receipt covers.
Settled(k, S) == Min({plan[k].amount, ReceivedAmount(k, S)})

LEMMA CoveredUnfold ==
  ASSUME NEW k, NEW t
  PROVE  CoveredBy(k, t) =
           LET rows == Earlier(t, MatchedReceipts(k, month))
           IN  FundingPortion(Settled(k, rows \cup {t}), plan[k])
                 - FundingPortion(Settled(k, rows), plan[k])
BY DEF CoveredBy, Settled

LEMMA CoveredType ==
  FactsType =>
    \A k \in DOMAIN plan : \A t \in DOMAIN txns : CoveredBy(k, t) \in Int
<1> SUFFICES ASSUME FactsType, NEW k \in DOMAIN plan, NEW t \in DOMAIN txns
             PROVE  CoveredBy(k, t) \in Int
  OBVIOUS
<1> DEFINE rows == Earlier(t, MatchedReceipts(k, month))
<1>1. rows \subseteq DOMAIN txns /\ rows \cup {t} \subseteq DOMAIN txns
  BY MatchedFinite DEF Earlier
<1>2. plan[k] \in Instances /\ plan[k].amount \in Nat
  BY DEF FactsType, PlanType, IsTable, Instances
<1>3. ASSUME NEW S \in SUBSET DOMAIN txns PROVE FundingPortion(Settled(k, S), plan[k]) \in Nat
  <2>1. Settled(k, S) \in Nat
    <3>1. ReceivedAmount(k, S) \in Nat
      BY ReceivedType
    <3>2. plan[k].amount \in Int /\ ReceivedAmount(k, S) \in Int
      BY <1>2, <3>1
    <3> QED BY <1>2, <3>1, <3>2, MinOfTwo DEF Settled
  <2> QED BY <1>2, <2>1, FundingPortionType
<1> HIDE DEF rows
<1>4. /\ FundingPortion(Settled(k, rows), plan[k]) \in Int
      /\ FundingPortion(Settled(k, rows \cup {t}), plan[k]) \in Int
  BY <1>1, <1>3
<1> QED BY <1>4, CoveredUnfold DEF rows

LEMMA ExcessType ==
  FactsType => \A k \in DOMAIN plan : \A m : Excess(k, m) \in Int
<1> SUFFICES ASSUME FactsType, NEW k \in DOMAIN plan, NEW m PROVE Excess(k, m) \in Int
  OBVIOUS
<1> DEFINE S == {u \in MatchedReceipts(k, month) : txns[u].month = m /\ receipts[u].treatment # "legacy"}
           f == [t \in S |-> txns[t].eur - CoveredBy(k, t)]
<1>1. IsFiniteSet(S) /\ S \subseteq DOMAIN txns
  BY MatchedFinite, FS_Subset
<1>2. \A t \in DOMAIN txns : txns[t].eur \in Int
  BY DEF FactsType, EntriesType, Entries
<1>3. \A t \in S : f[t] \in Int
  <2> HIDE DEF S
  <2> QED BY <1>1, <1>2, CoveredType
<1>4. SumFunction(f) \in Int
  <2>1. DOMAIN f = S
    OBVIOUS
  <2> HIDE DEF f, S
  <2> QED BY <1>1, <1>3, <2>1, SumFunctionType
<1> QED BY <1>4 DEF Excess

----------------------------------------------------------------------------
(* The types of movements and of balances. *)

\* The kinds of movements.
MovementKinds ==
  {"funding", "allocation", "spending", "reallocation", "income", "excess", "settlement", "correction"}

LEMMA MovementParts ==
  ASSUME FactsType, NEW m \in Months, NEW key \in MovementKeys(m)
  PROVE  /\ key = <<key[1], key[2], key[3]>>
         /\ key[1] \in Buckets /\ key[2] \in MovementKinds /\ key[3] \in TxnIds \cup Months
<1>1. Known \subseteq Buckets /\ Unallocated \in Buckets /\ DOMAIN plan \subseteq Months
  BY KnownBuckets DEF Buckets, FactsType, PlanType, IsTable
<1>2. CASE key \in {<<Unallocated, "funding", m>>}
  BY <1>1, <1>2 DEF MovementKinds
<1>3. CASE key \in {<<c, kind, m>> : c \in Known, kind \in {"allocation", "correction"}}
  BY <1>1, <1>3 DEF MovementKinds
<1>4. CASE key \in {<<c, kind, t>> : c \in Known, kind \in {"spending", "reallocation"}, t \in TxnIds}
  BY <1>1, <1>4 DEF MovementKinds
<1>5. CASE key \in {<<Unallocated, "income", t>> : t \in TxnIds}
  BY <1>1, <1>5 DEF MovementKinds
<1>6. CASE key \in {<<Unallocated, kind, k>> : kind \in {"excess", "settlement"}, k \in DOMAIN plan}
  BY <1>1, <1>6 DEF MovementKinds
<1> QED BY <1>2, <1>3, <1>4, <1>5, <1>6 DEF MovementKeys

LEMMA MovementsFinite ==
  ASSUME FactsType, NEW m \in Months
  PROVE  IsFiniteSet(MovementKeys(m))
<1> DEFINE T == Buckets \X (MovementKinds \X (TxnIds \cup Months))
           f == [key \in MovementKeys(m) |-> <<key[1], <<key[2], key[3]>>>>]
<1>1. IsFiniteSet(MovementKinds)
  <2> DEFINE half == (({"funding"} \cup {"allocation"}) \cup {"spending"}) \cup {"reallocation"}
             rest == (({"income"} \cup {"excess"}) \cup {"settlement"}) \cup {"correction"}
  <2>1. \A kind : IsFiniteSet({kind})
    BY FS_Singleton
  <2>2. IsFiniteSet(half)
    BY <2>1, FS_Union
  <2>3. IsFiniteSet(rest)
    BY <2>1, FS_Union
  <2>4. MovementKinds = half \cup rest
    BY DEF MovementKinds
  <2> QED BY <2>2, <2>3, <2>4, FS_Union
<1>2. IsFiniteSet(TxnIds \cup Months)
  <2>1. IsFiniteSet(Months)
    BY FS_Interval DEF Months, ConstantsAssumption
  <2> QED BY <2>1, FS_Union DEF ConstantsAssumption
<1>3. IsFiniteSet(T)
  BY <1>1, <1>2, FiniteTables, FS_Product
<1>4. f \in Injection(MovementKeys(m), T)
  <2>1. \A key \in MovementKeys(m) :
          /\ key = <<key[1], key[2], key[3]>>
          /\ key[1] \in Buckets /\ key[2] \in MovementKinds /\ key[3] \in TxnIds \cup Months
    BY MovementParts
  <2>2. f \in [MovementKeys(m) -> T]
    BY <2>1
  <2>3. ASSUME NEW a \in MovementKeys(m), NEW b \in MovementKeys(m), f[a] = f[b] PROVE a = b
    <3>1. <<a[1], <<a[2], a[3]>>>> = <<b[1], <<b[2], b[3]>>>>
      BY <2>3
    <3>2. a[1] = b[1] /\ a[2] = b[2] /\ a[3] = b[3]
      BY <3>1
    <3>3. a = <<a[1], a[2], a[3]>> /\ b = <<b[1], b[2], b[3]>>
      BY <2>1
    <3> QED BY <3>2, <3>3
  <2> HIDE DEF f, T
  <2> QED BY <2>2, <2>3 DEF Injection, IsInjective
<1> HIDE DEF f, T
<1> QED BY <1>3, <1>4, FS_Injection

\* What the facts ask of a movement is an amount.
LEMMA WantedType ==
  FactsType =>
    \A m \in DOMAIN plan : \A key \in MovementKeys(m) : Wanted(m, key) \in Int
<1> SUFFICES ASSUME FactsType, NEW m \in DOMAIN plan, NEW key \in MovementKeys(m)
             PROVE  Wanted(m, key) \in Int
  OBVIOUS
<1>1. m \in Months /\ plan[m] \in Instances /\ plan[m].eur \in Int
  BY DEF FactsType, PlanType, IsTable, Instances
<1>2. Unallocated \notin categories /\ TotalAllocation(m) \in Int
  BY <1>1, TotalAllocationType DEF FactsType, PlanType, ConstantsAssumption
<1>3. \A c \in Known : c = Unallocated \/ c \in categories
  BY DEF Known
<1>4. CASE key \in {<<Unallocated, "funding", m>>}
  BY <1>1, <1>4 DEF Wanted
<1>5. CASE key \in {<<c, kind, m>> : c \in Known, kind \in {"allocation", "correction"}}
  <2>1. PICK c \in Known : key = <<c, "allocation", m>> \/ key = <<c, "correction", m>>
    BY <1>5
  <2>2. CASE key = <<c, "allocation", m>>
    <3>1. Wanted(m, key) = IF c = Unallocated THEN -TotalAllocation(m) ELSE Allocation(c, m)
      BY <2>2 DEF Wanted
    <3>2. c # Unallocated => Allocation(c, m) \in Int
      BY <1>1, <1>3, AllocationType
    <3> QED BY <1>2, <3>1, <3>2
  <2>3. CASE key = <<c, "correction", m>>
    <3>1. Wanted(m, key) = -corrections[m][c]
      BY <2>3 DEF Wanted
    <3>2. corrections[m][c] \in Int
      BY <1>1, KnownBuckets DEF FactsType, CorrectionsType
    <3> QED BY <3>1, <3>2
  <2> QED BY <2>1, <2>2, <2>3
<1>6. ASSUME NEW t \in EntriesOf(m), NEW b, NEW amount \in Int PROVE Sides(t, b, amount) \in Int
  BY DEF Sides
<1>7. \A t \in EntriesOf(m) : txns[t].eur \in Int /\ txns[t].amount \in Int
  BY DEF EntriesOf, FactsType, EntriesType, Entries
<1>8. CASE key \in {<<c, kind, t>> : c \in Known, kind \in {"spending", "reallocation"}, t \in TxnIds}
  <2>1. PICK c \in Known, t \in TxnIds : key = <<c, "spending", t>> \/ key = <<c, "reallocation", t>>
    BY <1>8
  <2>2. CASE key = <<c, "spending", t>>
    <3>1. Wanted(m, key) = IF t \in EntriesOf(m) /\ Spends(t) THEN Sides(t, c, txns[t].eur) ELSE 0
      BY <2>2 DEF Wanted
    <3> QED BY <1>6, <1>7, <3>1
  <2>3. CASE key = <<c, "reallocation", t>>
    <3>1. Wanted(m, key) = IF t \in EntriesOf(m) /\ txns[t].kind = "reallocate"
                           THEN Sides(t, c, txns[t].amount) ELSE 0
      BY <2>3 DEF Wanted
    <3> QED BY <1>6, <1>7, <3>1
  <2> QED BY <2>1, <2>2, <2>3
<1>9. CASE key \in {<<Unallocated, "income", t>> : t \in TxnIds}
  <2>1. PICK t \in TxnIds : key = <<Unallocated, "income", t>>
    BY <1>9
  <2>2. Wanted(m, key) = IF t \in EntriesOf(m) /\ Unplanned(t) THEN txns[t].eur ELSE 0
    BY <2>1 DEF Wanted
  <2> QED BY <1>7, <2>2
<1>10. CASE key \in {<<Unallocated, kind, k>> : kind \in {"excess", "settlement"}, k \in DOMAIN plan}
  <2>1. PICK k \in DOMAIN plan : key = <<Unallocated, "excess", k>> \/ key = <<Unallocated, "settlement", k>>
    BY <1>10
  <2>2. CASE key = <<Unallocated, "excess", k>>
    <3>1. Wanted(m, key) = Excess(k, m)
      BY <2>2 DEF Wanted
    <3> QED BY <3>1, ExcessType
  <2>3. CASE key = <<Unallocated, "settlement", k>>
    <3>1. Wanted(m, key) = IF plan[k].completed = {m} THEN -plan[k].shortfall ELSE 0
      BY <2>3 DEF Wanted
    <3>2. plan[k].shortfall \in Int
      BY DEF FactsType, PlanType, IsTable, Instances
    <3> QED BY <3>1, <3>2
  <2> QED BY <2>1, <2>2, <2>3
<1> QED BY <1>4, <1>5, <1>8, <1>9, <1>10 DEF MovementKeys

LEMMA MovedType ==
  FactsType /\ LedgerType =>
    \A m \in Months : IsFiniteSet(DOMAIN ledger[m]) /\ \A b, kinds : Moved(b, kinds, m) \in Int
<1> SUFFICES ASSUME FactsType, LedgerType, NEW m \in Months
             PROVE  IsFiniteSet(DOMAIN ledger[m]) /\ \A b, kinds : Moved(b, kinds, m) \in Int
  OBVIOUS
<1>1. IsFiniteSet(DOMAIN ledger[m])
  BY MovementsFinite, FS_Subset DEF LedgerType
<1>2. ASSUME NEW b, NEW kinds PROVE Moved(b, kinds, m) \in Int
  <2> DEFINE S == {key \in DOMAIN ledger[m] : key[1] = b /\ key[2] \in kinds}
  <2>1. IsFiniteSet(S) /\ \A key \in S : ledger[m][key] \in Int
    BY <1>1, FS_Subset DEF LedgerType
  <2>2. SumFunctionOnSet(ledger[m], S) \in Int
    <3> HIDE DEF S
    <3> QED BY <2>1, SumType
  <2> QED BY <2>2 DEF Moved
<1> QED BY <1>1, <1>2

LEMMA SidesType == ASSUME NEW t, NEW b, NEW amount \in Int PROVE Sides(t, b, amount) \in Int
BY DEF Sides

LEMMA EnteredType ==
  FactsType => \A c, m : Entered(c, m) \in Int
<1> SUFFICES ASSUME FactsType, NEW c, NEW m PROVE Entered(c, m) \in Int
  OBVIOUS
<1> DEFINE f == [t \in EntriesOf(m) |->
                   Sides(t, c, IF txns[t].kind = "reallocate" THEN txns[t].amount ELSE txns[t].eur)]
<1>1. EntriesOf(m) \subseteq DOMAIN txns /\ DOMAIN f = EntriesOf(m)
  BY DEF EntriesOf
<1>2. IsFiniteSet(DOMAIN f)
  BY <1>1, FiniteTables, FS_Subset
<1>3. \A t \in DOMAIN txns : txns[t].amount \in Int /\ txns[t].eur \in Int
  BY DEF FactsType, EntriesType, Entries
<1>4. \A t \in DOMAIN f : f[t] \in Int
  BY <1>1, <1>3, SidesType
<1>5. SumFunction(f) \in Int
  <2> HIDE DEF f
  <2> QED BY <1>2, <1>4, SumFunctionType
<1> QED BY <1>5 DEF Entered

LEMMA MonthlyType ==
  FactsType /\ LedgerType =>
    \A c \in categories, m \in Months : Monthly(c, m) \in Int /\ CategoryChange(c, m) \in Int
<1> SUFFICES ASSUME FactsType, LedgerType, NEW c \in categories, NEW m \in Months
             PROVE  Monthly(c, m) \in Int /\ CategoryChange(c, m) \in Int
  OBVIOUS
<1>1. /\ Moved(c, {"allocation"}, m) \in Int /\ Moved(c, {"spending", "reallocation"}, m) \in Int
      /\ Allocation(c, m) \in Int /\ Entered(c, m) \in Int
  BY MovedType, AllocationType, EnteredType
<1>2. corrections[m][c] \in Int
  BY DEF FactsType, CorrectionsType, PlanType, Buckets
<1> QED BY <1>1, <1>2 DEF Monthly, CategoryChange

LEMMA UnallocatedChangeType ==
  FactsType /\ LedgerType => \A m \in Months : UnallocatedChange(m) \in Int
<1> SUFFICES ASSUME FactsType, LedgerType, NEW m \in Months
             PROVE  UnallocatedChange(m) \in Int
  OBVIOUS
<1> DEFINE f == [c \in categories |-> Monthly(c, m)]
<1>1. IsFiniteSet(DOMAIN f) /\ \A c \in DOMAIN f : f[c] \in Int
  BY FiniteTables, MonthlyType
<1>2. SumFunction(f) \in Int
  <2> HIDE DEF f
  <2> QED BY <1>1, SumFunctionType
<1>3. Eur(Expected(m), m) \in Int
  <2>1. Expected(m).amount \in Nat
    BY ExpectedType DEF Money, FactsType, PlanType
  <2> QED BY <2>1, EurType
<1>4. \A b, kinds : Moved(b, kinds, m) \in Int
  BY MovedType
<1> HIDE DEF f
<1> QED BY <1>2, <1>3, <1>4 DEF UnallocatedChange, f

----------------------------------------------------------------------------
(* The balances month after month. *)

\* What History says of month m, from the month before in the function b.
BalanceOf(b, snapshots, m, c) ==
  IF m = 0 THEN IF c = Unallocated THEN opening ELSE 0
  ELSE IF m \in DOMAIN snapshots THEN
    IF c \in DOMAIN snapshots[m].balances THEN snapshots[m].balances[c] ELSE b[m - 1][c]
  ELSE IF c # Unallocated THEN b[m - 1][c] + CategoryChange(c, m)
  ELSE IF Started(m) THEN b[m - 1][c] + UnallocatedChange(m)
  ELSE b[m - 1][c]

IsHistory(b, snapshots, n) ==
  b = [m \in 0..n |-> [c \in Known |-> BalanceOf(b, snapshots, m, c)]]

\* The recursion has a solution: one for n months gives one for n + 1.
LEMMA HistoryExists ==
  ASSUME NEW s, NEW n \in Nat
  PROVE  \E b : IsHistory(b, s, n)
<1> DEFINE B == {m \in Nat : ~ \E b : IsHistory(b, s, m)}
<1>1. B = {}
  <2> SUFFICES ASSUME B # {} PROVE FALSE
    OBVIOUS
  <2>1. PICK m \in B : \A k \in B : m <= k
    BY LeastNat
  <2>2. m # 0
    <3> DEFINE first == [j \in 0..0 |-> [c \in Known |-> IF c = Unallocated THEN opening ELSE 0]]
    <3>1. \A c : BalanceOf(first, s, 0, c) = IF c = Unallocated THEN opening ELSE 0
      BY DEF BalanceOf
    <3>2. first = [j \in 0..0 |-> [c \in Known |-> BalanceOf(first, s, j, c)]]
      <4>1. \A j \in 0..0 : j = 0
        OBVIOUS
      <4> QED BY <3>1, <4>1
    <3> HIDE DEF first
    <3> QED BY <3>2 DEF IsHistory
  <2>3. m \in Nat /\ m - 1 \in Nat
    BY <2>2
  <2>4. m - 1 \notin B
    <3> HIDE DEF B
    <3> QED BY <2>1, <2>3
  <2>5. PICK b : IsHistory(b, s, m - 1)
    BY <2>3, <2>4
  <2> DEFINE h == [j \in 0..m |-> IF j < m THEN b[j] ELSE [c \in Known |-> BalanceOf(b, s, m, c)]]
  <2>6. ASSUME NEW j \in 0..m, NEW c
        PROVE  BalanceOf(h, s, j, c) = BalanceOf(b, s, j, c)
    <3>1. j # 0 => j - 1 \in 0..m /\ j - 1 < m
      BY <2>3
    <3>2. j # 0 => h[j - 1] = b[j - 1]
      BY <3>1
    <3> HIDE DEF h
    <3> QED BY <3>2 DEF BalanceOf
  <2>7. ASSUME NEW j \in 0..m PROVE h[j] = [c \in Known |-> BalanceOf(h, s, j, c)]
    <3>1. h[j] = [c \in Known |-> BalanceOf(b, s, j, c)]
      <4>1. CASE j = m
        BY <2>3, <4>1
      <4>2. CASE j < m
        <5>1. j \in 0..(m - 1) /\ h[j] = b[j]
          BY <2>3, <4>2
        <5> HIDE DEF h, B
        <5> QED BY <2>5, <5>1 DEF IsHistory
      <4> QED BY <2>3, <4>1, <4>2
    <3> HIDE DEF h, B
    <3> QED BY <2>6, <3>1
  <2>8. IsHistory(h, s, m)
    <3>1. h = [j \in 0..m |-> h[j]]
      OBVIOUS
    <3> HIDE DEF h, B
    <3> QED BY <2>7, <3>1 DEF IsHistory
  <2> QED BY <2>1, <2>8
<1> QED BY <1>1

\* So the recursion says what the balances are.
LEMMA HistoryIs ==
  \A s : month \in Nat => IsHistory(History(s), s, month)
<1> SUFFICES ASSUME NEW s, month \in Nat PROVE IsHistory(History(s), s, month)
  OBVIOUS
<1>1. History(s) = CHOOSE b : IsHistory(b, s, month)
  BY DEF History, IsHistory, BalanceOf
<1> QED BY <1>1, HistoryExists

LEMMA HistoryRow ==
  \A s : month \in Nat =>
    \A m \in 0..month :
      /\ DOMAIN History(s)[m] = Known
      /\ \A c \in Known : History(s)[m][c] = BalanceOf(History(s), s, m, c)
BY HistoryIs DEF IsHistory

HasAmounts(s) == \A m \in DOMAIN s : \A c \in DOMAIN s[m].balances : s[m].balances[c] \in Int

LEMMA HistoryType ==
  FactsType /\ LedgerType /\ opening \in Int =>
    \A s : HasAmounts(s) => \A m \in 0..month, c \in Known : History(s)[m][c] \in Int
<1> SUFFICES ASSUME FactsType, LedgerType, opening \in Int, NEW s, HasAmounts(s)
             PROVE  \A m \in 0..month, c \in Known : History(s)[m][c] \in Int
  OBVIOUS
<1>0. month \in Nat /\ month <= LastMonth /\ LastMonth \in Nat
  BY DEF FactsType, CalendarType, Months, ConstantsAssumption
<1> DEFINE h == History(s)
           B == {m \in 0..month : \E c \in Known : h[m][c] \notin Int}
<1>1. B = {}
  <2> SUFFICES ASSUME B # {} PROVE FALSE
    OBVIOUS
  <2>1. PICK m \in B : \A k \in B : m <= k
    <3>1. B \subseteq Nat
      OBVIOUS
    <3> HIDE DEF B
    <3> QED BY <3>1, LeastNat
  <2>2. PICK c \in Known : h[m][c] \notin Int
    OBVIOUS
  <2>3. m \in 0..month /\ h[m][c] = BalanceOf(h, s, m, c)
    BY <1>0, HistoryRow
  <2>4. m # 0 => m \in Months /\ m - 1 \in 0..month /\ m - 1 \notin B
    <3>1. m # 0 => m \in Months /\ m - 1 \in 0..month /\ ~(m <= m - 1)
      BY <1>0, <2>3 DEF Months
    <3> HIDE DEF B
    <3> QED BY <2>1, <3>1
  <2>5. m # 0 => h[m - 1][c] \in Int
    BY <2>4
  <2>6. c # Unallocated => c \in categories
    BY DEF Known
  <2>7. m # 0 /\ c # Unallocated => CategoryChange(c, m) \in Int
    BY <2>4, <2>6, MonthlyType
  <2>8. m # 0 => UnallocatedChange(m) \in Int
    BY <2>4, UnallocatedChangeType
  <2> HIDE DEF B, h
  <2> QED BY <2>2, <2>3, <2>5, <2>7, <2>8 DEF BalanceOf, HasAmounts
<1> QED BY <1>1

LEMMA CashType ==
  FactsType => \A m \in Months : Cash(m) \in Int
<1> SUFFICES ASSUME FactsType, NEW m \in Months PROVE Cash(m) \in Int
  OBVIOUS
<1> DEFINE S == {u \in DOMAIN txns : txns[u].month <= m}
           f == [t \in S |-> CashChange(t)]
<1>1. IsFiniteSet(S) /\ S \subseteq DOMAIN txns
  BY FiniteTables, FS_Subset
<1>2. ASSUME NEW t \in DOMAIN txns PROVE CashChange(t) \in Int
  <2>1. txns[t].kind \in Kinds /\ txns[t].eur \in Int
    BY DEF FactsType, EntriesType, Entries
  <2> QED BY <2>1 DEF CashChange, Kinds
<1>3. \A t \in S : f[t] \in Int
  <2> HIDE DEF S
  <2> QED BY <1>1, <1>2
<1>4. SumFunction(f) \in Int
  <2>1. DOMAIN f = S
    OBVIOUS
  <2> HIDE DEF f, S
  <2> QED BY <1>1, <1>3, <2>1, SumFunctionType
<1>5. SumFunctionOnSet(adjusted, 1..m) \in Int
  <2>1. IsFiniteSet(1..m) /\ \A k \in 1..m : adjusted[k] \in Int
    BY FiniteTables DEF FactsType, CorrectionsType, Months
  <2> QED BY <2>1, SumType
<1> QED BY <1>4, <1>5 DEF Cash

LEMMA OutstandingSumType ==
  FactsType =>
    \A m : SumFunction([k \in {j \in DOMAIN plan : j <= m} |-> Outstanding(k, m)]) \in Int
<1> SUFFICES ASSUME FactsType, NEW m
             PROVE  SumFunction([k \in {j \in DOMAIN plan : j <= m} |-> Outstanding(k, m)]) \in Int
  OBVIOUS
<1> DEFINE S == {j \in DOMAIN plan : j <= m}
           f == [k \in S |-> Outstanding(k, m)]
<1>1. IsFiniteSet(S) /\ S \subseteq DOMAIN plan
  BY FiniteTables, FS_Subset
<1>2. \A k \in DOMAIN plan : Outstanding(k, m) \in Int
  BY OutstandingType
<1>3. SumFunction(f) \in Int
  <2>1. DOMAIN f = S
    OBVIOUS
  <2> HIDE DEF S
  <2>2. \A k \in S : f[k] \in Int
    BY <1>1, <1>2
  <2> HIDE DEF f
  <2> QED BY <1>1, <2>1, <2>2, SumFunctionType
<1> QED BY <1>3

LEMMA DriftType ==
  FactsType => \A m \in Months : Drift(m) \in Int
<1> SUFFICES ASSUME FactsType, NEW m \in Months PROVE Drift(m) \in Int
  OBVIOUS
<1> DEFINE planned == {k \in DOMAIN plan : k <= m}
           before == {t \in DOMAIN txns : ~Started(txns[t].month)}
           covered(k, treatment) ==
             SumFunction([t \in {u \in MatchedReceipts(k, m) : receipts[u].treatment = treatment} |->
                            CoveredBy(k, t)])
           gone(k) == IF CompletedBy(k, m)
                      THEN plan[k].shortfall + covered(k, "salary") - plan[k].eur
                      ELSE -covered(k, "legacy")
           one == [k \in 1..m |-> adjusted[k] + SumFunctionOnSet(corrections[k], Buckets)]
           two == [t \in before |-> Sides(t, Unallocated, txns[t].eur)]
           three == [k \in planned |-> gone(k)]
<1>1. SumFunction(one) \in Int
  <2>1. \A k \in 1..m : k \in Months
    BY DEF Months
  <2>2. \A k \in Months : SumFunctionOnSet(corrections[k], Buckets) \in Int /\ adjusted[k] \in Int
    <3>1. \A k \in Months : \A b \in Buckets : corrections[k][b] \in Int
      BY DEF FactsType, CorrectionsType
    <3>2. \A k \in Months : adjusted[k] \in Int
      BY DEF FactsType, CorrectionsType
    <3> QED BY <3>1, <3>2, FiniteTables, SumType
  <2>3. DOMAIN one = 1..m /\ \A k \in 1..m : one[k] \in Int
    BY <2>1, <2>2
  <2>4. IsFiniteSet(1..m)
    BY FiniteTables DEF Months
  <2> HIDE DEF one
  <2> QED BY <2>3, <2>4, SumFunctionType
<1>2. SumFunction(two) \in Int
  <2>1. IsFiniteSet(before) /\ before \subseteq DOMAIN txns /\ DOMAIN two = before
    BY FiniteTables, FS_Subset
  <2>2. \A t \in DOMAIN txns : txns[t].eur \in Int
    BY DEF FactsType, EntriesType, Entries
  <2> HIDE DEF before
  <2>3. \A t \in before : two[t] \in Int
    BY <2>1, <2>2, SidesType
  <2> HIDE DEF two
  <2> QED BY <2>1, <2>3, SumFunctionType
<1>3. ASSUME NEW k \in DOMAIN plan, NEW treatment PROVE covered(k, treatment) \in Int
  <2> DEFINE S == {u \in MatchedReceipts(k, m) : receipts[u].treatment = treatment}
             f == [t \in S |-> CoveredBy(k, t)]
  <2>1. IsFiniteSet(S) /\ S \subseteq DOMAIN txns /\ DOMAIN f = S
    BY MatchedFinite, FS_Subset
  <2> HIDE DEF S
  <2>2. \A t \in S : f[t] \in Int
    BY <2>1, CoveredType
  <2>3. SumFunction(f) \in Int
    <3> HIDE DEF f
    <3> QED BY <2>1, <2>2, SumFunctionType
  <2> QED BY <2>3 DEF S
<1> HIDE DEF covered
<1>4. SumFunction(three) \in Int
  <2>1. IsFiniteSet(planned) /\ planned \subseteq DOMAIN plan /\ DOMAIN three = planned
    BY FiniteTables, FS_Subset
  <2>2. \A k \in DOMAIN plan : plan[k].shortfall \in Int /\ plan[k].eur \in Int
    BY DEF FactsType, PlanType, IsTable, Instances
  <2>3. \A k \in DOMAIN plan : gone(k) \in Int
    BY <1>3, <2>2
  <2> HIDE DEF planned, gone
  <2>4. \A k \in planned : three[k] \in Int
    BY <2>1, <2>3
  <2> HIDE DEF three
  <2> QED BY <2>1, <2>4, SumFunctionType
<1>5. Drift(m) = SumFunction(one) + SumFunction(two) + SumFunction(three)
  BY DEF Drift, covered
<1> HIDE DEF one, two, three
<1> QED BY <1>1, <1>2, <1>4, <1>5

----------------------------------------------------------------------------
(* The tables keep their types. *)

LEMMA NextInstanceType ==
  IsTable(settings, Money)' => (\A m \in Months : Instance(m) \in Instances)'
BY InstanceType, PTL

\* The open months from the start on have instances, and no instance changes.
LEMMA MaterialisedType ==
  ASSUME FactsType
  PROVE  /\ IsTable(Materialised(plan), Instances)
         /\ DOMAIN plan \subseteq DOMAIN Materialised(plan)
         /\ \A k \in DOMAIN plan : Materialised(plan)[k] = plan[k]
         /\ \A k \in DOMAIN Materialised(plan) \ DOMAIN plan :
              k \in Months /\ RequireOpen(k) /\ Started(k) /\ Materialised(plan)[k] = Instance(k)
         /\ \A k \in DOMAIN Materialised(plan) : k <= month /\ Started(k)
         /\ \A k \in Months : Started(k) /\ RequireOpen(k) => k \in DOMAIN Materialised(plan)
<1> DEFINE D == DOMAIN plan \cup {k \in Months : Started(k) /\ RequireOpen(k)}
<1>1. Materialised(plan) = [m \in D |-> IF m \in DOMAIN plan THEN plan[m] ELSE Instance(m)]
  BY DEF Materialised
<1>2. /\ DOMAIN plan \subseteq Months /\ (\A k \in DOMAIN plan : plan[k] \in Instances)
      /\ \A k \in DOMAIN plan : k <= month /\ Started(k)
  BY DEF FactsType, PlanType, IsTable
<1>3. \A m \in Months : Instance(m) \in Instances
  BY InstanceType DEF FactsType, PlanType
<1>4. /\ D \subseteq Months /\ DOMAIN plan \subseteq D
      /\ \A k \in D \ DOMAIN plan : k \in Months /\ RequireOpen(k) /\ Started(k)
      /\ \A k \in Months : Started(k) /\ RequireOpen(k) => k \in D
  BY <1>2
<1>5. \A k \in D : k <= month /\ Started(k)
  BY <1>2, <1>4 DEF RequireOpen
<1> HIDE DEF D
<1> QED BY <1>1, <1>2, <1>3, <1>4, <1>5 DEF IsTable

\* What the calendar needs of a step that closes nothing.
LEMMA CalendarStays ==
  ASSUME FactsType, UNCHANGED <<month, start, frozen>>,
         DOMAIN plan \subseteq DOMAIN plan',
         ops' = ops \/ (ops < MaxOps /\ ops' = ops + 1)
  PROVE  CalendarType'
BY DEF FactsType, CalendarType, Closed, Started, ConstantsAssumption

LEMMA KnownGrows ==
  ASSUME start' = start, categories \subseteq categories'
  PROVE  Known \subseteq Known'
BY DEF Known

\* What the entries and the corrections need of a step that leaves them alone.
LEMMA EntriesStay ==
  ASSUME FactsType, UNCHANGED <<month, start, txns, receipts>>,
         categories \subseteq categories', DOMAIN plan \subseteq DOMAIN plan'
  PROVE  EntriesType'
<1>1. Known \subseteq Known'
  BY KnownGrows
<1> QED BY <1>1 DEF FactsType, EntriesType

LEMMA CorrectionsStay ==
  ASSUME FactsType, UNCHANGED <<start, corrections>>, categories \subseteq categories',
         adjusted' \in [Months -> Int]
  PROVE  CorrectionsType'
<1>1. Known \subseteq Known'
  BY KnownGrows
<1> QED BY <1>1 DEF FactsType, CorrectionsType

\* The plan brought up to date, with everything it is computed from unchanged.
LEMMA PlanStays ==
  ASSUME FactsType, UNCHANGED <<month, start, categories, periods, settings>>,
         IsTable(plan', Instances),
         \A k \in DOMAIN plan' : k \in DOMAIN plan \/ k \in DOMAIN Materialised(plan)
  PROVE  PlanType'
<1>1. \A k \in DOMAIN plan' : k <= month /\ Started(k)
  BY MaterialisedType
<1> QED BY <1>1 DEF FactsType, PlanType, Started

LEMMA ReadTypes ==
  ASSUME FactsType, plan' = Materialised(plan),
         UNCHANGED <<month, start, facts>>
  PROVE  PlanType' /\ EntriesType' /\ CorrectionsType' /\ DOMAIN plan \subseteq DOMAIN plan'
<1>1. IsTable(plan', Instances) /\ DOMAIN plan \subseteq DOMAIN plan'
  BY MaterialisedType
<1>2. UNCHANGED <<categories, periods, settings, txns, receipts, adjusted, corrections>>
  BY DEF facts
<1>3. PlanType'
  BY <1>1, <1>2, PlanStays
<1>4. EntriesType'
  BY <1>1, <1>2, EntriesStay
<1>5. CorrectionsType'
  BY <1>2, CorrectionsStay DEF FactsType, CorrectionsType
<1> QED BY <1>1, <1>3, <1>4, <1>5

\* A valid request gives an entry, between buckets that exist.
LEMMA EntryType ==
  ASSUME FactsType, NEW r \in Requests, NEW m \in Months, Valid(r)
  PROVE  Entry(r, m) \in Entries /\ {Entry(r, m).from, Entry(r, m).to} \subseteq Known \cup {External}
<1>1. /\ r.kind \in Kinds /\ r.from \in Buckets \cup {External} /\ r.to \in Buckets \cup {External}
      /\ r.amount \in Nat /\ r.currency \in Currencies
  BY DEF ConstantsAssumption
<1>2. Eur(r, m) \in Nat
  BY <1>1, EurType
<1>3. {r.from, Into(r)} \subseteq Known \cup {External}
  BY <1>1 DEF Valid, Into, Kinds
<1>4. Into(r) \in Buckets \cup {External}
  BY <1>3, KnownBuckets
<1> QED BY <1>1, <1>2, <1>3, <1>4 DEF Entry, Entries

\* The receipt of an accepted request names months of the plan.
LEMMA ReceiptType ==
  ASSUME FactsType, start # {}, NEW t \in TxnIds, NEW r \in Requests, NEW m \in Months, RequireOpen(m),
         ReceiptAllowed(t, r, m), r.kind = "income", ~ReceiptKept(t, r)
  PROVE  /\ Chosen(r) \in Treatments
         /\ Chosen(r) = "salary" =>
              \A k \in Target(r, m) : k \in DOMAIN Materialised(plan) /\ k <= m
<1>1. r.treatment \subseteq {"salary", "unexpected", "refund"} /\ r.expected \subseteq Months
  BY DEF ConstantsAssumption
<1>2. Chosen(r) \in Treatments
  BY <1>1 DEF Chosen, Treatments
<1>3. ASSUME Chosen(r) = "salary", NEW k \in Target(r, m)
      PROVE  k \in DOMAIN Materialised(plan) /\ k <= m
  <2>1. k \in Months /\ k <= m /\ Started(k)
    BY <1>1, <1>3 DEF ReceiptAllowed, Target
  <2>2. CASE k \in Closed
    BY <2>1, <2>2, MaterialisedType DEF FactsType, CalendarType
  <2>3. CASE k \notin Closed
    <3>1. RequireOpen(k)
      BY <2>1, <2>3 DEF RequireOpen, FirstMonth, Months, FactsType, CalendarType
    <3> QED BY <2>1, <3>1, MaterialisedType
  <2> QED BY <2>1, <2>2, <2>3
<1> QED BY <1>2, <1>3

\* An entry is new, or stays in its month.
Booked(t, m) ==
  IF t \in DOMAIN txns THEN txns[t].month = m ELSE t \notin DOMAIN receipts

LEMMA BookTypes ==
  ASSUME FactsType, NEW t \in TxnIds, NEW r \in Requests, NEW m \in Months, Book(t, r, m), Booked(t, m)
  PROVE  FactsType' /\ DOMAIN plan \subseteq DOMAIN plan'
<1>1. /\ RequireOpen(m) /\ Valid(r) /\ ReceiptAllowed(t, r, m) /\ ops < MaxOps /\ ops' = ops + 1
      /\ txns' = [u \in DOMAIN txns \cup {t} |-> IF u = t THEN Entry(r, m) ELSE txns[u]]
      /\ receipts' = WithReceipt(t, r, m) /\ plan' = Materialised(plan)
      /\ UNCHANGED <<month, start, categories, periods, settings, adjusted, corrections, frozen>>
  BY DEF Book
<1>2. IsTable(plan', Instances) /\ DOMAIN plan \subseteq DOMAIN plan'
  BY <1>1, MaterialisedType
<1>3. CalendarType'
  BY <1>1, <1>2, CalendarStays
<1>4. PlanType'
  BY <1>1, <1>2, PlanStays
<1>5. CorrectionsType'
  BY <1>1, CorrectionsStay DEF FactsType, CorrectionsType
<1>6. EntriesType'
  <2>1. Known' = Known
    BY <1>1 DEF Known
  <2>2. DOMAIN txns' = DOMAIN txns \cup {t} /\ txns'[t] = Entry(r, m)
        /\ \A u \in DOMAIN txns : u # t => txns'[u] = txns[u]
    BY <1>1
  <2>3. m <= month
    BY <1>1 DEF RequireOpen
  <2>4. Entry(r, m).month = m
    BY DEF Entry
  <2>5. \A u \in DOMAIN txns' :
          /\ txns'[u] \in Entries /\ txns'[u].month <= month'
          /\ {txns'[u].from, txns'[u].to} \subseteq Known' \cup {External}
    BY <1>1, <2>1, <2>2, <2>3, <2>4, EntryType DEF FactsType, EntriesType
  <2> DEFINE receipt == [treatment |-> Chosen(r),
                         expected |-> IF Chosen(r) = "salary" THEN Target(r, m) ELSE {}]
             Rows == [treatment : Treatments, expected : SUBSET DOMAIN plan']
  <2>6. \A u \in DOMAIN receipts : receipts[u] \in Rows
    BY <1>2 DEF FactsType, EntriesType
  <2>7. start # {} /\ r.kind = "income" /\ ~ReceiptKept(t, r) =>
          receipt \in Rows /\ \A k \in receipt.expected : k <= m
    BY <1>1, ReceiptType
  <2>8. \A u \in DOMAIN receipts' : \/ u \in DOMAIN receipts /\ receipts'[u] = receipts[u]
                                    \/ /\ u = t /\ receipts'[u] = receipt
                                       /\ start # {} /\ r.kind = "income" /\ ~ReceiptKept(t, r)
    BY <1>1 DEF WithReceipt, Restrict
  <2>9. DOMAIN receipts' \subseteq TxnIds /\ (start' = {} => DOMAIN receipts' = {})
    BY <1>1, <2>8 DEF FactsType, EntriesType
  <2>10. \A u \in DOMAIN receipts' : receipts'[u] \in Rows
    <3> HIDE DEF receipt, Rows
    <3> QED BY <2>6, <2>7, <2>8
  <2>11. ASSUME NEW u \in DOMAIN receipts' \cap DOMAIN txns', NEW k \in receipts'[u].expected
         PROVE  k <= txns'[u].month
    <3>1. u = t => txns'[u].month = m
      BY <2>2, <2>4
    <3>2. u = t /\ u \in DOMAIN receipts => u \in DOMAIN txns /\ txns[u].month = m
      BY DEF Booked
    <3>3. \A j \in DOMAIN receipts \cap DOMAIN txns : \A i \in receipts[j].expected : i <= txns[j].month
      BY DEF FactsType, EntriesType
    <3> HIDE DEF receipt, Rows
    <3>4. CASE u = t /\ receipts'[u] = receipt /\ start # {} /\ r.kind = "income" /\ ~ReceiptKept(t, r)
      BY <2>7, <2>11, <3>1, <3>4
    <3>5. CASE u \in DOMAIN receipts /\ receipts'[u] = receipts[u]
      BY <2>2, <2>11, <3>1, <3>2, <3>3, <3>5
    <3> QED BY <2>8, <3>4, <3>5
  <2>12. DOMAIN txns' \subseteq TxnIds
    BY <2>2 DEF FactsType, EntriesType
  <2> QED BY <2>5, <2>9, <2>10, <2>11, <2>12 DEF EntriesType
<1> QED BY <1>2, <1>3, <1>4, <1>5, <1>6 DEF FactsType

LEMMA DeleteTypes ==
  ASSUME FactsType, NEW t \in TxnIds, Delete(t)
  PROVE  FactsType' /\ DOMAIN plan \subseteq DOMAIN plan'
<1>1. /\ ops < MaxOps /\ ops' = ops + 1
      /\ txns' = Restrict(txns, DOMAIN txns \ {t}) /\ plan' = Materialised(plan)
      /\ UNCHANGED <<month, start, categories, periods, settings, receipts, adjusted, corrections, frozen>>
  BY DEF Delete
<1>2. IsTable(plan', Instances) /\ DOMAIN plan \subseteq DOMAIN plan'
  BY <1>1, MaterialisedType
<1>3. CalendarType'
  BY <1>1, <1>2, CalendarStays
<1>4. PlanType'
  BY <1>1, <1>2, PlanStays
<1>5. CorrectionsType'
  BY <1>1, CorrectionsStay DEF FactsType, CorrectionsType
<1>6. EntriesType'
  <2>1. Known' = Known
    BY <1>1 DEF Known
  <2>2. DOMAIN txns' \subseteq DOMAIN txns /\ \A u \in DOMAIN txns' : txns'[u] = txns[u]
    BY <1>1 DEF Restrict
  <2>3. /\ DOMAIN txns \subseteq TxnIds
        /\ \A u \in DOMAIN txns :
             txns[u] \in Entries /\ txns[u].month <= month /\ {txns[u].from, txns[u].to} \subseteq Known \cup {External}
        /\ DOMAIN receipts \subseteq TxnIds
        /\ \A u \in DOMAIN receipts : receipts[u] \in [treatment : Treatments, expected : SUBSET DOMAIN plan]
        /\ \A u \in DOMAIN receipts \cap DOMAIN txns : \A k \in receipts[u].expected : k <= txns[u].month
        /\ start = {} => DOMAIN receipts = {}
    BY DEF FactsType, EntriesType
  <2>4. \A u \in DOMAIN receipts' : receipts'[u] \in [treatment : Treatments, expected : SUBSET DOMAIN plan']
    BY <1>1, <1>2, <2>3
  <2>5. \A u \in DOMAIN receipts' \cap DOMAIN txns' : \A k \in receipts'[u].expected : k <= txns'[u].month
    BY <1>1, <2>2, <2>3
  <2>6. \A u \in DOMAIN txns' :
          txns'[u] \in Entries /\ txns'[u].month <= month' /\ {txns'[u].from, txns'[u].to} \subseteq Known' \cup {External}
    <3> SUFFICES ASSUME NEW u \in DOMAIN txns'
                 PROVE  /\ txns'[u] \in Entries /\ txns'[u].month <= month'
                        /\ {txns'[u].from, txns'[u].to} \subseteq Known' \cup {External}
      OBVIOUS
    <3>1. u \in DOMAIN txns /\ txns'[u] = txns[u] /\ month' = month
      BY <1>1, <2>2
    <3> QED BY <2>1, <2>3, <3>1
  <2> QED BY <1>1, <2>2, <2>3, <2>4, <2>5, <2>6 DEF EntriesType
<1> QED BY <1>2, <1>3, <1>4, <1>5, <1>6 DEF FactsType

LEMMA ReconcileTypes ==
  ASSUME FactsType, NEW m \in Months, NEW delta \in Observations, Reconcile(m, delta)
  PROVE  FactsType'
<1>1. /\ ops < MaxOps /\ ops' = ops + 1 /\ adjusted' = [adjusted EXCEPT ![m] = @ + delta]
      /\ UNCHANGED <<month, start, categories, periods, settings, plan, txns, receipts, corrections, frozen>>
  BY DEF Reconcile
<1>2. CalendarType'
  BY <1>1, CalendarStays
<1>3. PlanType'
  BY <1>1, PlanStays DEF FactsType, PlanType
<1>4. EntriesType'
  BY <1>1, EntriesStay
<1>5. CorrectionsType'
  <2>1. adjusted' \in [Months -> Int]
    BY <1>1 DEF FactsType, CorrectionsType, ConstantsAssumption
  <2> QED BY <1>1, <2>1, CorrectionsStay
<1> QED BY <1>2, <1>3, <1>4, <1>5 DEF FactsType



LEMMA SaveBudgetTypes ==
  ASSUME FactsType, NEW c \in Categories, NEW m \in Months, NEW amount \in Allocations,
         SaveBudget(c, m, amount)
  PROVE  FactsType' /\ DOMAIN plan \subseteq DOMAIN plan'
<1>1. /\ ops < MaxOps /\ ops' = ops + 1 /\ plan' = Materialised(plan)
      /\ periods' = [periods EXCEPT ![c] = [k \in DOMAIN @ \cup {m} |-> IF k = m THEN amount ELSE @[k]]]
      /\ UNCHANGED <<month, start, categories, settings, txns, receipts, adjusted, corrections, frozen>>
  BY DEF SaveBudget
<1>2. /\ IsTable(plan', Instances) /\ DOMAIN plan \subseteq DOMAIN plan'
      /\ \A k \in DOMAIN plan' : k <= month /\ Started(k)
  BY <1>1, MaterialisedType
<1>3. CalendarType'
  BY <1>1, <1>2, CalendarStays
<1>4. PlanType'
  <2> DEFINE row == [k \in DOMAIN periods[c] \cup {m} |-> IF k = m THEN amount ELSE periods[c][k]]
  <2>1. DOMAIN periods = Categories /\ \A d \in Categories :
          IsTable(periods[d], Nat) /\ (d \in categories => FirstMonth \in DOMAIN periods[d])
    BY DEF FactsType, PlanType
  <2>2. IsTable(row, Nat) /\ DOMAIN periods[c] \subseteq DOMAIN row
    <3>1. amount \in Nat
      BY DEF ConstantsAssumption
    <3>2. IsTable(periods[c], Nat)
      BY <2>1
    <3> QED BY <3>1, <3>2 DEF IsTable
  <2>3. DOMAIN periods' = Categories /\ periods'[c] = row /\ \A d \in Categories \ {c} : periods'[d] = periods[d]
    BY <1>1, <2>1
  <2> HIDE DEF row
  <2>4. \A d \in Categories :
          IsTable(periods'[d], Nat) /\ (d \in categories => FirstMonth \in DOMAIN periods'[d])
    BY <2>1, <2>2, <2>3
  <2> QED BY <1>1, <1>2, <2>3, <2>4 DEF FactsType, PlanType, Started
<1>5. EntriesType' /\ CorrectionsType'
  BY <1>1, <1>2, EntriesStay, CorrectionsStay DEF FactsType, CorrectionsType
<1> QED BY <1>2, <1>3, <1>4, <1>5 DEF FactsType

LEMMA CancelBudgetTypes ==
  ASSUME FactsType, NEW c \in Categories, NEW m \in Months, CancelBudget(c, m)
  PROVE  FactsType'
<1>1. /\ ops < MaxOps /\ ops' = ops + 1 /\ month < m
      /\ periods' = [periods EXCEPT ![c] = Restrict(@, DOMAIN @ \ {m})]
      /\ UNCHANGED <<month, start, categories, settings, plan, txns, receipts, adjusted, corrections, frozen>>
  BY DEF CancelBudget
<1>2. CalendarType'
  BY <1>1, CalendarStays
<1>3. PlanType'
  <2> DEFINE row == Restrict(periods[c], DOMAIN periods[c] \ {m})
  <2>1. DOMAIN periods = Categories /\ \A d \in Categories :
          IsTable(periods[d], Nat) /\ (d \in categories => FirstMonth \in DOMAIN periods[d])
    BY DEF FactsType, PlanType
  <2>2. IsTable(row, Nat)
    BY <2>1 DEF IsTable, Restrict
  <2>3. FirstMonth # m
    BY <1>1 DEF FirstMonth, FactsType, CalendarType, Months
  <2>4. FirstMonth \in DOMAIN periods[c] => FirstMonth \in DOMAIN row
    BY <2>3 DEF Restrict
  <2>5. DOMAIN periods' = Categories /\ periods'[c] = row /\ \A d \in Categories \ {c} : periods'[d] = periods[d]
    BY <1>1, <2>1
  <2> HIDE DEF row
  <2>6. \A d \in Categories :
          IsTable(periods'[d], Nat) /\ (d \in categories => FirstMonth \in DOMAIN periods'[d])
    BY <2>1, <2>2, <2>4, <2>5
  <2> QED BY <1>1, <2>5, <2>6 DEF FactsType, PlanType, Started
<1>4. EntriesType' /\ CorrectionsType'
  BY <1>1, EntriesStay, CorrectionsStay DEF FactsType, CorrectionsType
<1> QED BY <1>2, <1>3, <1>4 DEF FactsType

LEMMA CreateCategoryTypes ==
  ASSUME FactsType, NEW c \in Categories, NEW amount \in Allocations, CreateCategory(c, amount)
  PROVE  FactsType' /\ DOMAIN plan \subseteq DOMAIN plan'
<1>1. /\ ops < MaxOps /\ ops' = ops + 1 /\ plan' = Materialised(plan)
      /\ categories' = categories \cup {c}
      /\ periods' = [periods EXCEPT ![c] = [m \in {FirstMonth, month} |-> IF m = month THEN amount ELSE 0]]
      /\ UNCHANGED <<month, start, settings, txns, receipts, adjusted, corrections, frozen>>
  BY DEF CreateCategory
<1>2. /\ IsTable(plan', Instances) /\ DOMAIN plan \subseteq DOMAIN plan'
      /\ \A k \in DOMAIN plan' : k <= month /\ Started(k)
  BY <1>1, MaterialisedType
<1>3. CalendarType'
  BY <1>1, <1>2, CalendarStays
<1>4. PlanType'
  <2> DEFINE row == [m \in {FirstMonth, month} |-> IF m = month THEN amount ELSE 0]
  <2>1. categories \subseteq Categories /\ DOMAIN periods = Categories /\ \A d \in Categories :
          IsTable(periods[d], Nat) /\ (d \in categories => FirstMonth \in DOMAIN periods[d])
    BY DEF FactsType, PlanType
  <2>2. IsTable(row, Nat) /\ FirstMonth \in DOMAIN row
    <3>1. {FirstMonth, month} \subseteq Months /\ amount \in Nat
      BY DEF ConstantsAssumption, FactsType, CalendarType, Months, FirstMonth
    <3> QED BY <3>1 DEF IsTable
  <2>3. DOMAIN periods' = Categories /\ periods'[c] = row /\ \A d \in Categories \ {c} : periods'[d] = periods[d]
    BY <1>1, <2>1
  <2> HIDE DEF row
  <2>4. \A d \in Categories :
          IsTable(periods'[d], Nat) /\ (d \in categories' => FirstMonth \in DOMAIN periods'[d])
    BY <1>1, <2>1, <2>2, <2>3
  <2> QED BY <1>1, <1>2, <2>1, <2>3, <2>4 DEF FactsType, PlanType, Started
<1>5. EntriesType' /\ CorrectionsType'
  BY <1>1, <1>2, EntriesStay, CorrectionsStay DEF FactsType, CorrectionsType
<1> QED BY <1>2, <1>3, <1>4, <1>5 DEF FactsType

LEMMA SaveIncomeTypes ==
  ASSUME FactsType, NEW m \in Months, NEW money \in Plans, SaveIncome(m, money)
  PROVE  FactsType' /\ DOMAIN plan \subseteq DOMAIN plan'
<1>1. /\ ops < MaxOps /\ ops' = ops + 1
      /\ settings' = [k \in DOMAIN settings \cup {m} |-> IF k = m THEN money ELSE settings[k]]
      /\ plan' = [k \in DOMAIN Materialised(plan) |->
                    IF k \in DOMAIN plan THEN Repriced(m)[k] ELSE Instance(k)']
      /\ UNCHANGED <<month, start, categories, periods, txns, receipts, adjusted, corrections, frozen>>
  BY DEF SaveIncome
<1>2. /\ DOMAIN plan \subseteq DOMAIN plan' /\ DOMAIN plan' \subseteq Months
      /\ \A k \in DOMAIN plan' : k <= month /\ Started(k)
  BY <1>1, MaterialisedType DEF IsTable
<1>3. IsTable(settings, Money)'
  <2>1. money \in Money /\ IsTable(settings, Money)
    BY DEF ConstantsAssumption, FactsType, PlanType
  <2>2. IsTable(settings', Money)
    BY <1>1, <2>1 DEF IsTable
  <2> QED BY <2>2 DEF IsTable
<1>4. \A k \in Months : Instance(k)' \in Instances
  BY <1>3, NextInstanceType DEF Months, Instances
<1>5. IsTable(plan', Instances)
  <2>1. \A k \in DOMAIN plan : plan[k] \in Instances /\ k \in Months
    BY DEF FactsType, PlanType, IsTable
  <2>2. \A k \in DOMAIN plan : Repriced(m)[k] = plan[k] \/ Repriced(m)[k] = Instance(k)'
    BY DEF Repriced
  <2>3. \A k \in DOMAIN plan' : plan'[k] \in Instances
    BY <1>1, <1>2, <1>4, <2>1, <2>2
  <2> QED BY <1>1, <1>2, <2>3 DEF IsTable
<1>6. CalendarType'
  BY <1>1, <1>2, CalendarStays
<1>7. PlanType'
  BY <1>1, <1>2, <1>3, <1>5 DEF FactsType, PlanType, Started, IsTable
<1>8. EntriesType' /\ CorrectionsType'
  BY <1>1, <1>2, EntriesStay, CorrectionsStay DEF FactsType, CorrectionsType
<1> QED BY <1>2, <1>6, <1>7, <1>8 DEF FactsType

LEMMA CompleteTypes ==
  ASSUME FactsType, NEW k \in Months, Complete(k)
  PROVE  FactsType' /\ DOMAIN plan \subseteq DOMAIN plan'
<1> DEFINE synced == Materialised(plan)
<1>1. /\ ops < MaxOps /\ ops' = ops + 1 /\ k \in DOMAIN synced
      /\ plan' = [synced EXCEPT ![k].completed = {month}, ![k].shortfall = Remainder(k, synced[k], month)]
      /\ UNCHANGED <<month, start, categories, periods, settings, txns, receipts, adjusted, corrections, frozen>>
  BY DEF Complete, facts
<1>2. /\ IsTable(synced, Instances) /\ DOMAIN plan \subseteq DOMAIN synced
      /\ synced[k] \in Instances /\ \A j \in DOMAIN synced : j <= month /\ Started(j)
  BY <1>1, MaterialisedType DEF IsTable
<1>3. Remainder(k, synced[k], month) \in Nat /\ {month} \in SUBSET Months
  BY <1>2, RemainderType DEF FactsType, CalendarType
<1>4. /\ plan' = [j \in DOMAIN synced |-> plan'[j]]
      /\ \A j \in DOMAIN synced : plan'[j] =
           IF j = k THEN [synced[k] EXCEPT !.completed = {month}, !.shortfall = Remainder(k, synced[k], month)]
           ELSE synced[j]
  <2> HIDE DEF synced
  <2> QED BY <1>1, <1>2 DEF IsTable
<1>5. [synced[k] EXCEPT !.completed = {month}, !.shortfall = Remainder(k, synced[k], month)] \in Instances
  BY <1>2, <1>3 DEF Instances
<1>6. IsTable(plan', Instances) /\ DOMAIN plan' = DOMAIN synced
  <2> HIDE DEF synced
  <2> QED BY <1>2, <1>4, <1>5 DEF IsTable
<1>7. CalendarType'
  BY <1>1, <1>2, <1>6, CalendarStays
<1>8. PlanType'
  BY <1>1, <1>6, PlanStays
<1>9. EntriesType' /\ CorrectionsType'
  BY <1>1, <1>2, <1>6, EntriesStay, CorrectionsStay DEF FactsType, CorrectionsType
<1> QED BY <1>2, <1>6, <1>7, <1>8, <1>9 DEF FactsType

LEMMA CorrectTypes ==
  ASSUME FactsType, NEW original, NEW deltas \in Corrections, Correct(original, deltas)
  PROVE  FactsType' /\ DOMAIN plan \subseteq DOMAIN plan'
<1>1. /\ ops < MaxOps /\ ops' = ops + 1 /\ DOMAIN deltas \subseteq Known /\ plan' = Materialised(plan)
      /\ corrections' = [corrections EXCEPT ![month] =
                           [c \in Buckets |-> @[c] + (IF c \in DOMAIN deltas THEN deltas[c] ELSE 0)]]
      /\ UNCHANGED <<month, start, categories, periods, settings, txns, receipts, adjusted, frozen>>
  BY DEF Correct
<1>2. IsTable(plan', Instances) /\ DOMAIN plan \subseteq DOMAIN plan'
  BY <1>1, MaterialisedType
<1>3. CalendarType'
  BY <1>1, <1>2, CalendarStays
<1>4. PlanType'
  BY <1>1, <1>2, PlanStays
<1>5. EntriesType'
  BY <1>1, <1>2, EntriesStay
<1>6. CorrectionsType'
  <2> DEFINE row == [c \in Buckets |-> corrections[month][c] + (IF c \in DOMAIN deltas THEN deltas[c] ELSE 0)]
  <2>1. month \in Months /\ corrections \in [Months -> [Buckets -> Int]]
        /\ \A m \in Months : \A b \in Buckets \ Known : corrections[m][b] = 0
    BY DEF FactsType, CalendarType, CorrectionsType
  <2>2. \A c \in DOMAIN deltas : deltas[c] \in Int
    BY DEF ConstantsAssumption
  <2>3. row \in [Buckets -> Int] /\ \A b \in Buckets \ Known : row[b] = 0
    BY <1>1, <2>1, <2>2
  <2>4. corrections' = [corrections EXCEPT ![month] = row]
    BY <1>1
  <2>5. corrections' \in [Months -> [Buckets -> Int]]
    <3> HIDE DEF row
    <3> QED BY <2>1, <2>3, <2>4
  <2>6. \A m \in Months : \A b \in Buckets \ Known : corrections'[m][b] = 0
    <3> HIDE DEF row
    <3> QED BY <2>1, <2>3, <2>4
  <2>7. Known' = Known /\ adjusted' \in [Months -> Int]
    BY <1>1 DEF Known, FactsType, CorrectionsType
  <2> QED BY <2>5, <2>6, <2>7 DEF CorrectionsType
<1> QED BY <1>2, <1>3, <1>4, <1>5, <1>6 DEF FactsType

LEMMA CloseTypes ==
  ASSUME FactsType, NEW m \in Months, Close(m)
  PROVE  FactsType' /\ DOMAIN plan \subseteq DOMAIN plan'
<1>1. /\ m < month /\ m \notin Closed /\ InOrder(m) /\ plan' = Materialised(plan)
      /\ DOMAIN frozen' = DOMAIN frozen \cup {m}
      /\ UNCHANGED <<month, start, facts, ops>>
  BY DEF Close
<1>2. PlanType' /\ EntriesType' /\ CorrectionsType' /\ DOMAIN plan \subseteq DOMAIN plan'
  BY <1>1, ReadTypes
<1>3. CalendarType'
  <2>1. Closed' = Closed \cup {m} /\ \A k \in Closed : 1..k \subseteq Closed
    BY <1>1 DEF Closed, FactsType, CalendarType
  <2>2. 1..m \subseteq Closed'
    <3>1. \A k \in 1..(m - 1) : k \in Closed
      BY <1>1 DEF InOrder, FirstMonth
    <3>2. \A k \in 1..m : k = m \/ k \in 1..(m - 1)
      BY DEF Months
    <3> QED BY <2>1, <3>1, <3>2
  <2>3. Closed' \subseteq 1..(month' - 1)
    <3>1. Closed \subseteq 1..(month - 1) /\ month \in Nat
      BY DEF FactsType, CalendarType, Months
    <3>2. m \in 1..(month - 1)
      BY <1>1, <3>1 DEF Months
    <3> QED BY <1>1, <2>1, <3>1, <3>2
  <2>4. Started(m) => m \in DOMAIN plan'
    <3>1. RequireOpen(m)
      BY <1>1 DEF RequireOpen, FirstMonth, Months, FactsType, CalendarType
    <3> QED BY <1>1, <3>1, MaterialisedType
  <2>5. \A k \in Closed' : Started(k)' => k \in DOMAIN plan'
    BY <1>1, <1>2, <2>1, <2>4 DEF Started, FactsType, CalendarType
  <2>6. \A k \in Closed' : 1..k \subseteq Closed'
    BY <2>1, <2>2
  <2> QED BY <1>1, <2>3, <2>5, <2>6 DEF CalendarType, FactsType
<1> QED BY <1>2, <1>3 DEF FactsType

\* Before the activation there is no plan.
LEMMA NothingPlanned ==
  ASSUME FactsType, LedgerType, start = {}
  PROVE  DOMAIN plan = {} /\ \A m \in Months : DOMAIN ledger[m] = {}
BY DEF FactsType, PlanType, LedgerType, Started

LEMMA ActivateTypes ==
  ASSUME FactsType, LedgerType, Activate
  PROVE  FactsType' /\ DOMAIN plan \subseteq DOMAIN plan'
<1>1. /\ start = {} /\ start' = {month}
      /\ UNCHANGED <<month, categories, periods, settings, txns, adjusted, corrections, frozen, ops>>
      /\ receipts' = [t \in {u \in DOMAIN txns : txns[u].kind = "income"} |->
                        [treatment |-> "legacy",
                         expected |-> IF txns[t].month = month THEN {month} ELSE {}]]
      /\ plan' = [m \in {month} |-> Instance(m)]
  BY DEF Activate
<1>2. DOMAIN plan = {} /\ month \in Months
  BY <1>1, NothingPlanned DEF FactsType, CalendarType
<1>3. Instance(month) \in Instances
  BY <1>2, InstanceType DEF FactsType, PlanType
<1>4. CalendarType'
  <2>1. Closed' = Closed /\ Closed \subseteq 1..(month - 1)
    BY <1>1 DEF Closed, FactsType, CalendarType
  <2>2. \A m \in Closed : ~Started(m)'
    BY <1>1, <1>2, <2>1 DEF Started, Months
  <2>3. start' \subseteq Months /\ \A s \in start' : start' = {s} /\ s <= month'
    BY <1>1, <1>2 DEF Months
  <2>4. \A m \in Closed' : 1..m \subseteq Closed'
    BY <2>1 DEF FactsType, CalendarType
  <2> QED BY <1>1, <1>2, <2>1, <2>2, <2>3, <2>4 DEF CalendarType, FactsType
<1>5. PlanType'
  <2>1. IsTable(plan', Instances) /\ \A k \in DOMAIN plan' : k <= month' /\ Started(k)'
    BY <1>1, <1>2, <1>3 DEF IsTable, Started, Months
  <2> QED BY <1>1, <2>1 DEF PlanType, FactsType, IsTable
<1>6. EntriesType'
  <2>1. Known \subseteq Known'
    BY <1>1 DEF Known
  <2>2. \A t \in DOMAIN txns' :
          txns'[t] \in Entries /\ txns'[t].month <= month' /\ {txns'[t].from, txns'[t].to} \subseteq Known' \cup {External}
    BY <1>1, <2>1 DEF FactsType, EntriesType
  <2>3. DOMAIN receipts' \subseteq DOMAIN txns /\ DOMAIN plan' = {month} /\ month <= month
    BY <1>1, <1>2 DEF Months
  <2>4. \A t \in DOMAIN receipts' :
          /\ receipts'[t] \in [treatment : Treatments, expected : SUBSET DOMAIN plan']
          /\ \A k \in receipts'[t].expected : k <= txns'[t].month
    BY <1>1, <1>2, <2>3 DEF Treatments, Months
  <2>5. DOMAIN txns' \subseteq TxnIds
    BY <1>1 DEF FactsType, EntriesType
  <2> QED BY <1>1, <2>2, <2>3, <2>4, <2>5 DEF EntriesType
<1>7. CorrectionsType'
  <2>1. Known \subseteq Known'
    BY <1>1 DEF Known
  <2> QED BY <1>1, <2>1 DEF FactsType, CorrectionsType
<1> QED BY <1>2, <1>4, <1>5, <1>6, <1>7 DEF FactsType

LEMMA TickTypes ==
  ASSUME FactsType, Tick
  PROVE  FactsType'
<1>1. /\ month < LastMonth /\ month' = month + 1
      /\ UNCHANGED <<start, plan, categories, periods, settings, txns, receipts, adjusted, corrections, frozen, ops>>
  BY DEF Tick, facts
<1>2. month \in Nat /\ month' \in Months /\ month <= month' /\ \A k \in Int : k <= month => k <= month'
  BY <1>1 DEF FactsType, CalendarType, Months, ConstantsAssumption
<1>3. CalendarType'
  <2>1. Closed' = Closed /\ Closed \subseteq 1..(month - 1) /\ 1..(month - 1) \subseteq 1..(month' - 1)
    BY <1>1, <1>2 DEF Closed, FactsType, CalendarType
  <2>2. \A s \in start : start = {s} /\ s <= month'
    BY <1>2 DEF FactsType, CalendarType, Months
  <2> QED BY <1>1, <1>2, <2>1, <2>2 DEF FactsType, CalendarType, Started
<1>4. PlanType'
  <2>1. \A k \in DOMAIN plan : k <= month'
    BY <1>2 DEF FactsType, PlanType, IsTable, Months
  <2> QED BY <1>1, <2>1 DEF FactsType, PlanType, IsTable, Started
<1>5. EntriesType'
  <2>1. Known' = Known
    BY <1>1 DEF Known
  <2>2. \A t \in DOMAIN txns : txns[t].month <= month'
    BY <1>2 DEF FactsType, EntriesType, Entries, Months
  <2> QED BY <1>1, <2>1, <2>2 DEF FactsType, EntriesType
<1>6. CorrectionsType'
  BY <1>1 DEF FactsType, CorrectionsType, Known
<1> QED BY <1>3, <1>4, <1>5, <1>6 DEF FactsType

----------------------------------------------------------------------------
(* The movements keep their types. *)

LEMMA WantedTypeNext ==
  FactsType' => (\A m \in DOMAIN plan : \A key \in MovementKeys(m) : Wanted(m, key) \in Int)'
BY WantedType, PTL

\* A step that leaves the movements alone.
LEMMA LedgerStays ==
  ASSUME LedgerType, ledger' = ledger, Known \subseteq Known', DOMAIN plan \subseteq DOMAIN plan',
         start \subseteq start'
  PROVE  LedgerType'
<1>1. \A m \in Months : MovementKeys(m) \subseteq MovementKeys(m)'
  BY DEF MovementKeys
<1>2. \A m \in Months : Started(m) => Started(m)'
  BY DEF Started
<1> QED BY <1>1, <1>2 DEF LedgerType

\* A step that brings them up to date.
LEMMA SyncTypes ==
  ASSUME FactsType', LedgerType, Sync, Known \subseteq Known', DOMAIN plan \subseteq DOMAIN plan',
         start \subseteq start',
         \A m \in Months : RequireOpen(m) /\ Started(m)' => m \in DOMAIN plan'
  PROVE  LedgerType'
<1>1. \A m \in Months : MovementKeys(m) \subseteq MovementKeys(m)'
  BY DEF MovementKeys
<1>2. \A m \in Months : Started(m) => Started(m)'
  BY DEF Started
<1>3. \A m \in Months : Sources(m)' \subseteq MovementKeys(m)'
  <2>1. DOMAIN txns' \subseteq TxnIds
    BY DEF FactsType, EntriesType
  <2> QED BY <2>1 DEF Sources, MovementKeys, EntriesOf
<1>4. \A m \in DOMAIN plan' : \A key \in MovementKeys(m)' : Wanted(m, key)' \in Int
  BY WantedTypeNext
<1>5. DOMAIN ledger' = Months
  BY DEF Sync
<1>6. ASSUME NEW m \in Months, RequireOpen(m), Started(m)'
      PROVE  /\ DOMAIN ledger'[m] \subseteq MovementKeys(m)' /\ m \in DOMAIN plan'
             /\ \A key \in DOMAIN ledger'[m] : ledger'[m][key] \in Int
  <2>1. ledger'[m] = Appended(m)
    BY <1>6 DEF Sync
  <2>2. DOMAIN ledger'[m] \subseteq MovementKeys(m)'
    BY <1>1, <1>3, <2>1 DEF Appended, LedgerType
  <2>3. \A key \in DOMAIN ledger'[m] : ledger'[m][key] = Wanted(m, key)'
    BY <2>1 DEF Appended
  <2> QED BY <1>4, <1>6, <2>2, <2>3
<1>7. ASSUME NEW m \in Months, ~(RequireOpen(m) /\ Started(m)')
      PROVE  /\ DOMAIN ledger'[m] \subseteq MovementKeys(m)'
             /\ DOMAIN ledger'[m] # {} => Started(m)' /\ m \in DOMAIN plan'
             /\ \A key \in DOMAIN ledger'[m] : ledger'[m][key] \in Int
  <2>1. ledger'[m] = ledger[m]
    BY <1>7 DEF Sync
  <2> QED BY <1>1, <1>2, <2>1 DEF LedgerType
<1> QED BY <1>5, <1>6, <1>7 DEF LedgerType

----------------------------------------------------------------------------
(* The opening of the plan and the snapshots keep their types. *)

LEMMA OpeningTypes ==
  ASSUME TypeInv, FactsType', Activate
  PROVE  opening' \in Int /\ drift' \in Int
<1>1. /\ opening' = Cash(month) - SumFunctionOnSet(Shown[month], categories) + Outstanding(month, month)'
                      - (Eur(Expected(month), month) - TotalAllocation(month))
      /\ drift' = Drift(month)' /\ month' = month /\ DOMAIN plan' = {month}
  BY DEF Activate
<1>2. month \in Months /\ month \in 0..month /\ Cash(month) \in Int /\ TotalAllocation(month) \in Int
  <2>1. month \in Months
    BY DEF TypeInv, FactsType, CalendarType
  <2> QED BY <2>1, CashType, TotalAllocationType DEF TypeInv, Months
<1>3. Eur(Expected(month), month) \in Nat
  <2>1. Expected(month).amount \in Nat
    BY <1>2, ExpectedType DEF Money, TypeInv, FactsType, PlanType
  <2> QED BY <1>2, <2>1, EurType
<1>4. SumFunctionOnSet(Shown[month], categories) \in Int
  <2>1. HasAmounts(frozen)
    BY DEF TypeInv, IsSnapshots, HasAmounts
  <2>2. \A c \in Known : Shown[month][c] \in Int
    BY <1>2, <2>1, HistoryType DEF TypeInv, Shown
  <2>3. categories \subseteq Known /\ IsFiniteSet(categories)
    BY FiniteTables DEF Known, TypeInv
  <2> QED BY <2>2, <2>3, SumType
<1>5. Outstanding(month, month)' \in Int
  <2>1. (\A k \in DOMAIN plan : \A through : Outstanding(k, through) \in Nat)'
    <3>1. FactsType' => (\A k \in DOMAIN plan : \A through : Outstanding(k, through) \in Nat)'
      BY OutstandingType, PTL
    <3> QED BY <3>1
  <2>2. month' \in DOMAIN plan'
    BY <1>1
  <2> QED BY <2>1, <2>2
<1>6. Drift(month)' \in Int
  <2>1. (\A m \in Months : Drift(m) \in Int)'
    <3>1. FactsType' => (\A m \in Months : Drift(m) \in Int)'
      BY DriftType, PTL
    <3> QED BY <3>1
  <2>2. month' \in Months'
    BY <1>1, <1>2 DEF Months
  <2> QED BY <2>1, <2>2
<1> QED BY <1>1, <1>2, <1>3, <1>4, <1>5, <1>6

LEMMA SnapshotsStay ==
  ASSUME IsSnapshots(frozen), frozen' = frozen, Known \subseteq Known',
         \A m \in Closed : Started(m)' <=> Started(m)
  PROVE  IsSnapshots(frozen)'
BY DEF IsSnapshots, Closed

LEMMA HistoryTypeNext ==
  (FactsType /\ LedgerType /\ opening \in Int)' =>
    (\A s : HasAmounts(s) => \A m \in 0..month, c \in Known : History(s)[m][c] \in Int)'
BY HistoryType, PTL

\* The statement that a close freezes.
LEMMA StatementFrozen ==
  ASSUME FactsType, FactsType', LedgerType', opening' \in Int, IsSnapshots(frozen), NEW m \in Months, Close(m)
  PROVE  /\ DOMAIN frozen' = DOMAIN frozen \cup {m}
         /\ \A k \in DOMAIN frozen : frozen'[k] = frozen[k]
         /\ DOMAIN frozen'[m].balances = Listed(m)
         /\ \A c \in Listed(m) : frozen'[m].balances[c] \in Int
         /\ frozen'[m].coverage # {} <=> Started(m)
<1>1. PICK closes \in {frozen} :
        frozen' = [k \in DOMAIN closes \cup {m} |->
                     IF k = m THEN Statement(History(closes), m)' ELSE closes[k]]
  BY DEF Close
<1>2. m < month /\ m \notin DOMAIN frozen /\ UNCHANGED <<month, start, categories>>
  BY DEF Close, Closed, facts
<1>3. Listed(m)' = Listed(m) /\ Started(m)' = Started(m) /\ Listed(m) \subseteq Known'
  BY <1>2 DEF Listed, Known, Started
<1>4. frozen'[m] = Statement(History(closes), m)' /\ closes = frozen
  BY <1>1
<1>5. /\ frozen'[m].balances = [c \in Listed(m) |-> History(closes)'[m][c]]
      /\ frozen'[m].coverage # {} <=> Started(m)
  BY <1>3, <1>4 DEF Statement, Restrict
<1>6. \A c \in Known' : History(closes)'[m][c] \in Int
  <2>1. HasAmounts(closes)'
    BY <1>4 DEF HasAmounts, IsSnapshots
  <2>2. m \in (0..month)'
    BY <1>2 DEF Months, FactsType, CalendarType
  <2> QED BY <2>1, <2>2, HistoryTypeNext
<1> QED BY <1>1, <1>2, <1>3, <1>5, <1>6

LEMMA SnapshotAdded ==
  ASSUME FactsType, FactsType', LedgerType', opening' \in Int, IsSnapshots(frozen), NEW m \in Months, Close(m)
  PROVE  IsSnapshots(frozen)'
<1>1. /\ DOMAIN frozen' = DOMAIN frozen \cup {m}
      /\ \A k \in DOMAIN frozen : frozen'[k] = frozen[k]
      /\ DOMAIN frozen'[m].balances = Listed(m)
      /\ \A c \in Listed(m) : frozen'[m].balances[c] \in Int
      /\ frozen'[m].coverage # {} <=> Started(m)
  BY StatementFrozen
<1>2. m \notin DOMAIN frozen /\ UNCHANGED <<start, categories>>
  BY DEF Close, Closed, facts
<1>3. Known' = Known /\ \A k : Started(k)' = Started(k)
  BY <1>2 DEF Known, Started
<1>4. Listed(m) \subseteq Known /\ (Unallocated \in Listed(m) <=> Started(m))
  BY DEF Listed, Known, Started
<1>5. ASSUME NEW k \in DOMAIN frozen
      PROVE  ~(m <= k) /\ DOMAIN frozen[k].balances \subseteq Listed(m)
  <2>1. 1..k \subseteq DOMAIN frozen /\ k \in Int /\ DOMAIN frozen \subseteq 1..(month - 1)
    BY DEF FactsType, CalendarType, Closed, Months
  <2>2. ~(m <= k)
    BY <1>2, <2>1 DEF Months
  <2>3. Started(k) => Started(m)
    BY <2>1, <2>2 DEF Started, Months, FactsType, CalendarType
  <2>4. DOMAIN frozen[k].balances \subseteq Known /\ (Unallocated \in DOMAIN frozen[k].balances => Started(k))
    BY DEF IsSnapshots
  <2> QED BY <2>2, <2>3, <2>4 DEF Listed
<1>6. ASSUME NEW k \in DOMAIN frozen', NEW j \in DOMAIN frozen', j <= k
      PROVE  DOMAIN frozen'[j].balances \subseteq DOMAIN frozen'[k].balances
  <2>1. CASE k = m
    BY <1>1, <1>5, <2>1
  <2>2. CASE k # m
    BY <1>1, <1>5, <1>6, <2>2 DEF IsSnapshots
  <2> QED BY <2>1, <2>2
<1>7. ASSUME NEW k \in DOMAIN frozen'
      PROVE  /\ DOMAIN frozen'[k].balances \subseteq Known'
             /\ \A c \in DOMAIN frozen'[k].balances : frozen'[k].balances[c] \in Int
             /\ Unallocated \in DOMAIN frozen'[k].balances <=> Started(k)'
             /\ frozen'[k].coverage # {} <=> Started(k)'
  <2>1. CASE k = m
    BY <1>1, <1>3, <1>4, <2>1
  <2>2. CASE k # m
    BY <1>1, <1>3, <2>2 DEF IsSnapshots
  <2> QED BY <2>1, <2>2
<1> QED BY <1>6, <1>7 DEF IsSnapshots

----------------------------------------------------------------------------
(* Type correctness. *)

LEMMA TypeInit == Init => TypeInv
<1> SUFFICES ASSUME Init PROVE TypeInv
  OBVIOUS
<1>1. CalendarType
  BY DEF Init, CalendarType, Months, FirstMonth, Empty, Closed, ConstantsAssumption
<1>2. PlanType
  <2>1. 1 \in Months /\ FirstMonth = 1
    BY DEF Months, FirstMonth, ConstantsAssumption
  <2>2. DOMAIN periods = Categories /\ categories = DOMAIN Imported
    BY DEF Init
  <2>3. ASSUME NEW c \in Categories
        PROVE  IsTable(periods[c], Nat) /\ (c \in categories => FirstMonth \in DOMAIN periods[c])
    <3>1. periods[c] = IF c \in DOMAIN Imported THEN [m \in {FirstMonth} |-> Imported[c]] ELSE Empty
      BY DEF Init
    <3>2. c \in DOMAIN Imported => Imported[c] \in Nat
      BY DEF ConstantsAssumption
    <3>3. CASE c \in DOMAIN Imported
      <4>1. periods[c] = [m \in {FirstMonth} |-> Imported[c]]
        BY <3>1, <3>3
      <4> QED BY <2>1, <3>2, <3>3, <4>1 DEF IsTable
    <3>4. CASE c \notin DOMAIN Imported
      BY <2>2, <3>1, <3>4 DEF IsTable, Empty
    <3> QED BY <3>3, <3>4
  <2>4. IsTable(settings, Money) /\ IsTable(plan, Instances) /\ DOMAIN plan = {}
    BY DEF Init, IsTable, Empty
  <2> QED BY <2>2, <2>3, <2>4 DEF PlanType, ConstantsAssumption
<1>3. EntriesType /\ CorrectionsType
  BY DEF Init, EntriesType, CorrectionsType, Empty
<1>4. LedgerType
  BY DEF Init, LedgerType, Empty
<1>5. IsSnapshots(frozen) /\ opening \in Int /\ drift \in Int
  BY DEF Init, IsSnapshots, Empty
<1> QED BY <1>1, <1>2, <1>3, <1>4, <1>5 DEF TypeInv, FactsType

\* A step that leaves the calendar, the snapshots and the opening alone.
LEMMA UpdateTypes ==
  ASSUME TypeInv, FactsType', Sync, UNCHANGED <<month, start, opening, drift, frozen>>,
         categories \subseteq categories', DOMAIN plan \subseteq DOMAIN plan',
         DOMAIN Materialised(plan) \subseteq DOMAIN plan'
  PROVE  TypeInv'
<1>1. Known \subseteq Known'
  BY KnownGrows
<1>2. \A m : Started(m)' = Started(m)
  BY DEF Started
<1>3. LedgerType'
  <2>1. \A m \in Months : RequireOpen(m) /\ Started(m)' => m \in DOMAIN plan'
    BY <1>2, MaterialisedType DEF TypeInv
  <2> QED BY <1>1, <2>1, SyncTypes DEF TypeInv
<1>4. IsSnapshots(frozen)'
  BY <1>1, <1>2, SnapshotsStay DEF TypeInv
<1> QED BY <1>3, <1>4 DEF TypeInv

\* A step that leaves the movements alone as well.
LEMMA QuietTypes ==
  ASSUME TypeInv, FactsType', UNCHANGED <<start, opening, drift, categories, plan, ledger, frozen>>
  PROVE  TypeInv'
<1>1. Known' = Known /\ \A m : Started(m)' = Started(m)
  BY DEF Known, Started
<1>2. LedgerType'
  BY <1>1, LedgerStays DEF TypeInv
<1>3. IsSnapshots(frozen)'
  BY <1>1, SnapshotsStay DEF TypeInv
<1> QED BY <1>2, <1>3 DEF TypeInv

LEMMA BookedTypes ==
  ASSUME TypeInv, NEW t \in TxnIds, NEW r \in Requests, NEW m \in Months, Book(t, r, m), Booked(t, m)
  PROVE  TypeInv'
<1>1. FactsType' /\ DOMAIN plan \subseteq DOMAIN plan'
  BY BookTypes DEF TypeInv
<1>2. Sync /\ plan' = Materialised(plan) /\ UNCHANGED <<month, start, opening, drift, categories, frozen>>
  BY DEF Book
<1> QED BY <1>1, <1>2, UpdateTypes

LEMMA TypeStep == TypeInv /\ [Next]_vars => TypeInv'
<1> SUFFICES ASSUME TypeInv, [Next]_vars PROVE TypeInv'
  OBVIOUS
<1>0. FactsType /\ LedgerType /\ IsSnapshots(frozen) /\ opening \in Int /\ drift \in Int
  BY DEF TypeInv
<1>1. ASSUME NEW t \in TxnIds, NEW r \in Requests, NEW m \in Months, Create(t, r, m) PROVE TypeInv'
  <2>1. Book(t, r, m) /\ Booked(t, m)
    BY <1>1 DEF Create, Booked
  <2> QED BY <2>1, BookedTypes
<1>2. ASSUME NEW t \in TxnIds, NEW r \in Requests, Edit(t, r) PROVE TypeInv'
  <2>1. txns[t].month \in Months /\ Book(t, r, txns[t].month) /\ Booked(t, txns[t].month)
    BY <1>0, <1>2 DEF Edit, Booked, FactsType, EntriesType, Entries
  <2> QED BY <2>1, BookedTypes
<1>3. ASSUME NEW t \in TxnIds, Delete(t) PROVE TypeInv'
  <2>1. FactsType' /\ DOMAIN plan \subseteq DOMAIN plan'
    BY <1>0, <1>3, DeleteTypes
  <2>2. Sync /\ plan' = Materialised(plan) /\ UNCHANGED <<month, start, opening, drift, categories, frozen>>
    BY <1>3 DEF Delete
  <2> QED BY <2>1, <2>2, UpdateTypes
<1>4. ASSUME NEW m \in Months, NEW delta \in Observations, Reconcile(m, delta) PROVE TypeInv'
  <2>1. FactsType'
    BY <1>0, <1>4, ReconcileTypes
  <2> QED BY <1>4, <2>1, QuietTypes DEF Reconcile
<1>5. CASE Activate
  <2>1. FactsType' /\ DOMAIN plan \subseteq DOMAIN plan'
    BY <1>0, <1>5, ActivateTypes
  <2>2. /\ Sync /\ start = {} /\ start' = {month} /\ UNCHANGED <<month, categories, frozen>>
        /\ DOMAIN plan' = {month}
    BY <1>5 DEF Activate
  <2>3. LedgerType'
    <3>1. \A m \in Months : RequireOpen(m) /\ Started(m)' => m \in DOMAIN plan'
      BY <1>0, <2>2 DEF RequireOpen, Started, Months, FactsType, CalendarType
    <3>2. Known \subseteq Known'
      BY <2>2 DEF Known
    <3> QED BY <1>0, <2>1, <2>2, <3>1, <3>2, SyncTypes
  <2>4. opening' \in Int /\ drift' \in Int
    BY <1>5, <2>1, OpeningTypes
  <2>5. IsSnapshots(frozen)'
    <3>1. \A m \in Closed : Started(m)' <=> Started(m)
      BY <1>0, <2>2 DEF Started, FactsType, CalendarType, Months
    <3>2. Known \subseteq Known'
      BY <2>2 DEF Known
    <3> QED BY <1>0, <2>2, <3>1, <3>2, SnapshotsStay
  <2> QED BY <2>1, <2>3, <2>4, <2>5 DEF TypeInv
<1>6. CASE Read
  <2>1. Sync /\ plan' = Materialised(plan) /\ UNCHANGED <<month, start, opening, drift, facts, frozen, ops>>
    BY <1>6 DEF Read
  <2>2. PlanType' /\ EntriesType' /\ CorrectionsType' /\ DOMAIN plan \subseteq DOMAIN plan'
    BY <1>0, <2>1, ReadTypes
  <2>3. CalendarType'
    BY <1>0, <2>1, <2>2, CalendarStays
  <2> QED BY <2>1, <2>2, <2>3, UpdateTypes DEF FactsType, facts
<1>7. ASSUME NEW c \in Categories, NEW m \in Months, NEW amount \in Allocations, SaveBudget(c, m, amount)
      PROVE  TypeInv'
  <2>1. FactsType' /\ DOMAIN plan \subseteq DOMAIN plan'
    BY <1>0, <1>7, SaveBudgetTypes
  <2>2. Sync /\ plan' = Materialised(plan) /\ UNCHANGED <<month, start, opening, drift, categories, frozen>>
    BY <1>7 DEF SaveBudget
  <2> QED BY <2>1, <2>2, UpdateTypes
<1>8. ASSUME NEW c \in Categories, NEW m \in Months, CancelBudget(c, m) PROVE TypeInv'
  <2>1. FactsType'
    BY <1>0, <1>8, CancelBudgetTypes
  <2> QED BY <1>8, <2>1, QuietTypes DEF CancelBudget
<1>9. ASSUME NEW c \in Categories, NEW amount \in Allocations, CreateCategory(c, amount) PROVE TypeInv'
  <2>1. FactsType' /\ DOMAIN plan \subseteq DOMAIN plan'
    BY <1>0, <1>9, CreateCategoryTypes
  <2>2. /\ Sync /\ plan' = Materialised(plan) /\ categories \subseteq categories'
        /\ UNCHANGED <<month, start, opening, drift, frozen>>
    BY <1>9 DEF CreateCategory
  <2> QED BY <2>1, <2>2, UpdateTypes
<1>10. ASSUME NEW m \in Months, NEW money \in Plans, SaveIncome(m, money) PROVE TypeInv'
  <2>1. FactsType' /\ DOMAIN plan \subseteq DOMAIN plan'
    BY <1>0, <1>10, SaveIncomeTypes
  <2>2. Sync /\ DOMAIN plan' = DOMAIN Materialised(plan) /\ UNCHANGED <<month, start, opening, drift, categories, frozen>>
    BY <1>10 DEF SaveIncome
  <2> QED BY <2>1, <2>2, UpdateTypes
<1>11. ASSUME NEW k \in Months, Complete(k) PROVE TypeInv'
  <2>1. FactsType' /\ DOMAIN plan \subseteq DOMAIN plan'
    BY <1>0, <1>11, CompleteTypes
  <2>2. Sync /\ DOMAIN plan' = DOMAIN Materialised(plan) /\ UNCHANGED <<month, start, opening, drift, categories, frozen>>
    BY <1>11 DEF Complete, facts
  <2> QED BY <2>1, <2>2, UpdateTypes
<1>12. ASSUME NEW original, NEW deltas \in Corrections, Correct(original, deltas) PROVE TypeInv'
  <2>1. FactsType' /\ DOMAIN plan \subseteq DOMAIN plan'
    BY <1>0, <1>12, CorrectTypes
  <2>2. Sync /\ plan' = Materialised(plan) /\ UNCHANGED <<month, start, opening, drift, categories, frozen>>
    BY <1>12 DEF Correct
  <2> QED BY <2>1, <2>2, UpdateTypes
<1>13. ASSUME NEW m \in Months, Close(m) PROVE TypeInv'
  <2>1. FactsType' /\ DOMAIN plan \subseteq DOMAIN plan'
    BY <1>0, <1>13, CloseTypes
  <2>2. /\ Sync /\ plan' = Materialised(plan)
        /\ UNCHANGED <<month, start, opening, drift, categories>>
    BY <1>13 DEF Close, facts
  <2>3. Known' = Known /\ \A k : Started(k)' = Started(k)
    BY <2>2 DEF Known, Started
  <2>4. LedgerType'
    <3>1. \A k \in Months : RequireOpen(k) /\ Started(k)' => k \in DOMAIN plan'
      BY <1>0, <2>2, <2>3, MaterialisedType
    <3> QED BY <1>0, <2>1, <2>2, <2>3, <3>1, SyncTypes
  <2>5. IsSnapshots(frozen)'
    BY <1>0, <1>13, <2>1, <2>2, <2>4, SnapshotAdded
  <2> QED BY <1>0, <2>1, <2>2, <2>4, <2>5 DEF TypeInv
<1>14. CASE Tick
  <2>1. FactsType'
    BY <1>0, <1>14, TickTypes
  <2> QED BY <1>14, <2>1, QuietTypes DEF Tick, facts
<1>15. CASE UNCHANGED vars
  <2>1. UNCHANGED <<month, start, opening, drift, plan, categories, periods, settings, txns, receipts,
                    adjusted, corrections, ledger, frozen, ops>>
    BY <1>15 DEF vars, facts
  <2>2. FactsType'
    BY <1>0, <2>1 DEF FactsType, CalendarType, PlanType, EntriesType, CorrectionsType, Closed, Started, Known, IsTable
  <2> QED BY <2>1, <2>2, QuietTypes
<1> QED BY <1>1, <1>2, <1>3, <1>4, <1>5, <1>6, <1>7, <1>8, <1>9, <1>10, <1>11, <1>12, <1>13, <1>14, <1>15
        DEF Next

\* Every table keeps its shape, the movements name sources that exist, and the snapshots
\* list every category of the earlier ones, whatever is accepted.
THEOREM TypesKept == Spec => []TypeInv
<1>1. Init => TypeInv
  BY TypeInit
<1>2. TypeInv /\ [Next]_vars => TypeInv'
  BY TypeStep
<1> QED BY <1>1, <1>2, PTL DEF Spec

\* The budget plan's tables keep their types.
THEOREM TypeCorrect == Spec => []TypeOK
<1>1. TypeInv => TypeOK
  <2> SUFFICES ASSUME TypeInv PROVE TypeOK
    OBVIOUS
  <2>1. Cardinality(start) <= 1
    <3>1. CASE start = {}
      BY <3>1, FS_EmptySet
    <3>2. CASE start # {}
      <4>1. PICK s \in start : start = {s}
        BY <3>2 DEF TypeInv, FactsType, CalendarType
      <4>2. Cardinality({s}) = 1
        BY FS_Singleton
      <4> QED BY <4>1, <4>2
    <3> QED BY <3>1, <3>2
  <2>2. DOMAIN plan \subseteq 1..month
    BY DEF TypeInv, FactsType, PlanType, IsTable, CalendarType, Months
  <2>3. \A m \in Months : \A key \in DOMAIN ledger[m] : key[1] \in Buckets /\ ledger[m][key] \in Int
    <3>1. \A m \in Months : \A key \in MovementKeys(m) : key[1] \in Buckets
      BY MovementParts DEF TypeInv
    <3> QED BY <3>1 DEF TypeInv, LedgerType
  <2>4. \A c \in categories :
           /\ DOMAIN periods[c] \subseteq Months /\ FirstMonth \in DOMAIN periods[c]
           /\ \A m \in DOMAIN periods[c] : periods[c][m] \in Nat
    BY DEF TypeInv, FactsType, PlanType, IsTable
  <2>5. \A t \in DOMAIN receipts : receipts[t].expected \subseteq DOMAIN plan
    BY DEF TypeInv, FactsType, EntriesType
  <2>6. /\ DOMAIN settings \subseteq Months /\ categories \in SUBSET Categories /\ ops \in 0..MaxOps
        /\ \A k \in DOMAIN plan : plan[k] \in Instances
    BY DEF TypeInv, FactsType, PlanType, IsTable, CalendarType
  <2>7. /\ \A t \in DOMAIN txns : txns[t] \in Entries
        /\ DOMAIN receipts \subseteq TxnIds
        /\ adjusted \in [Months -> Int] /\ corrections \in [Months -> [Buckets -> Int]]
    BY DEF TypeInv, FactsType, EntriesType, CorrectionsType
  <2>8. month \in Months /\ start \in SUBSET Months /\ Closed \subseteq 1..(month - 1)
    BY DEF TypeInv, FactsType, CalendarType
  <2> QED BY <2>1, <2>2, <2>3, <2>4, <2>5, <2>6, <2>7, <2>8 DEF TypeOK, TypeInv, Instances, Entries
<1> QED BY <1>1, TypesKept, PTL

----------------------------------------------------------------------------
(* What a step leaves alone of the months that are closed. *)

Past == {t \in DOMAIN txns : txns[t].month \in Closed}

KeptMonths ==
  /\ Closed \subseteq Closed' /\ categories \subseteq categories'
  /\ \A m \in Closed : frozen'[m] = frozen[m] /\ ledger'[m] = ledger[m] /\ (Started(m)' <=> Started(m))
  /\ start # {} => start' = start /\ opening' = opening

KeptEntries ==
  /\ \A t : t \in DOMAIN txns' /\ txns'[t].month \in Closed => t \in Past
  /\ \A t \in Past : t \in DOMAIN txns' /\ txns'[t] = txns[t]
  /\ start # {} =>
       \A t \in Past : /\ t \in DOMAIN receipts' <=> t \in DOMAIN receipts
                       /\ t \in DOMAIN receipts => receipts'[t] = receipts[t]

KeptAmounts ==
  \A m \in Closed :
    /\ corrections'[m] = corrections[m] /\ adjusted'[m] = adjusted[m] /\ Expected(m)' = Expected(m)
    /\ \A c \in categories : Allocation(c, m)' = Allocation(c, m)
    /\ \A c \in categories' \ categories : Allocation(c, m)' = 0

SameTerms(k) ==
  plan'[k].amount = plan[k].amount /\ plan'[k].currency = plan[k].currency /\ plan'[k].eur = plan[k].eur

KeptPlan ==
  /\ DOMAIN plan \subseteq DOMAIN plan'
  /\ \A k \in DOMAIN plan :
       /\ k \in Closed => SameTerms(k)
       /\ \/ plan'[k].completed = plan[k].completed /\ plan'[k].shortfall = plan[k].shortfall
          \/ plan[k].completed = {} /\ plan'[k].completed \subseteq {month}
  /\ \A k \in DOMAIN plan' \ DOMAIN plan : k \notin Closed /\ plan'[k].completed \subseteq {month}

Kept == KeptMonths /\ KeptEntries /\ KeptAmounts /\ KeptPlan

\* The receipts of closed months are the same.
LEMMA PastMatched ==
  ASSUME Kept, start # {}, NEW k, NEW n, NEW u \in Past
  PROVE  u \in MatchedReceipts(k, n)' <=> u \in MatchedReceipts(k, n)
<1>1. /\ u \in DOMAIN txns /\ u \in DOMAIN txns' /\ txns'[u] = txns[u]
      /\ u \in DOMAIN receipts' <=> u \in DOMAIN receipts
      /\ u \in DOMAIN receipts => receipts'[u] = receipts[u]
  BY DEF Kept, KeptEntries, Past
<1> QED BY <1>1 DEF MatchedReceipts

LEMMA PastNative ==
  ASSUME Kept, NEW k, SameTerms(k), NEW t \in Past
  PROVE  Native(t, plan[k])' = Native(t, plan[k])
BY DEF Kept, KeptEntries, SameTerms, Native

LEMMA ReceivedKept ==
  ASSUME Kept, NEW k, SameTerms(k), NEW R \in SUBSET Past
  PROVE  ReceivedAmount(k, R)' = ReceivedAmount(k, R)
<1>1. \A t \in R : Native(t, plan[k])' = Native(t, plan[k])
  BY PastNative
<1>2. [t \in R |-> Native(t, plan[k])]' = [t \in R |-> Native(t, plan[k])]
  BY <1>1
<1> QED BY <1>2 DEF ReceivedAmount

LEMMA FundingKept ==
  ASSUME NEW k, SameTerms(k), NEW n
  PROVE  FundingPortion(n, plan[k])' = FundingPortion(n, plan[k])
BY DEF SameTerms, FundingPortion

\* So are the months before them.
LEMMA PastMonths ==
  ASSUME TypeInv, NEW m \in Closed
  PROVE  m \in Months /\ m < month /\ \A k \in Months : k <= m => k \in Closed
<1>1. m \in 1..(month - 1) /\ month \in Months /\ 1..m \subseteq Closed
  BY DEF TypeInv, FactsType, CalendarType
<1> QED BY <1>1 DEF Months

LEMMA EarlierKept ==
  ASSUME TypeInv, TypeInv', Kept, start # {}, NEW k, NEW t \in Past
  PROVE  /\ Earlier(t, MatchedReceipts(k, month)) \subseteq Past
         /\ Earlier(t, MatchedReceipts(k, month))' = Earlier(t, MatchedReceipts(k, month))
<1>1. /\ t \in DOMAIN txns /\ txns[t].month \in Closed /\ t \in DOMAIN txns' /\ txns'[t] = txns[t]
  BY DEF Kept, KeptEntries, Past
<1>2. \A i \in Months : i <= txns[t].month => i \in Closed
  BY <1>1, PastMonths
<1>3. /\ \A u \in DOMAIN txns : txns[u].month \in Months /\ txns[u].month <= month
      /\ \A u \in DOMAIN txns' : txns'[u].month \in Months /\ txns'[u].month <= month'
  BY DEF TypeInv, FactsType, EntriesType, Entries
<1>4. txns[t].month \in Months
  BY <1>1, <1>3
<1>5. ASSUME NEW u \in Earlier(t, MatchedReceipts(k, month)) PROVE u \in Past
  <2>1. u \in DOMAIN txns /\ (txns[u].month < txns[t].month \/ txns[u].month = txns[t].month)
    BY <1>5 DEF Earlier, MatchedReceipts
  <2>2. txns[u].month <= txns[t].month /\ txns[u].month \in Months
    BY <1>3, <1>4, <2>1 DEF Months
  <2> QED BY <1>2, <2>1, <2>2 DEF Past
<1>6. ASSUME NEW u \in Earlier(t, MatchedReceipts(k, month))' PROVE u \in Past
  <2>1. u \in DOMAIN txns' /\ (txns'[u].month < txns'[t].month \/ txns'[u].month = txns'[t].month)
    BY <1>6 DEF Earlier, MatchedReceipts
  <2>2. txns'[u].month <= txns[t].month /\ txns'[u].month \in Months
    BY <1>1, <1>3, <1>4, <2>1 DEF Months
  <2>3. txns'[u].month \in Closed
    BY <1>2, <2>2
  <2> QED BY <2>1, <2>3 DEF Kept, KeptEntries
<1>7. ASSUME NEW u \in Past
      PROVE  u \in Earlier(t, MatchedReceipts(k, month))' <=> u \in Earlier(t, MatchedReceipts(k, month))
  <2>1. u \in DOMAIN txns /\ u \in DOMAIN txns' /\ txns'[u] = txns[u]
    BY DEF Kept, KeptEntries, Past
  <2>2. u \in MatchedReceipts(k, month)' <=> u \in MatchedReceipts(k, month)
    <3>1. \A n : u \in MatchedReceipts(k, n)' <=> u \in MatchedReceipts(k, n)
      BY PastMatched
    <3>2. u \in MatchedReceipts(k, month)' <=> u \in MatchedReceipts(k, month')
      BY <3>1 DEF MatchedReceipts
    <3> QED BY <1>3, <2>1, <3>2 DEF MatchedReceipts
  <2> QED BY <1>1, <2>1, <2>2 DEF Earlier
<1> QED BY <1>5, <1>6, <1>7

LEMMA CoveredKept ==
  ASSUME TypeInv, TypeInv', Kept, start # {}, NEW k, SameTerms(k), NEW t \in Past
  PROVE  CoveredBy(k, t)' = CoveredBy(k, t)
<1> DEFINE rows == Earlier(t, MatchedReceipts(k, month))
<1>1. rows' = rows /\ rows \in SUBSET Past /\ rows \cup {t} \in SUBSET Past
  BY EarlierKept
<1>2. \A R \in SUBSET Past : ReceivedAmount(k, R)' = ReceivedAmount(k, R)
  BY ReceivedKept
<1>3. \A n : FundingPortion(n, plan[k])' = FundingPortion(n, plan[k])
  BY FundingKept
<1>4. plan'[k].amount = plan[k].amount
  BY DEF SameTerms
<1>5. CoveredBy(k, t) = FundingPortion(Min({plan[k].amount, ReceivedAmount(k, rows \cup {t})}), plan[k])
                          - FundingPortion(Min({plan[k].amount, ReceivedAmount(k, rows)}), plan[k])
  BY DEF CoveredBy
<1>6. CoveredBy(k, t)' = FundingPortion(Min({plan[k].amount, ReceivedAmount(k, rows \cup {t})}), plan[k])'
                          - FundingPortion(Min({plan[k].amount, ReceivedAmount(k, rows)}), plan[k])'
  BY DEF CoveredBy
<1> HIDE DEF rows
<1> QED BY <1>1, <1>2, <1>3, <1>4, <1>5, <1>6

\* Receipts of a closed month are for closed months.
LEMMA PastTargets ==
  ASSUME TypeInv, NEW k \in DOMAIN plan, NEW m \in Closed, NEW t \in MatchedReceipts(k, month),
         txns[t].month = m
  PROVE  k \in Closed
<1>1. k <= m
  BY DEF TypeInv, FactsType, EntriesType, MatchedReceipts
<1>2. k \in Months
  BY DEF TypeInv, FactsType, PlanType, IsTable
<1> QED BY <1>1, <1>2, PastMonths

\* The income beyond an expectation, of a closed month.
LEMMA ExcessKept ==
  ASSUME TypeInv, TypeInv', Kept, start # {}, NEW k \in DOMAIN plan, NEW m \in Closed
  PROVE  Excess(k, m)' = Excess(k, m)
<1> DEFINE S == {u \in MatchedReceipts(k, month) : txns[u].month = m /\ receipts[u].treatment # "legacy"}
           f == [t \in S |-> txns[t].eur - CoveredBy(k, t)]
<1>1. S \subseteq Past
  BY DEF Past, MatchedReceipts
<1>2. S' \subseteq Past
  BY DEF MatchedReceipts, Kept, KeptEntries
<1>3. m < month /\ m < month' /\ m \in Nat /\ month \in Nat /\ month' \in Nat
  <2>1. m \in 1..(month - 1) /\ month \in Months /\ m \in 1..(month' - 1) /\ month' \in Months
    BY DEF TypeInv, FactsType, CalendarType, Kept, KeptMonths
  <2> QED BY <2>1 DEF Months
<1>4. ASSUME NEW u \in Past PROVE u \in S' <=> u \in S
  <2>1. /\ u \in DOMAIN txns /\ txns'[u] = txns[u]
        /\ u \in DOMAIN receipts' <=> u \in DOMAIN receipts
        /\ u \in DOMAIN receipts => receipts'[u] = receipts[u]
    BY DEF Kept, KeptEntries, Past
  <2>2. \A n : u \in MatchedReceipts(k, n)' <=> u \in MatchedReceipts(k, n)
    BY PastMatched
  <2>3. u \in MatchedReceipts(k, month)' <=> u \in MatchedReceipts(k, month')
    BY <2>2 DEF MatchedReceipts
  <2>4. txns[u].month = m =>
          (u \in MatchedReceipts(k, month') <=> u \in MatchedReceipts(k, month))
    BY <1>3 DEF MatchedReceipts
  <2>5. u \in MatchedReceipts(k, month) => u \in DOMAIN receipts
    BY DEF MatchedReceipts
  <2> QED BY <2>1, <2>3, <2>4, <2>5
<1>5. S' = S
  BY <1>1, <1>2, <1>4
<1>6. ASSUME NEW t \in S PROVE f'[t] = f[t]
  <2>1. k \in Closed
    BY PastTargets
  <2>2. SameTerms(k)
    BY <2>1 DEF Kept, KeptPlan
  <2>3. t \in Past /\ txns'[t] = txns[t]
    BY <1>1 DEF Kept, KeptEntries
  <2>4. CoveredBy(k, t)' = CoveredBy(k, t)
    BY <2>2, <2>3, CoveredKept
  <2> HIDE DEF S
  <2> QED BY <1>5, <2>3, <2>4
<1>7. f' = f
  <2>1. f = [t \in S |-> f[t]] /\ f' = [t \in S' |-> f'[t]]
    OBVIOUS
  <2> HIDE DEF f, S
  <2> QED BY <1>5, <1>6, <2>1
<1>8. Excess(k, m) = SumFunction(f) /\ Excess(k, m)' = SumFunction(f')
  BY DEF Excess
<1> HIDE DEF f
<1> QED BY <1>7, <1>8

\* An expectation that a step adds has no income in a closed month.
LEMMA ExcessNew ==
  ASSUME TypeInv, TypeInv', Kept, start # {}, NEW k \in DOMAIN plan' \ DOMAIN plan, NEW m \in Closed
  PROVE  Excess(k, m)' = 0
<1> DEFINE S == {u \in MatchedReceipts(k, month) : txns[u].month = m /\ receipts[u].treatment # "legacy"}
<1>1. ASSUME NEW t \in S' PROVE FALSE
  <2>1. t \in MatchedReceipts(k, month)' /\ txns'[t].month = m /\ m \in Closed'
    BY DEF Kept, KeptMonths
  <2>2. k <= m
    BY <2>1 DEF TypeInv, FactsType, EntriesType, MatchedReceipts
  <2>3. k \in Months /\ k \notin Closed
    BY DEF TypeInv, FactsType, PlanType, IsTable, Kept, KeptPlan
  <2> QED BY <2>2, <2>3, PastMonths
<1>2. S' = {}
  BY <1>1
<1>3. Excess(k, m)' = SumFunction([t \in S |-> txns[t].eur - CoveredBy(k, t)]')
  BY DEF Excess
<1>4. [t \in S |-> txns[t].eur - CoveredBy(k, t)]' = [t \in {} |-> 0]
  <2> HIDE DEF S
  <2> QED BY <1>2
<1>5. SumFunction([t \in {} |-> 0]) = 0
  BY SumIsOnDomain, SumEmpty
<1> HIDE DEF S
<1> QED BY <1>3, <1>4, <1>5

----------------------------------------------------------------------------
(* What the facts ask of a closed month does not change. *)

LEMMA TotalKept ==
  ASSUME TypeInv, TypeInv', Kept, NEW m \in Closed
  PROVE  TotalAllocation(m)' = TotalAllocation(m)
<1> DEFINE f == [c \in categories |-> Allocation(c, m)]
<1>0. m \in Months
  BY PastMonths
<1>1. IsFiniteSet(categories') /\ categories \subseteq categories'
  BY FS_Subset DEF ConstantsAssumption, TypeInv, FactsType, PlanType, Kept, KeptMonths
<1>2. /\ DOMAIN f = categories /\ DOMAIN f' = categories'
      /\ \A c \in categories : f'[c] = f[c] /\ f[c] \in Int
      /\ \A c \in categories' \ categories : f'[c] = 0
  <2>1. \A c \in categories : Allocation(c, m) \in Int
    BY <1>0, AllocationType DEF TypeInv
  <2> QED BY <1>1, <2>1 DEF Kept, KeptAmounts
<1>3. TotalAllocation(m) = SumFunction(f) /\ TotalAllocation(m)' = SumFunction(f')
  BY DEF TotalAllocation
<1> HIDE DEF f
<1> QED BY <1>1, <1>2, <1>3, SumExtend

\* The entries of a closed month.
LEMMA EntriesKept ==
  ASSUME TypeInv, Kept, NEW m \in Closed
  PROVE  /\ EntriesOf(m)' = EntriesOf(m) /\ EntriesOf(m) \subseteq Past
         /\ \A t \in EntriesOf(m) : txns'[t] = txns[t]
BY DEF EntriesOf, Kept, KeptEntries, Past

LEMMA TreatmentKept ==
  ASSUME TypeInv, Kept, start # {}, NEW t \in Past
  PROVE  Treatment(t)' = Treatment(t)
BY DEF Treatment, Kept, KeptEntries

LEMMA WantedKept ==
  ASSUME TypeInv, TypeInv', Kept, start # {}, NEW m \in Closed, m \in DOMAIN plan, NEW key \in MovementKeys(m)
  PROVE  Wanted(m, key)' = Wanted(m, key)
<1>1. /\ EntriesOf(m)' = EntriesOf(m) /\ EntriesOf(m) \subseteq Past
      /\ \A t \in EntriesOf(m) : txns'[t] = txns[t]
  BY EntriesKept
<1>2. \A t \in EntriesOf(m) : Treatment(t)' = Treatment(t)
  BY <1>1, TreatmentKept
<1>3. \A t \in EntriesOf(m) : (Spends(t)' <=> Spends(t)) /\ (Unplanned(t)' <=> Unplanned(t))
  BY <1>1, <1>2 DEF Spends, Unplanned
<1>4. \A t \in EntriesOf(m) : \A b, amount : Sides(t, b, amount)' = Sides(t, b, amount)
  BY <1>1 DEF Sides
<1>5. CASE key \in {<<Unallocated, "funding", m>>}
  <2>1. key = <<Unallocated, "funding", m>>
    BY <1>5
  <2>2. Wanted(m, key) = plan[m].eur /\ Wanted(m, key)' = plan'[m].eur
    BY <2>1 DEF Wanted
  <2> QED BY <2>2 DEF Kept, KeptPlan, SameTerms
<1>6. CASE key \in {<<c, kind, m>> : c \in Known, kind \in {"allocation", "correction"}}
  <2>1. PICK c \in Known : key = <<c, "allocation", m>> \/ key = <<c, "correction", m>>
    BY <1>6
  <2>2. c = Unallocated \/ c \in categories
    BY DEF Known
  <2>3. CASE key = <<c, "allocation", m>>
    <3>1. /\ Wanted(m, key) = IF c = Unallocated THEN -TotalAllocation(m) ELSE Allocation(c, m)
          /\ Wanted(m, key)' = IF c = Unallocated THEN -TotalAllocation(m)' ELSE Allocation(c, m)'
      BY <2>3 DEF Wanted
    <3>2. TotalAllocation(m)' = TotalAllocation(m)
      BY TotalKept
    <3>3. c \in categories => Allocation(c, m)' = Allocation(c, m)
      BY DEF Kept, KeptAmounts
    <3> QED BY <2>2, <3>1, <3>2, <3>3
  <2>4. CASE key = <<c, "correction", m>>
    <3>1. Wanted(m, key) = -corrections[m][c] /\ Wanted(m, key)' = -corrections'[m][c]
      BY <2>4 DEF Wanted
    <3> QED BY <3>1 DEF Kept, KeptAmounts
  <2> QED BY <2>1, <2>3, <2>4
<1>7. CASE key \in {<<c, kind, t>> : c \in Known, kind \in {"spending", "reallocation"}, t \in TxnIds}
  <2>1. PICK c \in Known, t \in TxnIds : key = <<c, "spending", t>> \/ key = <<c, "reallocation", t>>
    BY <1>7
  <2>2. CASE key = <<c, "spending", t>>
    <3>1. /\ Wanted(m, key) = IF t \in EntriesOf(m) /\ Spends(t) THEN Sides(t, c, txns[t].eur) ELSE 0
          /\ Wanted(m, key)' = IF t \in EntriesOf(m)' /\ Spends(t)' THEN Sides(t, c, txns[t].eur)' ELSE 0
      BY <2>2 DEF Wanted
    <3>2. t \in EntriesOf(m) => Sides(t, c, txns[t].eur)' = Sides(t, c, txns[t].eur)
      BY <1>1 DEF Sides
    <3> QED BY <1>1, <1>3, <3>1, <3>2
  <2>3. CASE key = <<c, "reallocation", t>>
    <3>1. /\ Wanted(m, key) = IF t \in EntriesOf(m) /\ txns[t].kind = "reallocate"
                              THEN Sides(t, c, txns[t].amount) ELSE 0
          /\ Wanted(m, key)' = IF t \in EntriesOf(m)' /\ txns'[t].kind = "reallocate"
                               THEN Sides(t, c, txns[t].amount)' ELSE 0
      BY <2>3 DEF Wanted
    <3>2. t \in EntriesOf(m) => Sides(t, c, txns[t].amount)' = Sides(t, c, txns[t].amount)
      BY <1>1 DEF Sides
    <3> QED BY <1>1, <3>1, <3>2
  <2> QED BY <2>1, <2>2, <2>3
<1>8. CASE key \in {<<Unallocated, "income", t>> : t \in TxnIds}
  <2>1. PICK t \in TxnIds : key = <<Unallocated, "income", t>>
    BY <1>8
  <2>2. /\ Wanted(m, key) = IF t \in EntriesOf(m) /\ Unplanned(t) THEN txns[t].eur ELSE 0
        /\ Wanted(m, key)' = IF t \in EntriesOf(m)' /\ Unplanned(t)' THEN txns'[t].eur ELSE 0
    BY <2>1 DEF Wanted
  <2> QED BY <1>1, <1>3, <2>2
<1>9. CASE key \in {<<Unallocated, kind, k>> : kind \in {"excess", "settlement"}, k \in DOMAIN plan}
  <2>1. PICK k \in DOMAIN plan : key = <<Unallocated, "excess", k>> \/ key = <<Unallocated, "settlement", k>>
    BY <1>9
  <2>2. CASE key = <<Unallocated, "excess", k>>
    <3>1. Wanted(m, key) = Excess(k, m) /\ Wanted(m, key)' = Excess(k, m)'
      BY <2>2 DEF Wanted
    <3> QED BY <3>1, ExcessKept
  <2>3. CASE key = <<Unallocated, "settlement", k>>
    <3>1. /\ Wanted(m, key) = IF plan[k].completed = {m} THEN -plan[k].shortfall ELSE 0
          /\ Wanted(m, key)' = IF plan'[k].completed = {m} THEN -plan'[k].shortfall ELSE 0
      BY <2>3 DEF Wanted
    <3>2. m # month
      BY PastMonths DEF TypeInv, FactsType, CalendarType, Months
    <3>3. \/ plan'[k].completed = plan[k].completed /\ plan'[k].shortfall = plan[k].shortfall
          \/ plan[k].completed = {} /\ plan'[k].completed \subseteq {month}
      BY DEF Kept, KeptPlan
    <3> QED BY <3>1, <3>2, <3>3
  <2> QED BY <2>1, <2>2, <2>3
<1> QED BY <1>5, <1>6, <1>7, <1>8, <1>9 DEF MovementKeys

\* A source that a step adds, a new category or expectation, asks nothing of it.
LEMMA WantedNew ==
  ASSUME TypeInv, TypeInv', Kept, start # {}, NEW m \in Closed, m \in DOMAIN plan,
         NEW key \in Sources(m)', key \notin Sources(m)
  PROVE  Wanted(m, key)' = 0
<1>1. /\ EntriesOf(m)' = EntriesOf(m) /\ EntriesOf(m) \subseteq Past
      /\ \A t \in EntriesOf(m) : txns'[t] = txns[t]
  BY EntriesKept
<1>2. ASSUME NEW c \in Known', c \notin Known PROVE c \in categories' \ categories /\ c # Unallocated
  BY <1>2 DEF Known, Kept, KeptMonths
<1>3. ASSUME NEW c \in Known', c \notin Known, NEW t \in EntriesOf(m), NEW amount
      PROVE  Sides(t, c, amount)' = 0
  <2>1. {txns[t].from, txns[t].to} \subseteq Known \cup {External}
    BY DEF EntriesOf, TypeInv, FactsType, EntriesType
  <2>2. c # External
    <3>1. c \in Buckets
      BY <1>2, <1>3 DEF TypeInv, FactsType, PlanType, Buckets
    <3> QED BY <3>1 DEF ConstantsAssumption
  <2>3. txns'[t].from # c /\ txns'[t].to # c
    BY <1>1, <1>3, <2>1, <2>2
  <2> QED BY <2>3 DEF Sides
<1>4. m \in Months
  BY PastMonths
<1>5. CASE key \in {<<Unallocated, "funding", m>>}
  BY <1>5 DEF Sources
<1>6. CASE key \in {<<c, kind, m>> : c \in Known', kind \in {"allocation", "correction"}}
  <2>1. PICK c \in Known' : key = <<c, "allocation", m>> \/ key = <<c, "correction", m>>
    BY <1>6
  <2>2. c \notin Known
    BY <2>1 DEF Sources
  <2>3. c \in categories' \ categories /\ c # Unallocated
    BY <1>2, <2>2
  <2>4. CASE key = <<c, "allocation", m>>
    <3>1. Wanted(m, key)' = Allocation(c, m)'
      BY <2>3, <2>4 DEF Wanted
    <3> QED BY <2>3, <3>1 DEF Kept, KeptAmounts
  <2>5. CASE key = <<c, "correction", m>>
    <3>1. Wanted(m, key)' = -corrections'[m][c]
      BY <2>5 DEF Wanted
    <3>2. corrections'[m] = corrections[m]
      BY DEF Kept, KeptAmounts
    <3>3. corrections[m][c] = 0
      <4>1. c \in Buckets \ Known
        BY <2>2, <2>3 DEF TypeInv, FactsType, PlanType, Buckets
      <4> QED BY <1>4, <4>1 DEF TypeInv, FactsType, CorrectionsType
    <3>4. corrections'[m][c] = 0
      BY <3>2, <3>3
    <3>5. \A x \in Int : -x = 0 - x
      OBVIOUS
    <3>6. corrections'[m][c] \in Int /\ 0 - corrections'[m][c] = 0
      BY <3>4
    <3>7. -corrections'[m][c] = 0
      BY <3>5, <3>6, Zenon
    <3> QED BY <3>1, <3>7, Zenon
  <2> QED BY <2>1, <2>4, <2>5
<1>7. CASE key \in {<<c, kind, t>> : c \in Known', kind \in {"spending", "reallocation"}, t \in EntriesOf(m)'}
  <2>1. PICK c \in Known', t \in EntriesOf(m) : key = <<c, "spending", t>> \/ key = <<c, "reallocation", t>>
    BY <1>1, <1>7
  <2>2. c \notin Known
    BY <2>1 DEF Sources
  <2>3. CASE key = <<c, "spending", t>>
    <3>1. Wanted(m, key)' = IF t \in EntriesOf(m)' /\ Spends(t)' THEN Sides(t, c, txns[t].eur)' ELSE 0
      BY <2>3 DEF Wanted
    <3>2. Sides(t, c, txns[t].eur)' = 0
      <4>1. \A amount : Sides(t, c, amount)' = 0
        BY <1>3, <2>2
      <4> QED BY <4>1 DEF Sides
    <3> QED BY <3>1, <3>2
  <2>4. CASE key = <<c, "reallocation", t>>
    <3>1. Wanted(m, key)' = IF t \in EntriesOf(m)' /\ txns'[t].kind = "reallocate"
                            THEN Sides(t, c, txns[t].amount)' ELSE 0
      BY <2>4 DEF Wanted
    <3>2. Sides(t, c, txns[t].amount)' = 0
      <4>1. \A amount : Sides(t, c, amount)' = 0
        BY <1>3, <2>2
      <4> QED BY <4>1 DEF Sides
    <3> QED BY <3>1, <3>2
  <2> QED BY <2>1, <2>3, <2>4
<1>8. CASE key \in {<<Unallocated, "income", t>> : t \in EntriesOf(m)'}
  BY <1>1, <1>8 DEF Sources
<1>9. CASE key \in {<<Unallocated, kind, k>> : kind \in {"excess", "settlement"}, k \in DOMAIN plan'}
  <2>1. PICK k \in DOMAIN plan' : key = <<Unallocated, "excess", k>> \/ key = <<Unallocated, "settlement", k>>
    BY <1>9
  <2>2. k \notin DOMAIN plan
    BY <2>1 DEF Sources
  <2>3. CASE key = <<Unallocated, "excess", k>>
    <3>1. Wanted(m, key)' = Excess(k, m)'
      BY <2>3 DEF Wanted
    <3> QED BY <2>2, <3>1, ExcessNew
  <2>4. CASE key = <<Unallocated, "settlement", k>>
    <3>1. Wanted(m, key)' = IF plan'[k].completed = {m} THEN -plan'[k].shortfall ELSE 0
      BY <2>4 DEF Wanted
    <3>2. m # month
      BY PastMonths DEF TypeInv, FactsType, CalendarType, Months
    <3>3. plan'[k].completed \subseteq {month}
      BY <2>2 DEF Kept, KeptPlan
    <3> QED BY <3>1, <3>2, <3>3
  <2> QED BY <2>1, <2>3, <2>4
<1> QED BY <1>5, <1>6, <1>7, <1>8, <1>9 DEF Sources

----------------------------------------------------------------------------
(* Every step leaves the closed months alone. *)

LEMMA SyncKeeps ==
  ASSUME TypeInv, Sync
  PROVE  \A m \in Closed : ledger'[m] = ledger[m]
<1>1. Closed \subseteq Months
  BY PastMonths
<1> QED BY <1>1 DEF Sync, RequireOpen

LEMMA MonthsSame ==
  ASSUME TypeInv, Sync \/ ledger' = ledger, UNCHANGED <<start, opening, frozen>>,
         categories \subseteq categories'
  PROVE  KeptMonths
BY SyncKeeps DEF KeptMonths, Closed, Started

LEMMA EntriesSame ==
  ASSUME UNCHANGED <<txns, receipts>>
  PROVE  KeptEntries
BY DEF KeptEntries, Past

LEMMA AllocationSame ==
  ASSUME NEW c, periods'[c] = periods[c], NEW m
  PROVE  Allocation(c, m)' = Allocation(c, m)
BY DEF Allocation, Applicable

LEMMA ExpectedSame ==
  ASSUME settings' = settings, NEW m
  PROVE  Expected(m)' = Expected(m)
BY DEF Expected, Applicable

LEMMA AmountsSame ==
  ASSUME UNCHANGED <<categories, periods, settings, corrections, adjusted>>
  PROVE  KeptAmounts
BY AllocationSame, ExpectedSame DEF KeptAmounts

\* The instances that the open months get are new.
LEMMA PlanSynced ==
  ASSUME TypeInv
  PROVE  \A k \in DOMAIN Materialised(plan) \ DOMAIN plan :
           k \notin Closed /\ Materialised(plan)[k] = Instance(k) /\ Instance(k).completed = {}
BY MaterialisedType DEF TypeInv, RequireOpen, Instance

LEMMA PlanSame ==
  ASSUME TypeInv, plan' = plan \/ plan' = Materialised(plan)
  PROVE  KeptPlan
<1>1. CASE plan' = plan
  BY <1>1 DEF KeptPlan, SameTerms
<1>2. CASE plan' = Materialised(plan)
  BY <1>2, PlanSynced, MaterialisedType DEF KeptPlan, SameTerms, TypeInv
<1> QED BY <1>1, <1>2

LEMMA BookKeeps ==
  ASSUME TypeInv, NEW t \in TxnIds, NEW r \in Requests, NEW m \in Months, Book(t, r, m), Booked(t, m)
  PROVE  Kept
<1>1. /\ m \notin Closed
      /\ txns' = [u \in DOMAIN txns \cup {t} |-> IF u = t THEN Entry(r, m) ELSE txns[u]]
      /\ receipts' = WithReceipt(t, r, m) /\ plan' = Materialised(plan)
      /\ UNCHANGED <<start, opening, categories, periods, settings, adjusted, corrections, frozen>>
      /\ Sync
  BY DEF Book, RequireOpen
<1>2. KeptEntries
  <2>1. t \notin Past
    BY <1>1 DEF Past, Booked
  <2>2. txns'[t].month = m /\ \A u \in DOMAIN txns' : u # t => u \in DOMAIN txns /\ txns'[u] = txns[u]
    BY <1>1 DEF Entry
  <2>3. \A u : u # t => /\ u \in DOMAIN receipts' <=> u \in DOMAIN receipts
                        /\ u \in DOMAIN receipts => receipts'[u] = receipts[u]
    BY <1>1 DEF WithReceipt, Restrict
  <2>4. \A u \in DOMAIN txns : u \in DOMAIN txns'
    BY <1>1
  <2> QED BY <1>1, <2>1, <2>2, <2>3, <2>4 DEF KeptEntries, Past
<1> QED BY <1>1, <1>2, MonthsSame, AmountsSame, PlanSame DEF Kept

LEMMA DeleteKeeps ==
  ASSUME TypeInv, NEW t \in TxnIds, Delete(t)
  PROVE  Kept
<1>1. /\ txns[t].month \notin Closed /\ txns' = Restrict(txns, DOMAIN txns \ {t}) /\ plan' = Materialised(plan)
      /\ UNCHANGED <<start, opening, categories, periods, settings, receipts, adjusted, corrections, frozen>>
      /\ Sync
  BY DEF Delete, Deletable, RequireOpen
<1>2. KeptEntries
  BY <1>1 DEF KeptEntries, Past, Restrict
<1> QED BY <1>1, <1>2, MonthsSame, AmountsSame, PlanSame DEF Kept

LEMMA ReconcileKeeps ==
  ASSUME TypeInv, NEW m \in Months, NEW delta \in Observations, Reconcile(m, delta)
  PROVE  Kept
<1>1. /\ m \notin Closed /\ adjusted' = [adjusted EXCEPT ![m] = @ + delta]
      /\ UNCHANGED <<start, opening, categories, periods, settings, plan, txns, receipts, corrections,
                     ledger, frozen>>
  BY DEF Reconcile, RequireOpen
<1>2. \A k \in Closed : adjusted'[k] = adjusted[k]
  BY <1>1
<1>3. KeptAmounts
  BY <1>1, <1>2, AllocationSame, ExpectedSame DEF KeptAmounts
<1> QED BY <1>1, <1>3, MonthsSame, EntriesSame, PlanSame DEF Kept

LEMMA ActivateKeeps ==
  ASSUME TypeInv, TypeInv', Activate
  PROVE  Kept
<1>1. /\ start = {} /\ start' = {month} /\ Sync
      /\ UNCHANGED <<month, categories, periods, settings, txns, adjusted, corrections, frozen>>
      /\ plan' = [m \in {month} |-> Instance(m)]
  BY DEF Activate
<1>2. \A m \in Closed : m < month /\ m \in Months /\ month \in Months
  BY PastMonths DEF TypeInv, FactsType, CalendarType
<1>3. KeptMonths
  <2>1. \A m \in Closed : ~Started(m)' /\ ~Started(m)
    BY <1>1, <1>2 DEF Started, Months
  <2> QED BY <1>1, <2>1, SyncKeeps DEF KeptMonths, Closed
<1>4. KeptEntries
  BY <1>1 DEF KeptEntries, Past
<1>5. KeptPlan
  <2>1. DOMAIN plan = {}
    BY <1>1, NothingPlanned DEF TypeInv
  <2>2. month \notin Closed
    BY <1>2 DEF Months
  <2> QED BY <1>1, <2>1, <2>2 DEF KeptPlan, Instance
<1> QED BY <1>1, <1>3, <1>4, <1>5, AmountsSame DEF Kept

\* What applies in a month depends on the rows up to it.
LEMMA ApplicableLocal ==
  ASSUME NEW f, NEW g, NEW m,
         \A k : k \in DOMAIN f /\ k <= m <=> k \in DOMAIN g /\ k <= m,
         \A k \in DOMAIN f : k <= m => g[k] = f[k],
         DOMAIN f \subseteq Months, m \in Months, \E k \in DOMAIN f : k <= m
  PROVE  Applicable(g, m) = Applicable(f, m)
<1> DEFINE F == {k \in DOMAIN f : k <= m}
           G == {k \in DOMAIN g : k <= m}
<1>1. F = G
  OBVIOUS
<1>2. F \subseteq 0..m /\ F # {} /\ m \in Nat
  BY DEF Months
<1>3. Max(F) \in F
  <2> HIDE DEF F
  <2> QED BY <1>2, MaxIn
<1>4. f[Max(F)] = g[Max(F)]
  <2> DEFINE x == Max(F)
  <2>1. x \in DOMAIN f /\ x <= m
    BY <1>3
  <2> HIDE DEF x
  <2>2. f[x] = g[x]
    BY <2>1
  <2> QED BY <2>2 DEF x
<1>5. Applicable(f, m) = f[Max(F)] /\ Applicable(g, m) = g[Max(G)]
  BY DEF Applicable
<1> HIDE DEF F, G
<1> QED BY <1>1, <1>4, <1>5

\* A change of a category's amounts from an open month on.
LEMMA PeriodsKept ==
  ASSUME TypeInv, NEW c \in categories, NEW row, periods' = [periods EXCEPT ![c] = row],
         \A m \in Closed : \A k : /\ k \in DOMAIN periods[c] /\ k <= m <=> k \in DOMAIN row /\ k <= m
                                  /\ k \in DOMAIN row /\ k <= m => row[k] = periods[c][k],
         UNCHANGED <<categories, settings, corrections, adjusted>>
  PROVE  KeptAmounts
<1>1. /\ c \in DOMAIN periods /\ IsTable(periods[c], Nat) /\ FirstMonth \in DOMAIN periods[c]
  BY DEF TypeInv, FactsType, PlanType
<1>2. periods'[c] = row /\ \A d \in categories : d # c => periods'[d] = periods[d]
  BY <1>1
<1>3. ASSUME NEW m \in Closed PROVE Allocation(c, m)' = Allocation(c, m)
  <2>1. m \in Months /\ FirstMonth <= m
    BY PastMonths DEF FirstMonth, Months
  <2>2. Applicable(row, m) = Applicable(periods[c], m)
    <3>1. /\ \A k : k \in DOMAIN periods[c] /\ k <= m <=> k \in DOMAIN row /\ k <= m
          /\ \A k \in DOMAIN periods[c] : k <= m => row[k] = periods[c][k]
          /\ DOMAIN periods[c] \subseteq Months /\ \E k \in DOMAIN periods[c] : k <= m
      BY <1>1, <2>1 DEF IsTable
    <3> QED BY <2>1, <3>1, ApplicableLocal
  <2>3. Allocation(c, m)' = Applicable(periods'[c], m)
    BY DEF Allocation, Applicable
  <2> QED BY <1>2, <2>2, <2>3 DEF Allocation
<1>4. \A m \in Closed : \A d \in categories : Allocation(d, m)' = Allocation(d, m)
  BY <1>2, <1>3, AllocationSame
<1> QED BY <1>4, ExpectedSame DEF KeptAmounts

LEMMA SaveBudgetKeeps ==
  ASSUME TypeInv, NEW c \in Categories, NEW m \in Months, NEW amount \in Allocations, SaveBudget(c, m, amount)
  PROVE  Kept
<1> DEFINE row == [k \in DOMAIN periods[c] \cup {m} |-> IF k = m THEN amount ELSE periods[c][k]]
<1>1. /\ c \in categories /\ plan' = Materialised(plan) /\ periods' = [periods EXCEPT ![c] = row]
      /\ UNCHANGED <<start, opening, categories, settings, txns, receipts, adjusted, corrections, frozen>>
      /\ Sync /\ \A k \in Closed : k < m
  BY DEF SaveBudget
<1>2. ASSUME NEW i \in Closed, NEW k
      PROVE  /\ k \in DOMAIN periods[c] /\ k <= i <=> k \in DOMAIN row /\ k <= i
             /\ k \in DOMAIN row /\ k <= i => row[k] = periods[c][k]
  <2>1. i < m /\ i \in Months
    BY <1>1, PastMonths
  <2>2. k <= i => k # m
    BY <2>1 DEF Months
  <2> QED BY <2>2
<1> HIDE DEF row
<1>3. KeptAmounts
  BY <1>1, <1>2, PeriodsKept
<1> QED BY <1>1, <1>3, MonthsSame, EntriesSame, PlanSame DEF Kept

LEMMA CancelBudgetKeeps ==
  ASSUME TypeInv, NEW c \in Categories, NEW m \in Months, CancelBudget(c, m)
  PROVE  Kept
<1> DEFINE row == Restrict(periods[c], DOMAIN periods[c] \ {m})
<1>1. /\ c \in categories /\ periods' = [periods EXCEPT ![c] = row]
      /\ UNCHANGED <<start, opening, categories, settings, plan, txns, receipts, adjusted, corrections,
                     ledger, frozen>>
      /\ \A k \in Closed : k < m
  BY DEF CancelBudget
<1>2. ASSUME NEW i \in Closed, NEW k
      PROVE  /\ k \in DOMAIN periods[c] /\ k <= i <=> k \in DOMAIN row /\ k <= i
             /\ k \in DOMAIN row /\ k <= i => row[k] = periods[c][k]
  <2>1. i < m /\ i \in Months
    BY <1>1, PastMonths
  <2>2. k <= i => k # m
    BY <2>1 DEF Months
  <2> QED BY <2>2 DEF Restrict
<1> HIDE DEF row
<1>3. KeptAmounts
  BY <1>1, <1>2, PeriodsKept
<1> QED BY <1>1, <1>3, MonthsSame, EntriesSame, PlanSame DEF Kept

LEMMA CreateCategoryKeeps ==
  ASSUME TypeInv, NEW c \in Categories, NEW amount \in Allocations, CreateCategory(c, amount)
  PROVE  Kept
<1> DEFINE row == [m \in {FirstMonth, month} |-> IF m = month THEN amount ELSE 0]
<1>1. /\ c \notin categories /\ categories' = categories \cup {c}
      /\ plan' = Materialised(plan) /\ periods' = [periods EXCEPT ![c] = row]
      /\ UNCHANGED <<start, opening, settings, txns, receipts, adjusted, corrections, frozen>>
      /\ Sync
  BY DEF CreateCategory
<1>2. periods'[c] = row /\ \A d \in categories : periods'[d] = periods[d]
  BY <1>1 DEF TypeInv, FactsType, PlanType
<1>3. ASSUME NEW m \in Closed PROVE Allocation(c, m)' = 0
  <2>1. m \in Months /\ m < month /\ month \in Months
    BY PastMonths DEF TypeInv, FactsType, CalendarType
  <2>2. /\ DOMAIN row \subseteq Months /\ FirstMonth \in DOMAIN row /\ FirstMonth <= m
        /\ \A k \in DOMAIN row : k <= m => row[k] = 0
    BY <2>1 DEF FirstMonth, Months
  <2>3. PICK k \in DOMAIN row : k <= m /\ Applicable(row, m) = row[k]
    <3> HIDE DEF row
    <3> QED BY <2>1, <2>2, ApplicableRow
  <2>4. Allocation(c, m)' = Applicable(periods'[c], m)
    BY DEF Allocation, Applicable
  <2> HIDE DEF row
  <2> QED BY <1>2, <2>2, <2>3, <2>4
<1>4. KeptAmounts
  <2>1. \A m \in Closed : \A d \in categories : Allocation(d, m)' = Allocation(d, m)
    BY <1>2, AllocationSame
  <2> QED BY <1>1, <1>3, <2>1, ExpectedSame DEF KeptAmounts
<1> QED BY <1>1, <1>4, MonthsSame, EntriesSame, PlanSame DEF Kept

LEMMA SaveIncomeKeeps ==
  ASSUME TypeInv, NEW m \in Months, NEW money \in Plans, SaveIncome(m, money)
  PROVE  Kept
<1>1. /\ settings' = [k \in DOMAIN settings \cup {m} |-> IF k = m THEN money ELSE settings[k]]
      /\ plan' = [k \in DOMAIN Materialised(plan) |->
                    IF k \in DOMAIN plan THEN Repriced(m)[k] ELSE Instance(k)']
      /\ UNCHANGED <<start, opening, categories, periods, txns, receipts, adjusted, corrections, frozen>>
      /\ Sync /\ \A k \in Closed : k < m
  BY DEF SaveIncome
<1>2. ASSUME NEW i \in Closed PROVE Expected(i)' = Expected(i)
  <2>1. i < m /\ i \in Months
    BY <1>1, PastMonths
  <2>2. \A k : k <= i => k # m
    BY <2>1 DEF Months
  <2>3. /\ \A k : k \in DOMAIN settings /\ k <= i <=> k \in DOMAIN settings' /\ k <= i
        /\ \A k \in DOMAIN settings : k <= i => settings'[k] = settings[k]
    BY <1>1, <2>2
  <2>4. DOMAIN settings \subseteq Months
    BY DEF TypeInv, FactsType, PlanType, IsTable
  <2>5. Expected(i)' = IF \E k \in DOMAIN settings' : k <= i THEN Applicable(settings', i) ELSE DefaultPlan
    BY DEF Expected, Applicable
  <2>6. CASE \E k \in DOMAIN settings : k <= i
    <3>1. Applicable(settings', i) = Applicable(settings, i)
      BY <2>1, <2>3, <2>4, <2>6, ApplicableLocal
    <3> QED BY <2>3, <2>5, <2>6, <3>1 DEF Expected
  <2>7. CASE ~ \E k \in DOMAIN settings : k <= i
    BY <2>3, <2>5, <2>7 DEF Expected
  <2> QED BY <2>6, <2>7
<1>3. KeptAmounts
  BY <1>1, <1>2, AllocationSame DEF KeptAmounts
<1>4. KeptPlan
  <2>1. \A k : Instance(k)'.completed = {}
    BY DEF Instance
  <2>2. DOMAIN plan' = DOMAIN Materialised(plan) /\ DOMAIN plan \subseteq DOMAIN plan'
    BY <1>1, MaterialisedType DEF TypeInv
  <2>3. \A k \in DOMAIN plan' \ DOMAIN plan : k \notin Closed /\ plan'[k].completed = {}
    BY <1>1, <2>1, <2>2, PlanSynced
  <2>4. \A k \in DOMAIN plan :
          plan'[k] = plan[k] \/ (k \notin Closed /\ plan[k].completed = {} /\ plan'[k].completed = {})
    BY <1>1, <2>1, <2>2 DEF Repriced
  <2> QED BY <2>2, <2>3, <2>4 DEF KeptPlan, SameTerms
<1> QED BY <1>1, <1>3, <1>4, MonthsSame, EntriesSame DEF Kept

LEMMA CompleteKeeps ==
  ASSUME TypeInv, NEW k \in Months, Complete(k)
  PROVE  Kept
<1> DEFINE synced == Materialised(plan)
<1>1. /\ k \in DOMAIN synced /\ ~Completed(k)
      /\ plan' = [synced EXCEPT ![k].completed = {month}, ![k].shortfall = Remainder(k, synced[k], month)]
      /\ UNCHANGED <<start, opening, categories, periods, settings, txns, receipts, adjusted, corrections, frozen>>
      /\ Sync
  BY DEF Complete, facts
<1>2. /\ IsTable(synced, Instances) /\ DOMAIN plan \subseteq DOMAIN synced
      /\ \A j \in DOMAIN plan : synced[j] = plan[j]
      /\ \A j \in DOMAIN synced \ DOMAIN plan : j \notin Closed /\ synced[j].completed = {}
  BY MaterialisedType, PlanSynced DEF TypeInv
<1>3. /\ DOMAIN plan' = DOMAIN synced
      /\ \A j \in DOMAIN synced : j # k => plan'[j] = synced[j]
      /\ plan'[k] = [synced[k] EXCEPT !.completed = {month}, !.shortfall = Remainder(k, synced[k], month)]
  <2> HIDE DEF synced
  <2> QED BY <1>1, <1>2 DEF IsTable
<1>4. /\ plan'[k].amount = synced[k].amount /\ plan'[k].currency = synced[k].currency
      /\ plan'[k].eur = synced[k].eur /\ plan'[k].completed = {month}
  <2>1. synced[k] \in Instances
    BY <1>1, <1>2 DEF IsTable
  <2> HIDE DEF synced
  <2> QED BY <1>3, <2>1 DEF Instances
<1>5. KeptPlan
  <2> HIDE DEF synced
  <2>1. k \in DOMAIN plan => plan[k].completed = {}
    BY <1>1 DEF Completed
  <2>2. \A j \in DOMAIN plan : j \in Closed => SameTerms(j)
    BY <1>2, <1>3, <1>4 DEF SameTerms
  <2>3. \A j \in DOMAIN plan : \/ plan'[j].completed = plan[j].completed /\ plan'[j].shortfall = plan[j].shortfall
                               \/ plan[j].completed = {} /\ plan'[j].completed \subseteq {month}
    BY <1>2, <1>3, <1>4, <2>1
  <2>4. \A j \in DOMAIN plan' \ DOMAIN plan : j \notin Closed /\ plan'[j].completed \subseteq {month}
    BY <1>2, <1>3, <1>4
  <2> QED BY <1>2, <1>3, <2>2, <2>3, <2>4 DEF KeptPlan
<1> QED BY <1>1, <1>5, MonthsSame, EntriesSame, AmountsSame DEF Kept

LEMMA CorrectKeeps ==
  ASSUME TypeInv, NEW original, NEW deltas \in Corrections, Correct(original, deltas)
  PROVE  Kept
<1>1. /\ month \notin Closed /\ plan' = Materialised(plan)
      /\ corrections' = [corrections EXCEPT ![month] =
                           [c \in Buckets |-> @[c] + (IF c \in DOMAIN deltas THEN deltas[c] ELSE 0)]]
      /\ UNCHANGED <<start, opening, categories, periods, settings, txns, receipts, adjusted, frozen>>
      /\ Sync
  BY DEF Correct, RequireOpen
<1>2. \A m \in Closed : corrections'[m] = corrections[m]
  BY <1>1
<1>3. KeptAmounts
  BY <1>1, <1>2, AllocationSame, ExpectedSame DEF KeptAmounts
<1> QED BY <1>1, <1>3, MonthsSame, EntriesSame, PlanSame DEF Kept

LEMMA CloseKeeps ==
  ASSUME TypeInv, NEW m \in Months, Close(m)
  PROVE  Kept
<1>1. /\ m \notin Closed /\ plan' = Materialised(plan) /\ Sync
      /\ DOMAIN frozen' = DOMAIN frozen \cup {m}
      /\ \A k \in DOMAIN frozen : frozen'[k] = frozen[k]
      /\ UNCHANGED <<start, opening, categories, periods, settings, txns, receipts, adjusted, corrections>>
  BY DEF Close, facts, Closed
<1>2. KeptMonths
  BY <1>1, SyncKeeps DEF KeptMonths, Closed, Started
<1> QED BY <1>1, <1>2, EntriesSame, AmountsSame, PlanSame DEF Kept

LEMMA StepKeeps == TypeInv /\ TypeInv' /\ [Next]_vars => Kept
<1> SUFFICES ASSUME TypeInv, TypeInv', [Next]_vars PROVE Kept
  OBVIOUS
<1>1. ASSUME NEW t \in TxnIds, NEW r \in Requests, NEW m \in Months, Create(t, r, m) PROVE Kept
  BY <1>1, BookKeeps DEF Create, Booked
<1>2. ASSUME NEW t \in TxnIds, NEW r \in Requests, Edit(t, r) PROVE Kept
  <2>1. txns[t].month \in Months /\ Book(t, r, txns[t].month) /\ Booked(t, txns[t].month)
    BY <1>2 DEF Edit, Booked, TypeInv, FactsType, EntriesType, Entries
  <2> QED BY <2>1, BookKeeps
<1>3. ASSUME UNCHANGED <<start, opening, categories, periods, settings, txns, receipts, adjusted, corrections,
                         plan, ledger, frozen>>
      PROVE  Kept
  BY <1>3, MonthsSame, EntriesSame, AmountsSame, PlanSame DEF Kept
<1>4. CASE Read
  BY <1>4, MonthsSame, EntriesSame, AmountsSame, PlanSame DEF Kept, Read, facts
<1>5. CASE Tick
  BY <1>3, <1>5 DEF Tick, facts
<1>6. CASE UNCHANGED vars
  BY <1>3, <1>6 DEF vars, facts
<1> QED BY <1>1, <1>2, <1>4, <1>5, <1>6, DeleteKeeps, ReconcileKeeps, ActivateKeeps, SaveBudgetKeeps,
           CancelBudgetKeeps, CreateCategoryKeeps, SaveIncomeKeeps, CompleteKeeps, CorrectKeeps, CloseKeeps
        DEF Next

----------------------------------------------------------------------------
(* The movements of the closed months are what the facts ask for. *)

Agree(m) ==
  /\ \A key \in DOMAIN ledger[m] : ledger[m][key] = Wanted(m, key)
  /\ \A key \in Sources(m) \ DOMAIN ledger[m] : Wanted(m, key) = 0

BooksInv == \A m \in Closed : Started(m) => Agree(m)

LEMMA SourcesAreKeys ==
  ASSUME TypeInv, NEW m
  PROVE  Sources(m) \subseteq MovementKeys(m)
<1>1. DOMAIN txns \subseteq TxnIds
  BY DEF TypeInv, FactsType, EntriesType
<1> QED BY <1>1 DEF Sources, MovementKeys, EntriesOf

LEMMA AgreeKept ==
  ASSUME TypeInv, TypeInv', Kept, NEW m \in Closed, Started(m), Agree(m)
  PROVE  Agree(m)'
<1>1. m \in DOMAIN plan /\ start # {} /\ ledger'[m] = ledger[m] /\ m \in Months
  BY PastMonths DEF TypeInv, FactsType, CalendarType, Started, Kept, KeptMonths
<1>2. \A key \in MovementKeys(m) : Wanted(m, key)' = Wanted(m, key)
  BY <1>1, WantedKept
<1>3. \A key \in Sources(m)' : key \notin Sources(m) => Wanted(m, key)' = 0
  BY <1>1, WantedNew
<1>4. DOMAIN ledger[m] \subseteq MovementKeys(m)
  BY <1>1 DEF TypeInv, LedgerType
<1>5. \A key \in DOMAIN ledger'[m] : ledger'[m][key] = Wanted(m, key)'
  BY <1>1, <1>2, <1>4 DEF Agree
<1>6. \A key \in Sources(m)' \ DOMAIN ledger'[m] : Wanted(m, key)' = 0
  BY <1>1, <1>2, <1>3, SourcesAreKeys DEF Agree
<1> QED BY <1>5, <1>6 DEF Agree

\* A month is closed with its movements brought up to date.
LEMMA AgreeAtClose ==
  ASSUME TypeInv, NEW m \in Months, Close(m), Started(m)
  PROVE  Agree(m)'
<1>1. m < month /\ m \notin Closed /\ Sync /\ start' = start
  BY DEF Close
<1>2. RequireOpen(m) /\ Started(m)'
  BY <1>1 DEF RequireOpen, Started, FirstMonth, Months, TypeInv, FactsType, CalendarType
<1>3. ledger'[m] = Appended(m)
  BY <1>1, <1>2 DEF Sync
<1>4. /\ DOMAIN ledger'[m] = DOMAIN ledger[m] \cup {k \in Sources(m)' : Wanted(m, k)' # 0}
      /\ \A key \in DOMAIN ledger'[m] : ledger'[m][key] = Wanted(m, key)'
  BY <1>3 DEF Appended
<1> QED BY <1>4 DEF Agree

\* Only Close closes a month.
LEMMA OnlyClose ==
  ASSUME TypeInv, [Next]_vars, NEW m \in Closed', m \notin Closed
  PROVE  m \in Months /\ Close(m)
<1>1. frozen' # frozen
  BY DEF Closed
<1>2. PICK i \in Months : Close(i)
  BY <1>1 DEF Next, vars, Create, Edit, Book, Delete, Reconcile, Activate, Read, SaveBudget, CancelBudget,
              CreateCategory, SaveIncome, Complete, Correct, Tick
<1>3. Closed' = Closed \cup {i}
  BY <1>2 DEF Close, Closed
<1> QED BY <1>2, <1>3

LEMMA BooksStep == TypeInv /\ TypeInv' /\ BooksInv /\ [Next]_vars => BooksInv'
<1> SUFFICES ASSUME TypeInv, TypeInv', BooksInv, [Next]_vars, NEW m \in Closed', Started(m)'
             PROVE  Agree(m)'
  BY DEF BooksInv
<1>1. Kept
  BY StepKeeps
<1>2. CASE m \in Closed
  <2>1. Started(m) /\ Agree(m)
    BY <1>1, <1>2 DEF Kept, KeptMonths, BooksInv
  <2> QED BY <1>1, <1>2, <2>1, AgreeKept
<1>3. CASE m \notin Closed
  <2>1. m \in Months /\ Close(m)
    BY <1>3, OnlyClose
  <2>2. Started(m)
    BY <2>1 DEF Close, Started
  <2> QED BY <2>1, <2>2, AgreeAtClose
<1> QED BY <1>2, <1>3

\* A month is closed with its movements as the facts ask for them, and no step changes
\* anything they are computed from.
THEOREM BooksKept == Spec => []BooksInv
<1>1. Init => BooksInv
  BY DEF Init, BooksInv, Closed, Empty
<1>2. TypeInv /\ TypeInv' /\ BooksInv /\ [Next]_vars => BooksInv'
  BY BooksStep
<1> QED BY <1>1, <1>2, TypesKept, PTL DEF Spec

\* No accepted operation changes what a closed month should have recorded.
THEOREM ClosedBooksStayRight == Spec => []ClosedBooksAgree
<1>1. BooksInv => ClosedBooksAgree
  BY DEF BooksInv, Agree, ClosedBooksAgree
<1> QED BY <1>1, BooksKept, PTL

----------------------------------------------------------------------------
(* What a closed month adds to the balances does not change. *)

LEMMA MovedKept ==
  ASSUME Kept, NEW m \in Closed, NEW b, NEW kinds
  PROVE  Moved(b, kinds, m)' = Moved(b, kinds, m)
BY DEF Moved, Kept, KeptMonths

LEMMA MovedNew ==
  ASSUME TypeInv, NEW m \in Months, NEW b, b \notin Known, b # Unallocated, NEW kinds
  PROVE  Moved(b, kinds, m) = 0
<1>1. \A key \in MovementKeys(m) : key[1] \in Known \/ key[1] = Unallocated
  BY DEF MovementKeys
<1>2. DOMAIN ledger[m] \subseteq MovementKeys(m)
  BY DEF TypeInv, LedgerType
<1> DEFINE S == {key \in DOMAIN ledger[m] : key[1] = b /\ key[2] \in kinds}
<1>3. S = {}
  BY <1>1, <1>2
<1>4. Moved(b, kinds, m) = SumFunctionOnSet(ledger[m], S)
  BY DEF Moved
<1> HIDE DEF S
<1> QED BY <1>3, <1>4, SumEmpty

LEMMA EnteredKept ==
  ASSUME TypeInv, Kept, NEW m \in Closed, NEW c
  PROVE  Entered(c, m)' = Entered(c, m)
<1> DEFINE f == [t \in EntriesOf(m) |->
                   Sides(t, c, IF txns[t].kind = "reallocate" THEN txns[t].amount ELSE txns[t].eur)]
<1>1. EntriesOf(m)' = EntriesOf(m) /\ \A t \in EntriesOf(m) : txns'[t] = txns[t]
  BY EntriesKept
<1>2. f' = f
  BY <1>1 DEF Sides
<1>3. Entered(c, m) = SumFunction(f) /\ Entered(c, m)' = SumFunction(f')
  BY DEF Entered
<1> HIDE DEF f
<1> QED BY <1>2, <1>3

\* No entry is between buckets that do not exist.
LEMMA EnteredNew ==
  ASSUME TypeInv, NEW m, NEW c \in Buckets \ Known
  PROVE  Entered(c, m) = 0
<1> DEFINE f == [t \in EntriesOf(m) |->
                   Sides(t, c, IF txns[t].kind = "reallocate" THEN txns[t].amount ELSE txns[t].eur)]
<1>1. EntriesOf(m) \subseteq DOMAIN txns /\ c # External
  BY DEF EntriesOf, ConstantsAssumption
<1>2. IsFiniteSet(EntriesOf(m))
  BY <1>1, FiniteTables, FS_Subset DEF TypeInv
<1>3. \A t \in EntriesOf(m) : txns[t].from # c /\ txns[t].to # c
  BY <1>1 DEF TypeInv, FactsType, EntriesType
<1>4. \A t \in EntriesOf(m) : f[t] = 0
  BY <1>3 DEF Sides
<1>5. Entered(c, m) = SumFunctionOnSet(f, EntriesOf(m))
  <2>1. Entered(c, m) = SumFunction(f) /\ DOMAIN f = EntriesOf(m)
    BY DEF Entered
  <2> HIDE DEF f
  <2> QED BY <2>1, SumIsOnDomain
<1> HIDE DEF f
<1> QED BY <1>2, <1>4, <1>5, SumZero

LEMMA StartedKept ==
  ASSUME TypeInv, TypeInv', Kept, NEW m \in Closed
  PROVE  /\ m \in Months /\ (Started(m)' <=> Started(m))
         /\ Started(m) => m \in DOMAIN plan /\ m \in DOMAIN plan'
BY PastMonths DEF Kept, KeptMonths, KeptPlan, TypeInv, FactsType, CalendarType

LEMMA ChangeKept ==
  ASSUME TypeInv, TypeInv', Kept, NEW m \in Closed, NEW c \in categories
  PROVE  Monthly(c, m)' = Monthly(c, m) /\ CategoryChange(c, m)' = CategoryChange(c, m)
<1>1. Monthly(c, m)' = Monthly(c, m)
  <2>1. Moved(c, {"allocation"}, m)' = Moved(c, {"allocation"}, m)
    BY MovedKept
  <2>2. Allocation(c, m)' = Allocation(c, m)
    BY DEF Kept, KeptAmounts
  <2> QED BY <2>1, <2>2, StartedKept DEF Monthly
<1>2. Entered(c, m)' = Entered(c, m) /\ corrections'[m] = corrections[m]
  BY EnteredKept DEF Kept, KeptAmounts
<1>3. Moved(c, {"spending", "reallocation"}, m)' = Moved(c, {"spending", "reallocation"}, m)
  BY MovedKept
<1> QED BY <1>1, <1>2, <1>3, StartedKept DEF CategoryChange

\* A category that a step creates has nothing in a closed month.
LEMMA ChangeNew ==
  ASSUME TypeInv, TypeInv', Kept, NEW m \in Closed, NEW c \in categories' \ categories
  PROVE  Monthly(c, m)' = 0 /\ CategoryChange(c, m)' = 0
<1>1. /\ c \in Buckets \ Known /\ c # Unallocated /\ m \in Months
  BY PastMonths DEF TypeInv, FactsType, PlanType, Buckets, Known, ConstantsAssumption
<1>2. \A kinds : Moved(c, kinds, m)' = 0
  <2>1. \A kinds : Moved(c, kinds, m)' = Moved(c, kinds, m) /\ Moved(c, kinds, m) = 0
    BY <1>1, MovedKept, MovedNew
  <2> QED BY <2>1
<1>3. Entered(c, m)' = 0
  BY <1>1, EnteredKept, EnteredNew
<1>4. corrections'[m][c] = 0
  BY <1>1 DEF Kept, KeptAmounts, TypeInv, FactsType, CorrectionsType
<1>5. Allocation(c, m)' = 0
  BY DEF Kept, KeptAmounts
<1>6. Monthly(c, m)' = 0
  <2>1. Moved(c, {"allocation"}, m)' = 0
    BY <1>2
  <2> QED BY <1>5, <2>1 DEF Monthly
<1>7. Moved(c, {"spending", "reallocation"}, m)' = 0
  BY <1>2
<1> QED BY <1>3, <1>4, <1>6, <1>7 DEF CategoryChange

LEMMA UnallocatedChangeKept ==
  ASSUME TypeInv, TypeInv', Kept, NEW m \in Closed
  PROVE  UnallocatedChange(m)' = UnallocatedChange(m)
<1> DEFINE f == [c \in categories |-> Monthly(c, m)]
<1>0. m \in Months
  BY PastMonths
<1>1. IsFiniteSet(categories') /\ categories \subseteq categories'
  BY FS_Subset DEF ConstantsAssumption, TypeInv, FactsType, PlanType, Kept, KeptMonths
<1>2. /\ DOMAIN f = categories /\ DOMAIN f' = categories'
      /\ \A c \in categories : f'[c] = f[c] /\ f[c] \in Int
      /\ \A c \in categories' \ categories : f'[c] = 0
  <2>1. \A c \in categories : Monthly(c, m) \in Int
    BY <1>0, MonthlyType DEF TypeInv
  <2> QED BY <1>1, <2>1, ChangeKept, ChangeNew
<1>3. SumFunction(f)' = SumFunction(f)
  <2>1. SumFunction(f') = SumFunction(f)
    <3> HIDE DEF f
    <3> QED BY <1>1, <1>2, SumExtend
  <2> QED BY <2>1 DEF SumFunction
<1>4. Eur(Expected(m), m)' = Eur(Expected(m), m)
  BY DEF Kept, KeptAmounts, Eur
<1>5. \A kinds : Moved(Unallocated, kinds, m)' = Moved(Unallocated, kinds, m)
  BY MovedKept
<1>6. ledger'[m] = ledger[m]
  BY DEF Kept, KeptMonths
<1>7. Moved(Unallocated, {"funding", "allocation"}, m)' = Moved(Unallocated, {"funding", "allocation"}, m)
  BY <1>5
<1>8. Moved(Unallocated, {"spending", "reallocation", "income", "excess", "settlement", "correction"}, m)'
        = Moved(Unallocated, {"spending", "reallocation", "income", "excess", "settlement", "correction"}, m)
  BY <1>5
<1> QED BY <1>3, <1>4, <1>6, <1>7, <1>8 DEF UnallocatedChange

----------------------------------------------------------------------------
(* The balances computed again from the opening. *)

Replayed == History(Empty)

LEMMA ReplayedRow ==
  month \in Nat =>
    \A m \in 0..month, c \in Known :
      Replayed[m][c] =
        IF m = 0 THEN IF c = Unallocated THEN opening ELSE 0
        ELSE IF c # Unallocated THEN Replayed[m - 1][c] + CategoryChange(c, m)
        ELSE IF Started(m) THEN Replayed[m - 1][c] + UnallocatedChange(m)
        ELSE Replayed[m - 1][c]
<1> SUFFICES ASSUME month \in Nat, NEW m \in 0..month, NEW c \in Known
             PROVE  Replayed[m][c] =
                      IF m = 0 THEN IF c = Unallocated THEN opening ELSE 0
                      ELSE IF c # Unallocated THEN Replayed[m - 1][c] + CategoryChange(c, m)
                      ELSE IF Started(m) THEN Replayed[m - 1][c] + UnallocatedChange(m)
                      ELSE Replayed[m - 1][c]
  OBVIOUS
<1>1. Replayed[m][c] = BalanceOf(Replayed, Empty, m, c)
  BY HistoryRow DEF Replayed
<1>2. m \notin DOMAIN Empty
  BY DEF Empty
<1> QED BY <1>1, <1>2 DEF BalanceOf

LEMMA ReplayedRowNext ==
  (month \in Nat)' =>
    (\A m \in 0..month, c \in Known :
      Replayed[m][c] =
        IF m = 0 THEN IF c = Unallocated THEN opening ELSE 0
        ELSE IF c # Unallocated THEN Replayed[m - 1][c] + CategoryChange(c, m)
        ELSE IF Started(m) THEN Replayed[m - 1][c] + UnallocatedChange(m)
        ELSE Replayed[m - 1][c])'
BY ReplayedRow, PTL

\* Balances of closed months, as they are computed again, do not change.
LEMMA ReplayedKept ==
  ASSUME TypeInv, TypeInv', Kept, NEW m \in {0} \cup Closed
  PROVE  /\ \A c \in Known : c # Unallocated \/ start # {} => Replayed'[m][c] = Replayed[m][c]
         /\ \A c \in Known' \ Known : c # Unallocated => Replayed'[m][c] = 0
<1> DEFINE Same(k) ==
             /\ \A c \in Known : c # Unallocated \/ start # {} => Replayed'[k][c] = Replayed[k][c]
             /\ \A c \in Known' \ Known : c # Unallocated => Replayed'[k][c] = 0
           B == {k \in {0} \cup Closed : ~Same(k)}
<1>0. month \in Nat /\ month' \in Nat
  BY DEF TypeInv, FactsType, CalendarType, Months
<1>1. B = {}
  <2> SUFFICES ASSUME B # {} PROVE FALSE
    OBVIOUS
  <2>1. B \subseteq Nat
    BY PastMonths DEF Months
  <2>2. PICK k \in B : \A j \in B : k <= j
    <3> HIDE DEF B
    <3> QED BY <2>1, LeastNat
  <2>3. k \in {0} \cup Closed /\ ~Same(k) /\ k \in Nat
    BY <2>1
  <2>4. k \in 0..month /\ k \in 0..month'
    <3>1. k # 0 => k \in Closed /\ k \in Closed'
      BY <2>3 DEF Kept, KeptMonths
    <3>2. Closed \subseteq 1..(month - 1) /\ Closed' \subseteq 1..(month' - 1)
      BY DEF TypeInv, FactsType, CalendarType
    <3> HIDE DEF B, Same
    <3> QED BY <1>0, <2>3, <3>1, <3>2
  <2>5. k # 0 => k \in Closed /\ k - 1 \in {0} \cup Closed /\ Same(k - 1)
    <3>1. k # 0 => k \in Closed /\ k - 1 \in Nat /\ ~(k <= k - 1)
      BY <2>3
    <3>2. k # 0 => k - 1 \in {0} \cup Closed
      <4>1. k # 0 => k \in Months /\ \A i \in Months : i <= k => i \in Closed
        BY <3>1, PastMonths
      <4>2. k # 0 /\ k - 1 # 0 => k - 1 \in Months /\ k - 1 <= k
        BY <4>1 DEF Months, ConstantsAssumption
      <4> QED BY <4>1, <4>2
    <3>3. k # 0 => k - 1 \notin B
      <4> HIDE DEF B
      <4> QED BY <2>2, <3>1
    <3> QED BY <3>1, <3>2, <3>3
  <2>6. \A c \in Known : Replayed[k][c] =
          IF k = 0 THEN IF c = Unallocated THEN opening ELSE 0
          ELSE IF c # Unallocated THEN Replayed[k - 1][c] + CategoryChange(c, k)
          ELSE IF Started(k) THEN Replayed[k - 1][c] + UnallocatedChange(k)
          ELSE Replayed[k - 1][c]
    <3> HIDE DEF B, Same
    <3> QED BY <1>0, <2>4, ReplayedRow
  <2>7. \A c \in Known' : Replayed'[k][c] =
          IF k = 0 THEN IF c = Unallocated THEN opening' ELSE 0
          ELSE IF c # Unallocated THEN Replayed'[k - 1][c] + CategoryChange(c, k)'
          ELSE IF Started(k)' THEN Replayed'[k - 1][c] + UnallocatedChange(k)'
          ELSE Replayed'[k - 1][c]
    <3> HIDE DEF B, Same
    <3> QED BY <1>0, <2>4, ReplayedRowNext
  <2>8. \A c \in Known : c \in Known' /\ (c # Unallocated => c \in categories)
    BY DEF Known, Kept, KeptMonths
  <2>9. \A c \in Known' \ Known : c # Unallocated => c \in categories' \ categories
    BY DEF Known, Kept, KeptMonths
  <2>10. k # 0 => /\ \A c \in categories : CategoryChange(c, k)' = CategoryChange(c, k)
                  /\ \A c \in categories' \ categories : CategoryChange(c, k)' = 0
                  /\ UnallocatedChange(k)' = UnallocatedChange(k)
                  /\ Started(k)' <=> Started(k)
    BY <2>5, ChangeKept, ChangeNew, UnallocatedChangeKept, StartedKept
  <2>11. start # {} => opening' = opening
    BY DEF Kept, KeptMonths
  <2>12. CASE k = 0
    <3>1. Same(k)
      BY <2>6, <2>7, <2>8, <2>11, <2>12
    <3> QED BY <2>3, <3>1
  <2>13. CASE k # 0
    <3>1. \A c \in Known : c # Unallocated \/ start # {} => Replayed'[k - 1][c] = Replayed[k - 1][c]
      BY <2>5, <2>13
    <3>2. \A c \in Known' \ Known : c # Unallocated => Replayed'[k - 1][c] = 0
      BY <2>5, <2>13
    <3>3. ASSUME NEW c \in Known, c # Unallocated \/ start # {} PROVE Replayed'[k][c] = Replayed[k][c]
      <4>1. c \in Known' /\ Replayed'[k - 1][c] = Replayed[k - 1][c]
        BY <2>8, <3>1, <3>3
      <4>2. CASE c # Unallocated
        <5>1. CategoryChange(c, k)' = CategoryChange(c, k)
          BY <2>8, <2>10, <2>13, <4>2
        <5>2. Replayed[k][c] = Replayed[k - 1][c] + CategoryChange(c, k)
          BY <2>6, <2>13, <4>2
        <5>3. Replayed'[k][c] = Replayed'[k - 1][c] + CategoryChange(c, k)'
          BY <2>7, <2>13, <4>1, <4>2
        <5> QED BY <4>1, <5>1, <5>2, <5>3
      <4>3. CASE c = Unallocated
        <5>1. Replayed[k][c] = IF Started(k) THEN Replayed[k - 1][c] + UnallocatedChange(k) ELSE Replayed[k - 1][c]
          BY <2>6, <2>13, <4>3
        <5>2. Replayed'[k][c] =
                IF Started(k)' THEN Replayed'[k - 1][c] + UnallocatedChange(k)' ELSE Replayed'[k - 1][c]
          BY <2>7, <2>13, <4>1, <4>3
        <5> QED BY <2>10, <2>13, <4>1, <5>1, <5>2
      <4> QED BY <4>2, <4>3
    <3>4. ASSUME NEW c \in Known' \ Known, c # Unallocated PROVE Replayed'[k][c] = 0
      <4>1. CategoryChange(c, k)' = 0 /\ Replayed'[k - 1][c] = 0
        BY <2>9, <2>10, <2>13, <3>2, <3>4
      <4>2. Replayed'[k][c] = Replayed'[k - 1][c] + CategoryChange(c, k)'
        BY <2>7, <2>13, <3>4
      <4> QED BY <4>1, <4>2
    <3>5. Same(k)
      BY <3>3, <3>4
    <3> QED BY <2>3, <3>5
  <2> QED BY <2>12, <2>13
<1> QED BY <1>1

\* Snapshots that say what is computed again: the categories they do not list, which
\* were created later, are empty.
Fits(s) ==
  /\ DOMAIN s \subseteq 1..month /\ \A m \in DOMAIN s : 1..m \subseteq DOMAIN s
  /\ \A m \in DOMAIN s :
       /\ \A c \in DOMAIN s[m].balances : Replayed[m][c] = s[m].balances[c]
       /\ \A c \in Known \ DOMAIN s[m].balances : c # Unallocated => Replayed[m][c] = 0
       /\ Unallocated \in DOMAIN s[m].balances <=> Started(m)
       /\ \A k \in DOMAIN s : k <= m => DOMAIN s[k].balances \subseteq DOMAIN s[m].balances

\* Then it does not matter whether a balance is read from them or computed.
LEMMA ReadOrReplayed ==
  month \in Nat => \A s : Fits(s) => \A m \in 0..month, c \in Known : History(s)[m][c] = Replayed[m][c]
<1> SUFFICES ASSUME month \in Nat, NEW s, Fits(s)
             PROVE  \A m \in 0..month, c \in Known : History(s)[m][c] = Replayed[m][c]
  OBVIOUS
<1> DEFINE h == History(s)
           B == {m \in 0..month : \E c \in Known : h[m][c] # Replayed[m][c]}
<1>1. B = {}
  <2> SUFFICES ASSUME B # {} PROVE FALSE
    OBVIOUS
  <2>1. PICK m \in B : \A k \in B : m <= k
    <3>1. B \subseteq Nat
      OBVIOUS
    <3> HIDE DEF B
    <3> QED BY <3>1, LeastNat
  <2>2. PICK c \in Known : h[m][c] # Replayed[m][c]
    OBVIOUS
  <2>3. m \in 0..month
    OBVIOUS
  <2>4. h[m][c] = BalanceOf(h, s, m, c)
    BY <2>3, HistoryRow
  <2>5. Replayed[m][c] =
          IF m = 0 THEN IF c = Unallocated THEN opening ELSE 0
          ELSE IF c # Unallocated THEN Replayed[m - 1][c] + CategoryChange(c, m)
          ELSE IF Started(m) THEN Replayed[m - 1][c] + UnallocatedChange(m)
          ELSE Replayed[m - 1][c]
    <3> HIDE DEF B, h
    <3> QED BY <2>3, ReplayedRow
  <2>6. m # 0 => h[m - 1][c] = Replayed[m - 1][c]
    <3>1. m # 0 => m - 1 \in 0..month /\ ~(m <= m - 1)
      BY <2>3
    <3>2. m # 0 => m - 1 \notin B
      <4> HIDE DEF B
      <4> QED BY <2>1, <3>1
    <3> QED BY <3>1, <3>2
  <2> HIDE DEF B, h
  <2>7. CASE m = 0 \/ m \notin DOMAIN s
    BY <2>2, <2>4, <2>5, <2>6, <2>7 DEF BalanceOf
  <2>8. CASE m # 0 /\ m \in DOMAIN s
    <3>1. h[m][c] = IF c \in DOMAIN s[m].balances THEN s[m].balances[c] ELSE h[m - 1][c]
      BY <2>4, <2>8 DEF BalanceOf
    <3>2. c \notin DOMAIN s[m].balances
      BY <2>2, <2>8, <3>1 DEF Fits
    <3>3. CASE c = Unallocated
      BY <2>2, <2>5, <2>6, <2>8, <3>1, <3>2, <3>3 DEF Fits
    <3>4. CASE c # Unallocated
      <4>1. Replayed[m][c] = 0
        BY <2>8, <3>2, <3>4 DEF Fits
      <4>2. Replayed[m - 1][c] = 0
        <5>1. CASE m = 1
          <6>1. 0 \in 0..month /\ m - 1 = 0
            BY <5>1
          <6> QED BY <3>4, <6>1, ReplayedRow
        <5>2. CASE m # 1
          <6>1. m - 1 \in 1..m /\ m - 1 <= m
            BY <2>3, <2>8, <5>2
          <6>2. m - 1 \in DOMAIN s /\ DOMAIN s[m - 1].balances \subseteq DOMAIN s[m].balances
            BY <2>8, <6>1 DEF Fits
          <6> QED BY <3>2, <3>4, <6>2 DEF Fits
        <5> QED BY <5>1, <5>2
      <4> QED BY <2>2, <2>6, <2>8, <3>1, <3>2, <4>1, <4>2
    <3> QED BY <3>3, <3>4
  <2> QED BY <2>7, <2>8
<1> QED BY <1>1

LEMMA ReadOrReplayedNext ==
  (month \in Nat)' =>
    (\A s : Fits(s) => \A m \in 0..month, c \in Known : History(s)[m][c] = Replayed[m][c])'
BY ReadOrReplayed, PTL

----------------------------------------------------------------------------
(* The coverage of a closed month does not change. *)

LEMMA CashKept ==
  ASSUME TypeInv, TypeInv', Kept, NEW m \in Closed
  PROVE  Cash(m)' = Cash(m)
<1> DEFINE S == {u \in DOMAIN txns : txns[u].month <= m}
           f == [t \in S |-> CashChange(t)]
<1>1. m \in Months /\ \A i \in Months : i <= m => i \in Closed
  BY PastMonths
<1>2. /\ \A u \in DOMAIN txns : txns[u].month \in Months
      /\ \A u \in DOMAIN txns' : txns'[u].month \in Months
  BY DEF TypeInv, FactsType, EntriesType, Entries
<1>3. S \subseteq Past /\ S' \subseteq Past
  BY <1>1, <1>2 DEF Past, Kept, KeptEntries
<1>4. \A u \in Past : u \in DOMAIN txns /\ u \in DOMAIN txns' /\ txns'[u] = txns[u]
  BY DEF Past, Kept, KeptEntries
<1>5. S' = S
  BY <1>3, <1>4
<1>6. f' = f
  <2>1. \A t \in S : CashChange(t)' = CashChange(t)
    <3> HIDE DEF S
    <3> QED BY <1>3, <1>4 DEF CashChange
  <2>2. f = [t \in S |-> CashChange(t)] /\ f' = [t \in S' |-> CashChange(t)']
    OBVIOUS
  <2> HIDE DEF f, S
  <2> QED BY <1>5, <2>1, <2>2
<1>7. SumFunctionOnSet(adjusted', 1..m) = SumFunctionOnSet(adjusted, 1..m)
  <2>1. \A i \in 1..m : i \in Months /\ i <= m
    BY <1>1 DEF Months
  <2>2. \A i \in 1..m : adjusted'[i] = adjusted[i]
    BY <1>1, <2>1 DEF Kept, KeptAmounts
  <2>3. IsFiniteSet(1..m)
    BY <1>1, FiniteTables DEF TypeInv, Months
  <2> QED BY <2>2, <2>3, SumAgree
<1>8. /\ Cash(m) = SumFunction(f) + SumFunctionOnSet(adjusted, 1..m)
      /\ Cash(m)' = SumFunction(f') + SumFunctionOnSet(adjusted', 1..m)
  BY DEF Cash
<1> HIDE DEF f
<1> QED BY <1>6, <1>7, <1>8

LEMMA MatchedKept ==
  ASSUME TypeInv, TypeInv', Kept, start # {}, NEW k, NEW m \in Closed
  PROVE  MatchedReceipts(k, m) \subseteq Past /\ MatchedReceipts(k, m)' = MatchedReceipts(k, m)
<1>1. \A i \in Months : i <= m => i \in Closed
  BY PastMonths
<1>2. /\ \A u \in DOMAIN txns : txns[u].month \in Months
      /\ \A u \in DOMAIN txns' : txns'[u].month \in Months
  BY DEF TypeInv, FactsType, EntriesType, Entries
<1>3. MatchedReceipts(k, m) \subseteq Past
  BY <1>1, <1>2 DEF MatchedReceipts, Past
<1>4. MatchedReceipts(k, m)' \subseteq Past
  BY <1>1, <1>2 DEF MatchedReceipts, Kept, KeptEntries
<1>5. \A u \in Past : u \in MatchedReceipts(k, m)' <=> u \in MatchedReceipts(k, m)
  BY PastMatched
<1> QED BY <1>3, <1>4, <1>5

LEMMA OutstandingKept ==
  ASSUME TypeInv, TypeInv', Kept, start # {}, NEW m \in Closed, NEW k \in DOMAIN plan, k <= m
  PROVE  Outstanding(k, m)' = Outstanding(k, m)
<1> DEFINE rows == MatchedReceipts(k, m)
           f == [t \in rows |-> Native(t, plan[k])]
<1>1. SameTerms(k)
  <2>1. k \in Months
    BY DEF TypeInv, FactsType, PlanType, IsTable
  <2> QED BY <2>1, PastMonths DEF Kept, KeptPlan
<1>2. rows \subseteq Past /\ rows' = rows
  BY MatchedKept
<1>3. f' = f
  <2>1. \A t \in Past : Native(t, plan[k])' = Native(t, plan[k])
    BY <1>1, PastNative
  <2>2. f = [t \in rows |-> Native(t, plan[k])] /\ f' = [t \in rows' |-> Native(t, plan[k])']
    OBVIOUS
  <2> HIDE DEF f, rows
  <2> QED BY <1>2, <2>1, <2>2
<1>4. CompletedBy(k, m)' <=> CompletedBy(k, m)
  <2>1. m < month /\ m \in Nat /\ month \in Nat
    <3>1. m \in 1..(month - 1) /\ month \in Months
      BY DEF TypeInv, FactsType, CalendarType
    <3> QED BY <3>1 DEF Months
  <2>2. CASE plan'[k].completed = plan[k].completed
    BY <2>2 DEF CompletedBy
  <2>3. CASE plan[k].completed = {} /\ plan'[k].completed \subseteq {month}
    BY <2>1, <2>3 DEF CompletedBy
  <2> QED BY <2>2, <2>3 DEF Kept, KeptPlan
<1>5. Remainder(k, plan[k], m)' = Remainder(k, plan[k], m)
  <2>1. /\ Remainder(k, plan[k], m) = FundingPortion(Positive(plan[k].amount - SumFunction(f)), plan[k])
        /\ Remainder(k, plan[k], m)' = FundingPortion(Positive(plan[k].amount - SumFunction(f)), plan[k])'
    BY DEF Remainder
  <2>2. \A n : FundingPortion(n, plan[k])' = FundingPortion(n, plan[k])
    BY <1>1, FundingKept
  <2>3. SumFunction(f)' = SumFunction(f)
    BY <1>3 DEF SumFunction
  <2>4. plan'[k].amount = plan[k].amount
    BY <1>1 DEF SameTerms
  <2> DEFINE n == Positive(plan[k].amount - SumFunction(f))
  <2>5. n' = n
    BY <2>3, <2>4 DEF Positive
  <2>6. FundingPortion(n, plan[k])' = FundingPortion(n, plan[k])
    <3> HIDE DEF n
    <3> QED BY <1>1, <2>5 DEF FundingPortion, SameTerms
  <2> QED BY <2>1, <2>6
<1> QED BY <1>4, <1>5 DEF Outstanding

LEMMA CoverageKept ==
  ASSUME TypeInv, TypeInv', Kept, start # {}, NEW m \in Closed, NEW statement
  PROVE  Coverage(m, statement)' = Coverage(m, statement)
<1> DEFINE S == {j \in DOMAIN plan : j <= m}
           f == [k \in S |-> Outstanding(k, m)]
<1>1. DOMAIN plan' \subseteq Months /\ \A i \in Months : i <= m => i \in Closed
  BY PastMonths DEF TypeInv, FactsType, PlanType, IsTable
<1>2. S' = S
  BY <1>1 DEF Kept, KeptPlan
<1>3. f' = f
  <2>1. \A k \in S : Outstanding(k, m)' = Outstanding(k, m)
    BY OutstandingKept
  <2>2. f = [k \in S |-> Outstanding(k, m)] /\ f' = [k \in S' |-> Outstanding(k, m)']
    OBVIOUS
  <2> HIDE DEF f, S
  <2> QED BY <1>2, <2>1, <2>2
<1>4. Cash(m)' = Cash(m)
  BY CashKept
<1>5. SumFunction(f)' = SumFunction(f)
  BY <1>3 DEF SumFunction
<1> QED BY <1>4, <1>5 DEF Coverage

----------------------------------------------------------------------------
(* What is frozen is what the facts and movements still give. *)

FrozenAs(m) ==
  /\ \A c \in DOMAIN frozen[m].balances : Replayed[m][c] = frozen[m].balances[c]
  /\ \A c \in Known \ DOMAIN frozen[m].balances : c # Unallocated => Replayed[m][c] = 0
  /\ frozen[m].coverage # {} =>
       frozen[m].coverage = {Coverage(m, Restrict(Replayed[m], DOMAIN frozen[m].balances))}

FrozenInv == \A m \in Closed : FrozenAs(m)

LEMMA FrozenKept ==
  ASSUME TypeInv, TypeInv', Kept, NEW m \in Closed, FrozenAs(m)
  PROVE  FrozenAs(m)'
<1> DEFINE D == DOMAIN frozen[m].balances
<1>1. /\ \A c \in Known : c # Unallocated \/ start # {} => Replayed'[m][c] = Replayed[m][c]
      /\ \A c \in Known' \ Known : c # Unallocated => Replayed'[m][c] = 0
  BY ReplayedKept
<1>2. frozen'[m] = frozen[m]
  BY DEF Kept, KeptMonths
<1>3. /\ D \subseteq Known /\ (Unallocated \in D => start # {})
      /\ frozen[m].coverage # {} => start # {}
  BY DEF TypeInv, IsSnapshots, Started, Closed
<1>4. \A c \in D : Replayed'[m][c] = Replayed[m][c]
  BY <1>1, <1>3
<1>5. \A c \in D : Replayed'[m][c] = frozen'[m].balances[c]
  BY <1>2, <1>4 DEF FrozenAs
<1>6. \A c \in Known' \ D : c # Unallocated => Replayed'[m][c] = 0
  BY <1>1 DEF FrozenAs
<1>7. ASSUME frozen[m].coverage # {}
      PROVE  frozen[m].coverage = {Coverage(m, Restrict(Replayed[m], D))'}
  <2> DEFINE st == Restrict(Replayed[m], D)
  <2>1. st' = st
    BY <1>2, <1>4 DEF Restrict
  <2>2. \A x : Coverage(m, x)' = Coverage(m, x)
    BY <1>3, <1>7, CoverageKept
  <2>3. Coverage(m, st)' = Coverage(m, st)
    <3> HIDE DEF st
    <3> QED BY <2>1, <2>2
  <2> QED BY <1>7, <2>3 DEF FrozenAs
<1> QED BY <1>2, <1>5, <1>6, <1>7 DEF FrozenAs

LEMMA FrozenAtClose ==
  ASSUME TypeInv, TypeInv', Kept, NEW m \in Months, Close(m), \A k \in Closed : FrozenAs(k)'
  PROVE  FrozenAs(m)'
<1>1. PICK closes \in {frozen} :
        frozen' = [k \in DOMAIN closes \cup {m} |->
                     IF k = m THEN Statement(History(closes), m)' ELSE closes[k]]
  BY DEF Close
<1>2. m < month /\ m \notin DOMAIN frozen /\ UNCHANGED <<month, start, categories>>
  BY DEF Close, Closed, facts
<1>3. Known' = Known /\ Listed(m)' = Listed(m) /\ \A k : Started(k)' = Started(k)
  BY <1>2 DEF Listed, Known, Started
<1>4. closes = frozen /\ frozen'[m] = Statement(History(closes), m)'
      /\ \A k \in DOMAIN closes : frozen'[k] = closes[k]
  BY <1>1, <1>2
<1>5. month' \in Nat /\ m \in 0..month'
  BY <1>2 DEF TypeInv, FactsType, CalendarType, Months
<1>6. Fits(closes)'
  <2>1. DOMAIN closes \subseteq 1..month' /\ \A k \in DOMAIN closes : 1..k \subseteq DOMAIN closes
    <3>1. Closed \subseteq 1..(month - 1) /\ month \in Nat /\ \A k \in Closed : 1..k \subseteq Closed
      BY DEF TypeInv, FactsType, CalendarType, Months
    <3> QED BY <1>2, <1>4, <3>1 DEF Closed
  <2>2. ASSUME NEW k \in DOMAIN closes
        PROVE  /\ \A c \in DOMAIN closes[k].balances : Replayed'[k][c] = closes[k].balances[c]
               /\ \A c \in Known' \ DOMAIN closes[k].balances : c # Unallocated => Replayed'[k][c] = 0
               /\ Unallocated \in DOMAIN closes[k].balances <=> Started(k)'
               /\ \A i \in DOMAIN closes : i <= k => DOMAIN closes[i].balances \subseteq DOMAIN closes[k].balances
    <3>1. FrozenAs(k)' /\ frozen'[k] = closes[k]
      BY <1>4, <2>2 DEF Closed
    <3>2. /\ Unallocated \in DOMAIN closes[k].balances <=> Started(k)
          /\ \A i \in DOMAIN closes : i <= k => DOMAIN closes[i].balances \subseteq DOMAIN closes[k].balances
      BY <1>4, <2>2 DEF TypeInv, IsSnapshots
    <3> QED BY <1>3, <3>1, <3>2 DEF FrozenAs
  <2> QED BY <2>1, <2>2 DEF Fits
<1>7. \A c \in Known' : History(closes)'[m][c] = Replayed'[m][c]
  BY <1>5, <1>6, ReadOrReplayedNext
<1>8. Listed(m) \subseteq Known'
  BY <1>3 DEF Listed
<1>9. Restrict(History(closes)[m], Listed(m))' = Restrict(Replayed[m], Listed(m))'
  BY <1>3, <1>7, <1>8 DEF Restrict
<1> DEFINE st == Restrict(History(closes)[m], Listed(m))
<1>10. /\ frozen'[m].balances = st'
       /\ frozen'[m].coverage = IF Started(m)' THEN {Coverage(m, st)'} ELSE {}
  BY <1>4 DEF Statement
<1>11. DOMAIN st' = Listed(m) /\ \A c \in Listed(m) : st'[c] = Replayed'[m][c]
  BY <1>3, <1>7, <1>8 DEF Restrict
<1>12. st' = Restrict(Replayed[m], Listed(m))'
  BY <1>9
<1> HIDE DEF st
<1>13. \A c \in DOMAIN frozen'[m].balances : Replayed'[m][c] = frozen'[m].balances[c]
  BY <1>10, <1>11
<1>14. \A c \in Known' \ DOMAIN frozen'[m].balances : c # Unallocated => Replayed'[m][c] = 0
  BY <1>3, <1>10, <1>11 DEF Listed
<1>15. Restrict(Replayed[m], DOMAIN frozen[m].balances)' = st'
  BY <1>3, <1>10, <1>11, <1>12 DEF Restrict
<1>16. frozen'[m].coverage # {} => frozen'[m].coverage = {Coverage(m, Restrict(Replayed[m], DOMAIN frozen[m].balances))'}
  <2>1. Coverage(m, Restrict(Replayed[m], DOMAIN frozen[m].balances))' = Coverage(m, st)'
    BY <1>15 DEF Coverage
  <2> QED BY <1>10, <2>1
<1> QED BY <1>13, <1>14, <1>16 DEF FrozenAs

LEMMA FrozenStep == TypeInv /\ TypeInv' /\ FrozenInv /\ [Next]_vars => FrozenInv'
<1> SUFFICES ASSUME TypeInv, TypeInv', FrozenInv, [Next]_vars, NEW m \in Closed'
             PROVE  FrozenAs(m)'
  BY DEF FrozenInv
<1>1. Kept
  BY StepKeeps
<1>2. \A k \in Closed : FrozenAs(k)'
  BY <1>1, FrozenKept DEF FrozenInv
<1>3. CASE m \in Closed
  BY <1>2, <1>3
<1>4. CASE m \notin Closed
  BY <1>1, <1>2, <1>4, OnlyClose, FrozenAtClose
<1> QED BY <1>3, <1>4

\* Each snapshot says what a computation from the opening gives, by the months before it.
THEOREM FrozenKeptRight == Spec => []FrozenInv
<1>1. Init => FrozenInv
  BY DEF Init, FrozenInv, Closed, Empty
<1>2. TypeInv /\ TypeInv' /\ FrozenInv /\ [Next]_vars => FrozenInv'
  BY FrozenStep
<1> QED BY <1>1, <1>2, TypesKept, PTL DEF Spec

\* A frozen statement is what every month computed again from the opening gives.
THEOREM FrozenStayRight == Spec => []FrozenAgree
<1>1. FrozenInv => FrozenAgree
  BY DEF FrozenInv, FrozenAs, FrozenAgree, Replayed
<1> QED BY <1>1, FrozenKeptRight, PTL

----------------------------------------------------------------------------
(* What the facts ask for in the months that are open. *)

\* Every month of the plan has its movements brought up to date.
PlanAgrees == \A m \in DOMAIN plan : Agree(m)

\* A month that is still to come, or that has come and is not yet in the plan, has neither
\* entries nor corrections: whatever adds one materialises its month.
Waits(m) == EntriesOf(m) = {} /\ \A b \in Buckets : corrections[m][b] = 0

WaitingInv == \A m \in Months : m > month \/ (Started(m) /\ m \notin DOMAIN plan) => Waits(m)

\* An expectation is completed in a month of the plan.
CompletedInv == \A k \in DOMAIN plan : plan[k].completed \subseteq DOMAIN plan

OpenInv == PlanAgrees /\ WaitingInv /\ CompletedInv

\* What Wanted reads, but for allocations, stays as it is.
SameFacts ==
  /\ UNCHANGED <<start, categories, txns, receipts, corrections>> /\ month <= month'
  /\ DOMAIN plan \subseteq DOMAIN plan' /\ \A k \in DOMAIN plan : plan'[k] = plan[k]

LEMMA SameMatched ==
  ASSUME TypeInv, TypeInv', SameFacts, NEW k
  PROVE  MatchedReceipts(k, month)' = MatchedReceipts(k, month)
<1>1. month \in Int /\ month' \in Int /\ month <= month'
  BY DEF TypeInv, FactsType, CalendarType, Months, SameFacts
<1>2. \A t \in DOMAIN txns : txns[t].month <= month /\ txns[t].month <= month'
  <2>1. \A t \in DOMAIN txns : txns[t].month <= month /\ txns[t].month \in Int
    BY DEF TypeInv, FactsType, EntriesType, Entries, Months
  <2> QED BY <1>1, <2>1
<1>3. txns' = txns /\ receipts' = receipts
  BY DEF SameFacts
<1> QED BY <1>2, <1>3 DEF MatchedReceipts

LEMMA SameExcess ==
  ASSUME TypeInv, TypeInv', SameFacts, NEW k \in DOMAIN plan, NEW m
  PROVE  Excess(k, m)' = Excess(k, m)
<1>1. MatchedReceipts(k, month)' = MatchedReceipts(k, month)
  BY SameMatched
<1>2. plan'[k] = plan[k] /\ txns' = txns /\ receipts' = receipts
  BY DEF SameFacts
<1>3. \A R : ReceivedAmount(k, R)' = ReceivedAmount(k, R)
  BY <1>2 DEF ReceivedAmount, Native
<1>4. \A t : Earlier(t, MatchedReceipts(k, month))' = Earlier(t, MatchedReceipts(k, month))
  BY <1>1, <1>2 DEF Earlier
<1>5. \A t : CoveredBy(k, t)' = CoveredBy(k, t)
  BY <1>1, <1>2, <1>3, <1>4 DEF CoveredBy, FundingPortion
<1> QED BY <1>1, <1>2, <1>5 DEF Excess

LEMMA SameWanted ==
  ASSUME TypeInv, TypeInv', SameFacts, NEW m \in DOMAIN plan, NEW key \in MovementKeys(m),
         \A c \in categories : Allocation(c, m)' = Allocation(c, m)
  PROVE  Wanted(m, key)' = Wanted(m, key)
<1>1. /\ txns' = txns /\ receipts' = receipts /\ corrections' = corrections /\ categories' = categories
      /\ \A k \in DOMAIN plan : k \in DOMAIN plan' /\ plan'[k] = plan[k]
  BY DEF SameFacts
<1>2. /\ EntriesOf(m)' = EntriesOf(m)
      /\ \A t : (Spends(t)' <=> Spends(t)) /\ (Unplanned(t)' <=> Unplanned(t))
  BY <1>1 DEF EntriesOf, Spends, Unplanned, Treatment
<1>3. CASE key \in {<<Unallocated, "funding", m>>}
  BY <1>1, <1>3 DEF Wanted
<1>4. CASE key \in {<<c, kind, m>> : c \in Known, kind \in {"allocation", "correction"}}
  <2>1. PICK c \in Known : key = <<c, "allocation", m>> \/ key = <<c, "correction", m>>
    BY <1>4
  <2>2. c = Unallocated \/ c \in categories
    BY DEF Known
  <2>3. CASE key = <<c, "allocation", m>>
    <3>1. /\ Wanted(m, key) = IF c = Unallocated THEN -TotalAllocation(m) ELSE Allocation(c, m)
          /\ Wanted(m, key)' = IF c = Unallocated THEN -TotalAllocation(m)' ELSE Allocation(c, m)'
      BY <2>3 DEF Wanted
    <3>2. TotalAllocation(m)' = TotalAllocation(m)
      BY <1>1 DEF TotalAllocation
    <3> QED BY <2>2, <3>1, <3>2
  <2>4. CASE key = <<c, "correction", m>>
    BY <1>1, <2>4 DEF Wanted
  <2> QED BY <2>1, <2>3, <2>4
<1>5. CASE key \in {<<c, kind, t>> : c \in Known, kind \in {"spending", "reallocation"}, t \in TxnIds}
  <2>1. PICK c \in Known, t \in TxnIds : key = <<c, "spending", t>> \/ key = <<c, "reallocation", t>>
    BY <1>5
  <2>2. CASE key = <<c, "spending", t>>
    BY <1>1, <1>2, <2>2 DEF Wanted, Sides
  <2>3. CASE key = <<c, "reallocation", t>>
    BY <1>1, <1>2, <2>3 DEF Wanted, Sides
  <2> QED BY <2>1, <2>2, <2>3
<1>6. CASE key \in {<<Unallocated, "income", t>> : t \in TxnIds}
  <2>1. PICK t \in TxnIds : key = <<Unallocated, "income", t>>
    BY <1>6
  <2> QED BY <1>1, <1>2, <2>1 DEF Wanted
<1>7. CASE key \in {<<Unallocated, kind, k>> : kind \in {"excess", "settlement"}, k \in DOMAIN plan}
  <2>1. PICK k \in DOMAIN plan : key = <<Unallocated, "excess", k>> \/ key = <<Unallocated, "settlement", k>>
    BY <1>7
  <2>2. CASE key = <<Unallocated, "excess", k>>
    <3>1. Wanted(m, key) = Excess(k, m) /\ Wanted(m, key)' = Excess(k, m)'
      BY <2>2 DEF Wanted
    <3> QED BY <3>1, SameExcess
  <2>3. CASE key = <<Unallocated, "settlement", k>>
    BY <1>1, <2>3 DEF Wanted
  <2> QED BY <2>1, <2>2, <2>3
<1> QED BY <1>3, <1>4, <1>5, <1>6, <1>7 DEF MovementKeys

\* A step that changes neither the movements nor the plan.
LEMMA SameAgree ==
  ASSUME TypeInv, TypeInv', SameFacts, ledger' = ledger, plan' = plan, NEW m \in DOMAIN plan, Agree(m),
         \A c \in categories : Allocation(c, m)' = Allocation(c, m)
  PROVE  Agree(m)'
<1>1. m \in Months /\ DOMAIN ledger[m] \subseteq MovementKeys(m)
  BY DEF TypeInv, FactsType, PlanType, IsTable, LedgerType
<1>2. \A key \in MovementKeys(m) : Wanted(m, key)' = Wanted(m, key)
  BY SameWanted
<1>3. Sources(m)' = Sources(m)
  BY DEF Sources, SameFacts, EntriesOf, Known
<1>4. Sources(m) \subseteq MovementKeys(m)
  BY SourcesAreKeys
<1>5. \A key \in DOMAIN ledger'[m] : ledger'[m][key] = Wanted(m, key)'
  BY <1>1, <1>2 DEF Agree
<1>6. \A key \in Sources(m)' \ DOMAIN ledger'[m] : Wanted(m, key)' = 0
  BY <1>2, <1>3, <1>4 DEF Agree
<1> QED BY <1>5, <1>6 DEF Agree

\* A step that brings the movements up to date.
LEMMA SyncAgrees ==
  ASSUME TypeInv, TypeInv', Kept, Sync, month' = month, NEW m \in DOMAIN plan',
         m \in Closed => Started(m) /\ Agree(m)
  PROVE  Agree(m)'
<1>1. CASE m \in Closed
  BY <1>1, AgreeKept
<1>2. CASE m \notin Closed
  <2>1. m \in Months /\ m <= month /\ Started(m)'
    BY DEF TypeInv, FactsType, PlanType, IsTable
  <2>2. RequireOpen(m)
    BY <1>2, <2>1 DEF RequireOpen, FirstMonth, Months
  <2>3. ledger'[m] = Appended(m)
    BY <2>1, <2>2 DEF Sync
  <2>4. /\ DOMAIN ledger'[m] = DOMAIN ledger[m] \cup {k \in Sources(m)' : Wanted(m, k)' # 0}
        /\ \A key \in DOMAIN ledger'[m] : ledger'[m][key] = Wanted(m, key)'
    BY <2>3 DEF Appended
  <2> QED BY <2>4 DEF Agree
<1> QED BY <1>1, <1>2

\* A scheduled change that is withdrawn is one of a month to come.
LEMMA CancelAgrees ==
  ASSUME TypeInv, TypeInv', NEW c \in Categories, NEW n \in Months, CancelBudget(c, n),
         NEW m \in DOMAIN plan, Agree(m)
  PROVE  Agree(m)'
<1> DEFINE row == Restrict(periods[c], DOMAIN periods[c] \ {n})
<1>1. /\ c \in categories /\ periods' = [periods EXCEPT ![c] = row] /\ month < n
      /\ UNCHANGED <<month, start, categories, plan, txns, receipts, corrections, ledger>>
  BY DEF CancelBudget
<1>2. m \in Months /\ m <= month /\ month \in Months
  BY DEF TypeInv, FactsType, PlanType, IsTable, CalendarType
<1>3. SameFacts
  BY <1>1, <1>2 DEF SameFacts, Months
<1>4. c \in DOMAIN periods /\ IsTable(periods[c], Nat) /\ FirstMonth \in DOMAIN periods[c]
  BY <1>1 DEF TypeInv, FactsType, PlanType
<1>5. Applicable(row, m) = Applicable(periods[c], m)
  <2>1. m < n /\ FirstMonth <= m
    BY <1>1, <1>2 DEF Months, FirstMonth
  <2>2. /\ \A k : k \in DOMAIN periods[c] /\ k <= m <=> k \in DOMAIN row /\ k <= m
        /\ \A k \in DOMAIN periods[c] : k <= m => row[k] = periods[c][k]
    <3>1. \A k \in DOMAIN periods[c] : k <= m => k # n
      BY <1>2, <2>1 DEF Months
    <3>2. DOMAIN row = DOMAIN periods[c] \ {n} /\ \A k \in DOMAIN row : row[k] = periods[c][k]
      BY DEF Restrict
    <3> HIDE DEF row
    <3> QED BY <3>1, <3>2
  <2>3. DOMAIN periods[c] \subseteq Months /\ \E k \in DOMAIN periods[c] : k <= m
    BY <1>4, <2>1 DEF IsTable
  <2> HIDE DEF row
  <2> QED BY <1>2, <2>2, <2>3, ApplicableLocal
<1>6. \A d \in categories : Allocation(d, m)' = Allocation(d, m)
  <2>1. Allocation(c, m)' = Applicable(periods'[c], m) /\ periods'[c] = row
    BY <1>1, <1>4 DEF Allocation, Applicable
  <2>2. \A d \in categories : d # c => periods'[d] = periods[d]
    BY <1>1
  <2> HIDE DEF row
  <2> QED BY <1>5, <2>1, <2>2, AllocationSame DEF Allocation
<1> QED BY <1>1, <1>3, <1>6, SameAgree

LEMMA AgreeStep == TypeInv /\ TypeInv' /\ PlanAgrees /\ [Next]_vars => PlanAgrees'
<1> SUFFICES ASSUME TypeInv, TypeInv', PlanAgrees, [Next]_vars, NEW m \in DOMAIN plan'
             PROVE  Agree(m)'
  BY DEF PlanAgrees
<1>1. Kept
  BY StepKeeps
<1>2. m \in Closed => Started(m) /\ Agree(m)
  BY <1>1 DEF PlanAgrees, Kept, KeptPlan, TypeInv, FactsType, PlanType
<1>3. ASSUME Sync, month' = month PROVE Agree(m)'
  BY <1>1, <1>2, <1>3, SyncAgrees
<1>4. ASSUME UNCHANGED <<start, categories, periods, plan, txns, receipts, corrections, ledger>>, month <= month'
      PROVE  Agree(m)'
  <2>1. SameFacts /\ m \in DOMAIN plan /\ Agree(m)
    BY <1>4 DEF SameFacts, PlanAgrees
  <2>2. \A c \in categories : Allocation(c, m)' = Allocation(c, m)
    BY <1>4, AllocationSame
  <2> QED BY <1>4, <2>1, <2>2, SameAgree
<1>5. month \in Nat
  BY DEF TypeInv, FactsType, CalendarType, Months
<1>6. ASSUME NEW c \in Categories, NEW n \in Months, CancelBudget(c, n) PROVE Agree(m)'
  <2>1. m \in DOMAIN plan /\ Agree(m)
    BY <1>6 DEF CancelBudget, PlanAgrees
  <2> QED BY <1>6, <2>1, CancelAgrees
<1>7. CASE Tick
  BY <1>4, <1>5, <1>7 DEF Tick, facts
<1>8. CASE UNCHANGED vars
  BY <1>4, <1>5, <1>8 DEF vars, facts
<1>9. ASSUME NEW n \in Months, NEW delta \in Observations, Reconcile(n, delta) PROVE Agree(m)'
  BY <1>4, <1>5, <1>9 DEF Reconcile
<1>10. ASSUME NEW t \in TxnIds, NEW r \in Requests, (\E n \in Months : Create(t, r, n)) \/ Edit(t, r)
       PROVE  Agree(m)'
  BY <1>3, <1>10 DEF Create, Edit, Book
<1>11. ASSUME NEW t \in TxnIds, Delete(t) PROVE Agree(m)'
  BY <1>3, <1>11 DEF Delete
<1>12. CASE Activate \/ Read
  BY <1>3, <1>12 DEF Activate, Read
<1>13. ASSUME NEW c, NEW n, NEW amount, SaveBudget(c, n, amount) \/ CreateCategory(c, amount) PROVE Agree(m)'
  BY <1>3, <1>13 DEF SaveBudget, CreateCategory
<1>14. ASSUME NEW n, NEW money, SaveIncome(n, money) \/ Complete(n) \/ Close(n) PROVE Agree(m)'
  BY <1>3, <1>14 DEF SaveIncome, Complete, Close
<1>15. ASSUME NEW original, NEW deltas, Correct(original, deltas) PROVE Agree(m)'
  BY <1>3, <1>15 DEF Correct
<1> QED BY <1>6, <1>7, <1>8, <1>9, <1>10, <1>11, <1>12, <1>13, <1>14, <1>15 DEF Next

\* A step whose month goes on, or stays, and whose new entries and corrections are in months
\* of the plan.
LEMMA StillWaits ==
  ASSUME TypeInv, TypeInv', WaitingInv, month <= month', start' = start, DOMAIN plan \subseteq DOMAIN plan',
         \A m \in Months : m > month' \/ (Started(m) /\ m \notin DOMAIN plan') =>
           EntriesOf(m)' \subseteq EntriesOf(m) /\ corrections'[m] = corrections[m]
  PROVE  WaitingInv'
<1>1. \A m \in Months : Started(m)' <=> Started(m)
  BY DEF Started
<1>2. ASSUME NEW m \in Months, m > month' \/ (Started(m)' /\ m \notin DOMAIN plan')
      PROVE  Waits(m)'
  <2>1. m > month' => m > month
    BY DEF TypeInv, FactsType, CalendarType, Months
  <2>2. Waits(m)
    BY <1>1, <1>2, <2>1 DEF WaitingInv
  <2>3. EntriesOf(m)' \subseteq EntriesOf(m) /\ corrections'[m] = corrections[m]
    BY <1>1, <1>2
  <2> QED BY <2>2, <2>3 DEF Waits
<1> QED BY <1>2 DEF WaitingInv

LEMMA BookWaits ==
  ASSUME TypeInv, TypeInv', WaitingInv, NEW t \in TxnIds, NEW r \in Requests, NEW m \in Months, Book(t, r, m)
  PROVE  WaitingInv'
<1>1. /\ RequireOpen(m) /\ UNCHANGED <<month, start, corrections>> /\ plan' = Materialised(plan)
      /\ txns' = [u \in DOMAIN txns \cup {t} |-> IF u = t THEN Entry(r, m) ELSE txns[u]]
  BY DEF Book
<1>2. month \in Nat /\ m <= month
  BY <1>1 DEF RequireOpen, TypeInv, FactsType, CalendarType, Months
<1>3. DOMAIN plan \subseteq DOMAIN plan' /\ (Started(m) => m \in DOMAIN plan')
  BY <1>1, MaterialisedType DEF TypeInv
<1>4. ASSUME NEW k \in Months, k > month' \/ (Started(k) /\ k \notin DOMAIN plan')
      PROVE  EntriesOf(k)' \subseteq EntriesOf(k)
  <2>1. k # m
    BY <1>1, <1>2, <1>3, <1>4 DEF Months
  <2>2. txns'[t].month = m /\ \A u \in DOMAIN txns' : u # t => u \in DOMAIN txns /\ txns'[u] = txns[u]
    BY <1>1 DEF Entry
  <2> QED BY <2>1, <2>2 DEF EntriesOf
<1> QED BY <1>1, <1>2, <1>3, <1>4, StillWaits

LEMMA CorrectWaits ==
  ASSUME TypeInv, TypeInv', WaitingInv, NEW original, NEW deltas, Correct(original, deltas)
  PROVE  WaitingInv'
<1>1. /\ RequireOpen(month) /\ UNCHANGED <<month, start, txns>> /\ plan' = Materialised(plan)
      /\ \A m \in Months : m # month => corrections'[m] = corrections[m]
  BY DEF Correct, TypeInv, FactsType, CorrectionsType
<1>2. month \in Months /\ month \in Nat
  BY DEF TypeInv, FactsType, CalendarType, Months
<1>3. DOMAIN plan \subseteq DOMAIN plan' /\ (Started(month) => month \in DOMAIN plan')
  BY <1>1, <1>2, MaterialisedType DEF TypeInv
<1>4. ASSUME NEW k \in Months, k > month' \/ (Started(k) /\ k \notin DOMAIN plan')
      PROVE  EntriesOf(k)' \subseteq EntriesOf(k) /\ corrections'[k] = corrections[k]
  <2>1. k # month
    BY <1>1, <1>2, <1>3, <1>4 DEF Months
  <2> QED BY <1>1, <2>1 DEF EntriesOf
<1> QED BY <1>1, <1>2, <1>3, <1>4, StillWaits

\* No entry and no correction is of a month to come when the plan begins.
LEMMA ActivateWaits ==
  ASSUME TypeInv, TypeInv', WaitingInv, Activate
  PROVE  WaitingInv'
<1>1. UNCHANGED <<month, txns, corrections>> /\ start' = {month} /\ DOMAIN plan' = {month}
  BY DEF Activate
<1>2. ASSUME NEW m \in Months, m > month' \/ (Started(m)' /\ m \notin DOMAIN plan')
      PROVE  Waits(m)'
  <2>1. m > month
    BY <1>1, <1>2 DEF Started, TypeInv, FactsType, CalendarType, Months
  <2>2. Waits(m)
    BY <2>1 DEF WaitingInv
  <2> QED BY <1>1, <2>2 DEF Waits, EntriesOf
<1> QED BY <1>2 DEF WaitingInv

LEMMA WaitingStep == TypeInv /\ TypeInv' /\ WaitingInv /\ [Next]_vars => WaitingInv'
<1> SUFFICES ASSUME TypeInv, TypeInv', WaitingInv, [Next]_vars PROVE WaitingInv'
  OBVIOUS
<1>1. DOMAIN plan \subseteq DOMAIN plan'
  BY StepKeeps DEF Kept, KeptPlan
<1>2. month \in Nat
  BY DEF TypeInv, FactsType, CalendarType, Months
<1>3. ASSUME UNCHANGED <<start, txns, corrections>>, month <= month'
      PROVE  WaitingInv'
  <2>1. \A m : EntriesOf(m)' = EntriesOf(m)
    BY <1>3 DEF EntriesOf
  <2> QED BY <1>1, <1>3, <2>1, StillWaits
<1>4. ASSUME NEW t \in TxnIds, NEW r \in Requests, NEW m \in Months, Create(t, r, m) PROVE WaitingInv'
  BY <1>4, BookWaits DEF Create
<1>5. ASSUME NEW t \in TxnIds, NEW r \in Requests, Edit(t, r) PROVE WaitingInv'
  <2>1. txns[t].month \in Months
    BY <1>5 DEF Edit, TypeInv, FactsType, EntriesType, Entries
  <2> QED BY <1>5, <2>1, BookWaits DEF Edit
<1>6. ASSUME NEW t \in TxnIds, Delete(t) PROVE WaitingInv'
  <2>1. UNCHANGED <<month, start, corrections>> /\ txns' = Restrict(txns, DOMAIN txns \ {t})
    BY <1>6 DEF Delete
  <2>2. \A m : EntriesOf(m)' \subseteq EntriesOf(m)
    BY <2>1 DEF EntriesOf, Restrict
  <2> QED BY <1>1, <1>2, <2>1, <2>2, StillWaits
<1>7. CASE Activate
  BY <1>7, ActivateWaits
<1>8. ASSUME NEW original, NEW deltas, Correct(original, deltas) PROVE WaitingInv'
  BY <1>8, CorrectWaits
<1>9. ASSUME NEW n \in Months, NEW delta \in Observations, Reconcile(n, delta) PROVE WaitingInv'
  BY <1>2, <1>3, <1>9 DEF Reconcile
<1>10. CASE Read \/ Tick
  BY <1>2, <1>3, <1>10 DEF Read, Tick, facts
<1>11. ASSUME NEW c, NEW n, NEW amount, SaveBudget(c, n, amount) \/ CancelBudget(c, n) \/ CreateCategory(c, amount)
       PROVE  WaitingInv'
  BY <1>2, <1>3, <1>11 DEF SaveBudget, CancelBudget, CreateCategory
<1>12. ASSUME NEW n, NEW money, SaveIncome(n, money) \/ Complete(n) \/ Close(n) PROVE WaitingInv'
  BY <1>2, <1>3, <1>12 DEF SaveIncome, Complete, Close, facts
<1>13. CASE UNCHANGED vars
  BY <1>2, <1>3, <1>13 DEF vars, facts
<1> QED BY <1>4, <1>5, <1>6, <1>7, <1>8, <1>9, <1>10, <1>11, <1>12, <1>13 DEF Next

\* Whatever changes the plan brings the current month into it.
LEMMA PlanReached ==
  ASSUME TypeInv, TypeInv', [Next]_vars
  PROVE  plan' = plan \/ month \in DOMAIN plan' \/ DOMAIN plan' = {}
<1>1. plan' = plan \/ DOMAIN plan' = DOMAIN Materialised(plan) \/ month \in DOMAIN plan'
  <2>1. ASSUME NEW m, NEW money, SaveIncome(m, money) PROVE DOMAIN plan' = DOMAIN Materialised(plan)
    BY <2>1 DEF SaveIncome
  <2>2. ASSUME NEW k, Complete(k) PROVE DOMAIN plan' = DOMAIN Materialised(plan)
    BY <2>2 DEF Complete
  <2>3. CASE Activate
    BY <2>3 DEF Activate
  <2> QED BY <2>1, <2>2, <2>3 DEF Next, vars, Create, Edit, Book, Delete, Reconcile, Read, SaveBudget,
             CancelBudget, CreateCategory, Correct, Close, Tick
<1>2. month \in Months /\ RequireOpen(month)
  BY DEF TypeInv, FactsType, CalendarType, Months, RequireOpen, FirstMonth
<1>3. Started(month) => month \in DOMAIN Materialised(plan)
  BY <1>2, MaterialisedType DEF TypeInv
<1>4. ~Started(month) => DOMAIN Materialised(plan) = {}
  <2>1. \A s \in start : s <= month
    BY DEF TypeInv, FactsType, CalendarType
  <2>2. ~Started(month) => \A k : ~Started(k)
    BY <2>1 DEF Started
  <2> QED BY <2>2, MaterialisedType DEF TypeInv
<1> QED BY <1>1, <1>3, <1>4

LEMMA CompletedStep == TypeInv /\ TypeInv' /\ CompletedInv /\ [Next]_vars => CompletedInv'
<1> SUFFICES ASSUME TypeInv, TypeInv', CompletedInv, [Next]_vars, NEW k \in DOMAIN plan'
             PROVE  plan'[k].completed \subseteq DOMAIN plan'
  BY DEF CompletedInv
<1>1. /\ DOMAIN plan \subseteq DOMAIN plan'
      /\ k \in DOMAIN plan => plan'[k].completed = plan[k].completed \/ plan'[k].completed \subseteq {month}
      /\ k \notin DOMAIN plan => plan'[k].completed \subseteq {month}
  BY StepKeeps DEF Kept, KeptPlan
<1>2. CASE plan' = plan
  BY <1>2 DEF CompletedInv
<1>3. CASE month \in DOMAIN plan'
  BY <1>1, <1>3 DEF CompletedInv
<1> QED BY <1>2, <1>3, PlanReached

\* The months of the plan are brought up to date, and what is not in the plan has nothing to
\* bring up to date, whatever was accepted.
THEOREM OpenBooksKept == Spec => []OpenInv
<1>1. Init => OpenInv
  <2> SUFFICES ASSUME Init PROVE OpenInv
    OBVIOUS
  <2>1. DOMAIN plan = {} /\ DOMAIN txns = {}
    BY DEF Init, Empty
  <2>2. \A m \in Months : Waits(m)
    BY <2>1 DEF Init, Waits, EntriesOf
  <2> QED BY <2>1, <2>2 DEF OpenInv, PlanAgrees, WaitingInv, CompletedInv
<1>2. TypeInv /\ TypeInv' /\ OpenInv /\ [Next]_vars => OpenInv'
  BY AgreeStep, WaitingStep, CompletedStep DEF OpenInv
<1> QED BY <1>1, <1>2, TypesKept, PTL DEF Spec

----------------------------------------------------------------------------
(* A month that has just been materialised. *)

\* Its movements are exactly what its facts ask for.
Exactly(m) ==
  /\ m \in DOMAIN plan /\ DOMAIN ledger[m] = {key \in Sources(m) : Wanted(m, key) # 0}
  /\ \A key \in DOMAIN ledger[m] : ledger[m][key] = Wanted(m, key)

LEMMA SyncExactly ==
  ASSUME TypeInv, TypeInv', Sync, month' = month, NEW m \in DOMAIN plan' \ DOMAIN plan, m \notin Closed
  PROVE  Exactly(m)'
<1>1. m \in Months /\ m <= month /\ Started(m)'
  BY DEF TypeInv, FactsType, PlanType, IsTable
<1>2. RequireOpen(m)
  BY <1>1 DEF RequireOpen, FirstMonth, Months
<1>3. ledger'[m] = Appended(m) /\ DOMAIN ledger[m] = {}
  BY <1>1, <1>2 DEF Sync, TypeInv, LedgerType
<1>4. /\ DOMAIN ledger'[m] = {key \in Sources(m)' : Wanted(m, key)' # 0}
      /\ \A key \in DOMAIN ledger'[m] : ledger'[m][key] = Wanted(m, key)'
  BY <1>3 DEF Appended
<1> QED BY <1>4 DEF Exactly

SourcesOf(b, kinds, m) == {key \in Sources(m) : key[1] = b /\ key[2] \in kinds}

Asked(b, kinds, m) == SumFunction([key \in SourcesOf(b, kinds, m) |-> Wanted(m, key)])

\* So its movements add up to what is asked for.
LEMMA MovedExactly ==
  TypeInv =>
    \A m \in DOMAIN plan : Exactly(m) => \A b, kinds : Moved(b, kinds, m) = Asked(b, kinds, m)
<1> SUFFICES ASSUME TypeInv, NEW m \in DOMAIN plan, Exactly(m), NEW b, NEW kinds
             PROVE  Moved(b, kinds, m) = Asked(b, kinds, m)
  OBVIOUS
<1> DEFINE S == {key \in DOMAIN ledger[m] : key[1] = b /\ key[2] \in kinds}
           T == SourcesOf(b, kinds, m)
           f == [key \in S |-> ledger[m][key]]
           g == [key \in T |-> Wanted(m, key)]
<1>1. IsFiniteSet(T) /\ T \subseteq MovementKeys(m)
  <2>1. IsFiniteSet(MovementKeys(m)) /\ Sources(m) \subseteq MovementKeys(m)
    BY MovementsFinite, SourcesAreKeys DEF TypeInv, FactsType, PlanType, IsTable
  <2>2. T \subseteq Sources(m)
    BY DEF SourcesOf
  <2> HIDE DEF T
  <2> QED BY <2>1, <2>2, FS_Subset
<1>2. S \subseteq T /\ \A key \in T \ S : Wanted(m, key) = 0
  BY DEF Exactly, SourcesOf
<1>3. \A key \in S : ledger[m][key] = Wanted(m, key)
  BY DEF Exactly
<1>4. \A key \in T : Wanted(m, key) \in Int
  BY <1>1, WantedType DEF TypeInv
<1>5. SumFunction(g) = SumFunction(f)
  <2>1. IsFiniteSet(DOMAIN g) /\ DOMAIN f \subseteq DOMAIN g
    BY <1>1, <1>2
  <2>2. \A x \in DOMAIN f : g[x] = f[x] /\ f[x] \in Int
    BY <1>2, <1>3, <1>4
  <2>3. \A x \in DOMAIN g \ DOMAIN f : g[x] = 0
    BY <1>2
  <2> HIDE DEF f, g
  <2> QED BY <2>1, <2>2, <2>3, SumExtend
<1>6. SumFunction(f) = SumFunctionOnSet(ledger[m], S)
  <2>1. IsFiniteSet(S) /\ DOMAIN f = S /\ \A x \in S : f[x] = ledger[m][x]
    BY <1>1, <1>2, FS_Subset
  <2> HIDE DEF f, S
  <2> QED BY <2>1, SumIsOnDomain, SumAgree
<1> HIDE DEF T, f
<1> QED BY <1>5, <1>6 DEF Moved, Asked, T

\* What a month allocates.
LEMMA AskedAllocation ==
  ASSUME TypeInv, NEW m \in DOMAIN plan, NEW c \in Known
  PROVE  Asked(c, {"allocation"}, m) = IF c = Unallocated THEN -TotalAllocation(m) ELSE Allocation(c, m)
<1> DEFINE key == <<c, "allocation", m>>
           g == [k \in {key} |-> Wanted(m, k)]
<1>1. SourcesOf(c, {"allocation"}, m) = {key}
  BY DEF SourcesOf, Sources
<1>2. Wanted(m, key) = IF c = Unallocated THEN -TotalAllocation(m) ELSE Allocation(c, m)
  BY DEF Wanted
<1>3. key \in MovementKeys(m)
  BY DEF MovementKeys
<1>4. Wanted(m, key) \in Int
  BY <1>3, WantedType DEF TypeInv
<1>5. DOMAIN g = {key} /\ g[key] = Wanted(m, key)
  OBVIOUS
<1>6. SumFunction(g) = Wanted(m, key)
  <2> HIDE DEF g, key
  <2> QED BY <1>4, <1>5, SumIsOnDomain, SumSingle
<1>7. Asked(c, {"allocation"}, m) = SumFunction(g)
  BY <1>1 DEF Asked
<1> HIDE DEF g, key
<1> QED BY <1>2, <1>6, <1>7

\* What it leaves of the month's income.
LEMMA AskedFunding ==
  ASSUME TypeInv, NEW m \in DOMAIN plan
  PROVE  Asked(Unallocated, {"funding", "allocation"}, m) = plan[m].eur - TotalAllocation(m)
<1> DEFINE a == <<Unallocated, "funding", m>>
           b == <<Unallocated, "allocation", m>>
           g == [k \in {a, b} |-> Wanted(m, k)]
<1>1. Unallocated \in Known /\ Unallocated \notin categories
  BY DEF Known, TypeInv, FactsType, PlanType, Started, ConstantsAssumption
<1>2. SourcesOf(Unallocated, {"funding", "allocation"}, m) = {a, b}
  BY <1>1 DEF SourcesOf, Sources
<1>3. Wanted(m, a) = plan[m].eur /\ Wanted(m, b) = -TotalAllocation(m)
  BY DEF Wanted
<1>4. a \in MovementKeys(m) /\ b \in MovementKeys(m) /\ a # b
  BY <1>1 DEF MovementKeys
<1>5. Wanted(m, a) \in Int /\ Wanted(m, b) \in Int
  BY <1>4, WantedType DEF TypeInv
<1>6. DOMAIN g = {a, b} /\ g[a] = Wanted(m, a) /\ g[b] = Wanted(m, b)
  OBVIOUS
<1>7. SumFunction(g) = Wanted(m, a) + Wanted(m, b)
  <2> HIDE DEF g, a, b
  <2>1. IsFiniteSet({a, b}) /\ {a, b} \ {a} = {b}
    <3>1. IsFiniteSet({a}) /\ IsFiniteSet({b}) /\ {a, b} = {a} \cup {b}
      BY FS_Singleton
    <3>2. IsFiniteSet({a} \cup {b})
      BY <3>1, FS_Union
    <3> QED BY <1>4, <3>1, <3>2
  <2>2. SumFunctionOnSet(g, {a, b}) = g[a] + SumFunctionOnSet(g, {a, b} \ {a})
    BY <1>5, <1>6, <2>1, SumRemove
  <2> QED BY <1>5, <1>6, <2>1, <2>2, SumIsOnDomain, SumSingle
<1>8. Asked(Unallocated, {"funding", "allocation"}, m) = SumFunction(g)
  BY <1>2 DEF Asked
<1>9. TotalAllocation(m) \in Int /\ plan[m].eur \in Int
  BY TotalAllocationType DEF TypeInv, FactsType, PlanType, IsTable, Instances
<1> HIDE DEF g, a, b
<1> QED BY <1>3, <1>7, <1>8, <1>9

\* A month with neither entries nor corrections asks for nothing else.
LEMMA AskedNothing ==
  ASSUME TypeInv, NEW m \in DOMAIN plan, Waits(m), \A k \in DOMAIN plan : plan[k].completed # {m},
         NEW b, NEW kinds, kinds \cap {"funding", "allocation"} = {}
  PROVE  Asked(b, kinds, m) = 0
<1> DEFINE T == SourcesOf(b, kinds, m)
           g == [k \in T |-> Wanted(m, k)]
<1>1. EntriesOf(m) = {} /\ \A c \in Buckets : corrections[m][c] = 0
  BY DEF Waits
<1>2. \A k : Excess(k, m) = 0
  <2> TAKE k
  <2>1. {u \in MatchedReceipts(k, month) : txns[u].month = m /\ receipts[u].treatment # "legacy"} = {}
    BY <1>1 DEF EntriesOf, MatchedReceipts
  <2> DEFINE h == [t \in {} |-> txns[t].eur - CoveredBy(k, t)]
  <2>2. Excess(k, m) = SumFunction(h)
    BY <2>1 DEF Excess
  <2>3. DOMAIN h = {}
    OBVIOUS
  <2> HIDE DEF h
  <2> QED BY <2>2, <2>3, SumIsOnDomain, SumEmpty
<1>3. ASSUME NEW key \in T PROVE Wanted(m, key) = 0
  <2>1. key \in Sources(m) /\ key[2] \in kinds
    BY DEF SourcesOf
  <2> HIDE DEF T
  <2>2. CASE \E c \in Known : key = <<c, "correction", m>>
    <3>1. PICK c \in Known : key = <<c, "correction", m>>
      BY <2>2
    <3>2. Wanted(m, key) = -corrections[m][c]
      BY <3>1 DEF Wanted
    <3>3. corrections[m][c] = 0
      BY <1>1, KnownBuckets DEF TypeInv
    <3>4. \A x \in Int : -x = 0 - x
      OBVIOUS
    <3>5. corrections[m][c] \in Int /\ 0 - corrections[m][c] = 0
      BY <3>3
    <3>6. -corrections[m][c] = 0
      BY <3>4, <3>5, Zenon
    <3> QED BY <3>2, <3>6, Zenon
  <2>3. CASE \E k \in DOMAIN plan : key = <<Unallocated, "excess", k>>
    <3>1. PICK k \in DOMAIN plan : key = <<Unallocated, "excess", k>>
      BY <2>3
    <3> QED BY <1>2, <3>1 DEF Wanted
  <2>4. CASE \E k \in DOMAIN plan : key = <<Unallocated, "settlement", k>>
    <3>1. PICK k \in DOMAIN plan : key = <<Unallocated, "settlement", k>>
      BY <2>4
    <3> QED BY <3>1 DEF Wanted
  <2>5. \/ \E c \in Known : key = <<c, "correction", m>>
        \/ \E k \in DOMAIN plan : key = <<Unallocated, "excess", k>> \/ key = <<Unallocated, "settlement", k>>
    BY <1>1, <2>1 DEF Sources
  <2> QED BY <2>2, <2>3, <2>4, <2>5
<1>4. IsFiniteSet(T)
  <2>1. IsFiniteSet(MovementKeys(m)) /\ Sources(m) \subseteq MovementKeys(m)
    BY MovementsFinite, SourcesAreKeys DEF TypeInv, FactsType, PlanType, IsTable
  <2>2. T \subseteq Sources(m)
    BY DEF SourcesOf
  <2> HIDE DEF T
  <2> QED BY <2>1, <2>2, FS_Subset
<1>5. DOMAIN g = T /\ \A key \in T : g[key] = 0
  BY <1>3
<1>6. SumFunction(g) = 0
  <2> HIDE DEF g, T
  <2> QED BY <1>4, <1>5, SumIsOnDomain, SumZero
<1> QED BY <1>6 DEF Asked

----------------------------------------------------------------------------
(* What the entries of a month did is what their movements say. *)

Posted(c, T) == {<<c, kind, t>> : kind \in {"spending", "reallocation"}, t \in T}

LEMMA PostedFinite ==
  ASSUME NEW c, NEW T, IsFiniteSet(T)
  PROVE  IsFiniteSet(Posted(c, T))
<1> DEFINE f == [t \in T |-> <<c, "spending", t>>]
           g == [t \in T |-> <<c, "reallocation", t>>]
           F == {f[t] : t \in T}
           G == {g[t] : t \in T}
<1>1. IsFiniteSet(F) /\ IsFiniteSet(G)
  <2>1. IsFiniteSet({f[t] : t \in DOMAIN f}) /\ IsFiniteSet({g[t] : t \in DOMAIN g})
    <3>1. DOMAIN f = T /\ DOMAIN g = T
      OBVIOUS
    <3>2. f \in Surjection(T, F) /\ g \in Surjection(T, G)
      BY DEF Surjection
    <3> HIDE DEF f, g
    <3> QED BY <3>1, <3>2, FS_Surjection
  <2> QED BY <2>1
<1>2. Posted(c, T) = F \cup G
  BY DEF Posted
<1> HIDE DEF F, G
<1>3. IsFiniteSet(F \cup G)
  BY <1>1, FS_Union
<1> QED BY <1>2, <1>3

\* Each entry has one movement of each kind, which together do what the entry did.
LEMMA SumPosted ==
  ASSUME NEW c, NEW E, IsFiniteSet(E), NEW w, NEW f,
         \A key \in Posted(c, E) : w[key] \in Int,
         \A t \in E : f[t] = w[<<c, "spending", t>>] + w[<<c, "reallocation", t>>]
  PROVE  SumFunctionOnSet(w, Posted(c, E)) = SumFunctionOnSet(f, E)
<1> DEFINE F == {T \in SUBSET E : SumFunctionOnSet(w, Posted(c, T)) # SumFunctionOnSet(f, T)}
<1> SUFFICES ASSUME F # {} PROVE FALSE
  OBVIOUS
<1>1. \A T \in F : IsFiniteSet(T)
  BY FS_Subset
<1>2. PICK T \in F : \A U \in F : Cardinality(T) <= Cardinality(U)
  <2> HIDE DEF F
  <2> QED BY <1>1, SmallestSet
<1>3. T # {}
  <2>1. Posted(c, {}) = {}
    BY DEF Posted
  <2> QED BY <2>1, SumEmpty
<1>4. PICK t \in T : TRUE
  BY <1>3
<1> DEFINE U == T \ {t}
           a == <<c, "spending", t>>
           b == <<c, "reallocation", t>>
<1>5. /\ IsFiniteSet(T) /\ Cardinality(T) \in Nat /\ Cardinality(U) \in Nat
      /\ Cardinality(U) + 1 = Cardinality(T)
  BY <1>1, SmallerWithout
<1>6. U \subseteq E /\ U \notin F
  <2>1. U \subseteq E
    OBVIOUS
  <2>2. U \notin F
    <3> HIDE DEF F, U
    <3> QED BY <1>2, <1>5
  <2> QED BY <2>1, <2>2
<1>7. SumFunctionOnSet(w, Posted(c, U)) = SumFunctionOnSet(f, U)
  BY <1>6
<1>8. /\ Posted(c, T) \ {a} = Posted(c, U) \cup {b} /\ (Posted(c, U) \cup {b}) \ {b} = Posted(c, U)
      /\ a \in Posted(c, T)
  <2>1. Posted(c, T) = Posted(c, U) \cup {a, b}
    <3>1. ASSUME NEW key \in Posted(c, T) PROVE key \in Posted(c, U) \cup {a, b}
      <4>1. PICK u \in T : key = <<c, "spending", u>> \/ key = <<c, "reallocation", u>>
        BY DEF Posted
      <4> QED BY <4>1 DEF Posted
    <3>2. a \in Posted(c, T) /\ b \in Posted(c, T) /\ Posted(c, U) \subseteq Posted(c, T)
      BY DEF Posted
    <3> HIDE DEF a, b, U
    <3> QED BY <3>1, <3>2
  <2>2. a \notin Posted(c, U) /\ b \notin Posted(c, U) /\ a # b
    BY DEF Posted
  <2> HIDE DEF a, b, U
  <2> QED BY <2>1, <2>2
<1>9. /\ IsFiniteSet(Posted(c, T)) /\ IsFiniteSet(Posted(c, U) \cup {b})
      /\ \A key \in Posted(c, T) : w[key] \in Int
  <2>1. Posted(c, T) \subseteq Posted(c, E)
    BY DEF Posted
  <2>2. IsFiniteSet(Posted(c, T)) /\ Posted(c, U) \cup {b} \subseteq Posted(c, T)
    <3>1. IsFiniteSet(Posted(c, T))
      BY <1>5, PostedFinite
    <3> HIDE DEF U, a, b
    <3> QED BY <1>8, <3>1
  <2> HIDE DEF U, a, b
  <2> QED BY <2>1, <2>2, FS_Subset
<1>10. SumFunctionOnSet(w, Posted(c, T)) = w[a] + SumFunctionOnSet(w, Posted(c, U) \cup {b})
  <2> HIDE DEF U, a, b
  <2>1. SumFunctionOnSet(w, Posted(c, T)) = w[a] + SumFunctionOnSet(w, Posted(c, T) \ {a})
    BY <1>8, <1>9, SumRemove
  <2> QED BY <1>8, <2>1
<1>11. SumFunctionOnSet(w, Posted(c, U) \cup {b}) = w[b] + SumFunctionOnSet(w, Posted(c, U))
  <2> HIDE DEF U, a, b
  <2>1. \A key \in Posted(c, U) \cup {b} : w[key] \in Int
    BY <1>8, <1>9
  <2>2. SumFunctionOnSet(w, Posted(c, U) \cup {b}) =
          w[b] + SumFunctionOnSet(w, (Posted(c, U) \cup {b}) \ {b})
    BY <1>9, <2>1, SumRemove
  <2> QED BY <1>8, <2>2
<1>12. w[a] \in Int /\ w[b] \in Int
  <2>1. a \in Posted(c, T) /\ b \in Posted(c, T)
    BY DEF Posted
  <2> HIDE DEF a, b
  <2> QED BY <1>9, <2>1
<1>13. \A x \in T : f[x] \in Int
  <2> TAKE x \in T
  <2>1. <<c, "spending", x>> \in Posted(c, E) /\ <<c, "reallocation", x>> \in Posted(c, E)
    BY DEF Posted
  <2>2. w[<<c, "spending", x>>] \in Int /\ w[<<c, "reallocation", x>>] \in Int
    BY <2>1
  <2> QED BY <2>2
<1>14. SumFunctionOnSet(f, T) = f[t] + SumFunctionOnSet(f, U) /\ SumFunctionOnSet(f, U) \in Int
  <2>1. SumFunctionOnSet(f, T) = f[t] + SumFunctionOnSet(f, T \ {t})
    BY <1>5, <1>13, SumRemove
  <2>2. IsFiniteSet(T \ {t}) /\ \A x \in T \ {t} : f[x] \in Int
    BY <1>5, <1>13, FS_Subset
  <2>3. SumFunctionOnSet(f, T \ {t}) \in Int
    BY <2>2, SumType
  <2> QED BY <2>1, <2>3
<1>15. f[t] = w[a] + w[b]
  OBVIOUS
<1>16. SumFunctionOnSet(w, Posted(c, T)) # SumFunctionOnSet(f, T)
  OBVIOUS
<1> HIDE DEF U, a, b, F
<1> QED BY <1>7, <1>10, <1>11, <1>12, <1>14, <1>15, <1>16

LEMMA AskedPosted ==
  TypeInv =>
    \A m \in DOMAIN plan :
      (\A t \in EntriesOf(m) : txns[t].kind # "reallocate" => Spends(t)) =>
        \A c \in Known : Asked(c, {"spending", "reallocation"}, m) = Entered(c, m)
<1> SUFFICES ASSUME TypeInv, NEW m \in DOMAIN plan, NEW c \in Known,
                    \A t \in EntriesOf(m) : txns[t].kind # "reallocate" => Spends(t)
             PROVE  Asked(c, {"spending", "reallocation"}, m) = Entered(c, m)
  OBVIOUS
<1> DEFINE E == EntriesOf(m)
           w == [key \in Posted(c, E) |-> Wanted(m, key)]
           f == [t \in E |-> Sides(t, c, IF txns[t].kind = "reallocate" THEN txns[t].amount ELSE txns[t].eur)]
<1>1. SourcesOf(c, {"spending", "reallocation"}, m) = Posted(c, E)
  BY DEF SourcesOf, Sources, Posted
<1>2. IsFiniteSet(E) /\ E \subseteq DOMAIN txns
  <2>1. E \subseteq DOMAIN txns
    BY DEF EntriesOf
  <2> HIDE DEF E
  <2> QED BY <2>1, FiniteTables, FS_Subset DEF TypeInv
<1>3. \A key \in Posted(c, E) : w[key] = Wanted(m, key) /\ Wanted(m, key) \in Int
  <2>1. Posted(c, E) \subseteq MovementKeys(m)
    BY <1>2 DEF Posted, MovementKeys, TypeInv, FactsType, EntriesType
  <2> HIDE DEF E
  <2> QED BY <2>1, WantedType DEF TypeInv
<1>4. ASSUME NEW t \in E
      PROVE  f[t] = w[<<c, "spending", t>>] + w[<<c, "reallocation", t>>]
  <2>1. <<c, "spending", t>> \in Posted(c, E) /\ <<c, "reallocation", t>> \in Posted(c, E)
    BY DEF Posted
  <2>2. /\ Wanted(m, <<c, "spending", t>>) = IF Spends(t) THEN Sides(t, c, txns[t].eur) ELSE 0
        /\ Wanted(m, <<c, "reallocation", t>>) =
             IF txns[t].kind = "reallocate" THEN Sides(t, c, txns[t].amount) ELSE 0
    BY DEF Wanted
  <2>3. txns[t].kind = "reallocate" => ~Spends(t)
    BY DEF Spends
  <2>4. txns[t].kind # "reallocate" => Spends(t)
    OBVIOUS
  <2>5. txns[t].eur \in Int /\ txns[t].amount \in Int
    BY <1>2 DEF TypeInv, FactsType, EntriesType, Entries
  <2>6. Sides(t, c, txns[t].eur) \in Int /\ Sides(t, c, txns[t].amount) \in Int
    BY <2>5, SidesType
  <2>7. f[t] = Sides(t, c, IF txns[t].kind = "reallocate" THEN txns[t].amount ELSE txns[t].eur)
    OBVIOUS
  <2>8. /\ w[<<c, "spending", t>>] = Wanted(m, <<c, "spending", t>>)
        /\ w[<<c, "reallocation", t>>] = Wanted(m, <<c, "reallocation", t>>)
    <3> HIDE DEF E, w
    <3> QED BY <1>3, <2>1
  <2> HIDE DEF E, w, f
  <2>9. CASE txns[t].kind = "reallocate"
    BY <2>2, <2>3, <2>6, <2>7, <2>8, <2>9
  <2>10. CASE txns[t].kind # "reallocate"
    BY <2>2, <2>4, <2>6, <2>7, <2>8, <2>10
  <2> QED BY <2>9, <2>10
<1>5. DOMAIN w = Posted(c, E) /\ DOMAIN f = E
  OBVIOUS
<1>6. SumFunctionOnSet(w, Posted(c, E)) = SumFunctionOnSet(f, E)
  <2> HIDE DEF E, w, f
  <2> QED BY <1>2, <1>3, <1>4, SumPosted
<1>7. SumFunction(w) = SumFunction(f)
  <2> HIDE DEF E, w, f
  <2> QED BY <1>5, <1>6, SumIsOnDomain
<1>8. Asked(c, {"spending", "reallocation"}, m) = SumFunction(w)
  BY <1>1 DEF Asked
<1> HIDE DEF w
<1> QED BY <1>7, <1>8 DEF Entered

----------------------------------------------------------------------------
(* Balances that a step leaves as they are. *)

LEMMA ShownRowNext ==
  (month \in Nat)' =>
    (\A m \in 0..month : \A c \in Known : Shown[m][c] = BalanceOf(Shown, frozen, m, c))'
<1>1. month \in Nat =>
        \A m \in 0..month : \A c \in Known : Shown[m][c] = BalanceOf(Shown, frozen, m, c)
  BY HistoryRow DEF Shown
<1> QED BY <1>1, PTL

\* When no open month adds anything else to it than before, a balance stays as it was.
LEMMA BalancesStay ==
  ASSUME TypeInv, TypeInv', UNCHANGED <<month, frozen>>, NEW c \in Known, c \in Known',
         c # Unallocated =>
           \A m \in 1..month : m \notin Closed => CategoryChange(c, m)' = CategoryChange(c, m),
         c = Unallocated =>
           /\ UNCHANGED <<start, opening>>
           /\ \A m \in 1..month : m \notin Closed /\ Started(m) =>
                UnallocatedChange(m)' = UnallocatedChange(m)
  PROVE  \A m \in 0..month : Shown'[m][c] = Shown[m][c]
<1> DEFINE B == {m \in 0..month : Shown'[m][c] # Shown[m][c]}
<1>0. month \in Nat /\ month' = month /\ frozen' = frozen
  BY DEF TypeInv, FactsType, CalendarType, Months
<1>1. ASSUME NEW m \in 0..month
      PROVE  Shown[m][c] = BalanceOf(Shown, frozen, m, c)
  <2>1. \A i \in 0..month : \A d \in Known :
          History(frozen)[i][d] = BalanceOf(History(frozen), frozen, i, d)
    BY <1>0, HistoryRow
  <2> QED BY <2>1 DEF Shown
<1>2. ASSUME NEW m \in 0..month
      PROVE  Shown'[m][c] = BalanceOf(Shown, frozen, m, c)'
  <2>1. (month \in Nat)' => (\A m_1 \in 0..month : \A d \in Known :
           Shown[m_1][d] = BalanceOf(Shown, frozen, m_1, d))'
    BY ShownRowNext
  <2> QED BY <1>0, <2>1
<1>3. SUFFICES ASSUME B # {} PROVE FALSE
  OBVIOUS
<1>4. PICK m \in B : \A k \in B : m <= k
  <2>1. B \subseteq Nat
    BY <1>0
  <2> HIDE DEF B
  <2> QED BY <1>3, <2>1, LeastNat
<1>5. m \in 0..month /\ Shown'[m][c] # Shown[m][c]
  OBVIOUS
<1>6. m # 0 => m \in 1..month /\ m - 1 \in 0..month /\ m - 1 \notin B
  <2>1. m # 0 => m \in 1..month /\ m - 1 \in 0..month /\ ~(m <= m - 1)
    BY <1>0, <1>5
  <2> HIDE DEF B
  <2> QED BY <1>4, <2>1
<1>7. m # 0 => Shown'[m - 1][c] = Shown[m - 1][c]
  BY <1>6
<1> HIDE DEF B
<1>8. BalanceOf(Shown, frozen, m, c) =
        IF m = 0 THEN IF c = Unallocated THEN opening ELSE 0
        ELSE IF m \in Closed THEN
          IF c \in DOMAIN frozen[m].balances THEN frozen[m].balances[c] ELSE Shown[m - 1][c]
        ELSE IF c # Unallocated THEN Shown[m - 1][c] + CategoryChange(c, m)
        ELSE IF Started(m) THEN Shown[m - 1][c] + UnallocatedChange(m)
        ELSE Shown[m - 1][c]
  BY DEF BalanceOf, Closed
<1>9. BalanceOf(Shown, frozen, m, c)' =
        IF m = 0 THEN IF c = Unallocated THEN opening' ELSE 0
        ELSE IF m \in Closed THEN
          IF c \in DOMAIN frozen[m].balances THEN frozen[m].balances[c] ELSE Shown'[m - 1][c]
        ELSE IF c # Unallocated THEN Shown'[m - 1][c] + CategoryChange(c, m)'
        ELSE IF Started(m)' THEN Shown'[m - 1][c] + UnallocatedChange(m)'
        ELSE Shown'[m - 1][c]
  BY <1>0 DEF BalanceOf, Closed
<1>10. c = Unallocated => opening' = opening /\ (Started(m)' <=> Started(m))
  BY DEF Started
<1>11. BalanceOf(Shown, frozen, m, c)' = BalanceOf(Shown, frozen, m, c)
  BY <1>6, <1>7, <1>8, <1>9, <1>10
<1> QED BY <1>1, <1>2, <1>5, <1>11

\* What a month adds once its movements are exactly what its facts ask for.
LEMMA MonthlyExactly ==
  ASSUME TypeInv, NEW m \in DOMAIN plan, Exactly(m), NEW c \in categories
  PROVE  /\ Monthly(c, m) = Allocation(c, m)
         /\ CategoryChange(c, m) = Allocation(c, m) - corrections[m][c] + Asked(c, {"spending", "reallocation"}, m)
<1>1. Started(m) /\ c \in Known /\ c # Unallocated
  BY DEF TypeInv, FactsType, PlanType, Known, ConstantsAssumption
<1>2. Moved(c, {"allocation"}, m) = Allocation(c, m)
  BY <1>1, MovedExactly, AskedAllocation
<1>3. Moved(c, {"spending", "reallocation"}, m) = Asked(c, {"spending", "reallocation"}, m)
  BY MovedExactly
<1> QED BY <1>1, <1>2, <1>3 DEF Monthly, CategoryChange

\* A new month without entries, and a month that is not in the plan yet, add the same: what is
\* allocated, and what that leaves of the income.
Planned(m) ==
  /\ \A c \in categories : CategoryChange(c, m) = Allocation(c, m)
  /\ UnallocatedChange(m) = Eur(Expected(m), m) - TotalAllocation(m)

LEMMA PlannedExactly ==
  TypeInv =>
    \A m \in DOMAIN plan :
      /\ Exactly(m) /\ Waits(m) /\ plan[m].eur = Eur(Expected(m), m)
      /\ \A k \in DOMAIN plan : plan[k].completed # {m}
      => Planned(m)
<1> SUFFICES ASSUME TypeInv, NEW m \in DOMAIN plan, Exactly(m), Waits(m), plan[m].eur = Eur(Expected(m), m),
                    \A k \in DOMAIN plan : plan[k].completed # {m}
             PROVE  Planned(m)
  OBVIOUS
<1>1. \A c \in categories : c \in Buckets /\ Allocation(c, m) \in Int
  BY AllocationType DEF TypeInv, FactsType, PlanType, IsTable, Buckets
<1>2. \A b, kinds : kinds \cap {"funding", "allocation"} = {} => Moved(b, kinds, m) = 0
  <2> SUFFICES ASSUME NEW b, NEW kinds, kinds \cap {"funding", "allocation"} = {}
               PROVE  Moved(b, kinds, m) = 0
    OBVIOUS
  <2>1. Moved(b, kinds, m) = Asked(b, kinds, m)
    BY MovedExactly
  <2> QED BY <2>1, AskedNothing
<1>3. \A c \in categories : CategoryChange(c, m) = Allocation(c, m)
  <2> TAKE c \in categories
  <2>1. Asked(c, {"spending", "reallocation"}, m) = 0
    BY AskedNothing
  <2>2. corrections[m][c] = 0
    BY <1>1 DEF Waits
  <2> QED BY <1>1, <2>1, <2>2, MonthlyExactly
<1>4. UnallocatedChange(m) = Eur(Expected(m), m) - TotalAllocation(m)
  <2> DEFINE key == <<Unallocated, "funding", m>>
             g == [c \in categories |-> Monthly(c, m)]
  <2>1. key \in Sources(m) /\ Wanted(m, key) = plan[m].eur
    BY DEF Sources, Wanted
  <2>2. Moved(Unallocated, {"spending", "reallocation", "income", "excess", "settlement", "correction"}, m) = 0
    BY <1>2
  <2>3. Moved(Unallocated, {"funding", "allocation"}, m) = plan[m].eur - TotalAllocation(m)
    BY MovedExactly, AskedFunding
  <2>4. SumFunction(g) = TotalAllocation(m)
    BY MonthlyExactly DEF TotalAllocation
  <2>5. plan[m].eur \in Int /\ TotalAllocation(m) \in Int
    BY TotalAllocationType DEF TypeInv, FactsType, PlanType, IsTable, Instances
  <2>6. UnallocatedChange(m) =
          Moved(Unallocated, {"spending", "reallocation", "income", "excess", "settlement", "correction"}, m)
            + (IF key \in DOMAIN ledger[m] THEN Moved(Unallocated, {"funding", "allocation"}, m)
               ELSE Eur(Expected(m), m) - SumFunction(g))
    BY DEF UnallocatedChange
  <2> HIDE DEF g, key
  <2> QED BY <2>2, <2>3, <2>4, <2>5, <2>6
<1> QED BY <1>3, <1>4 DEF Planned

LEMMA PlannedAhead ==
  ASSUME TypeInv, NEW m \in Months, m \notin DOMAIN plan, Waits(m), Started(m)
  PROVE  Planned(m)
<1>1. DOMAIN ledger[m] = {}
  BY DEF TypeInv, LedgerType
<1>2. \A b, kinds : Moved(b, kinds, m) = 0
  <2> TAKE b, kinds
  <2>1. {key \in DOMAIN ledger[m] : key[1] = b /\ key[2] \in kinds} = {}
    BY <1>1
  <2> QED BY <2>1, SumEmpty DEF Moved
<1>3. \A c \in categories : c \in Buckets /\ Allocation(c, m) \in Int /\ Monthly(c, m) = Allocation(c, m)
  BY AllocationType DEF TypeInv, FactsType, PlanType, Buckets, Monthly
<1>4. \A c \in categories : CategoryChange(c, m) = Allocation(c, m)
  BY <1>2, <1>3 DEF CategoryChange, Waits
<1>5. UnallocatedChange(m) = Eur(Expected(m), m) - TotalAllocation(m)
  <2> DEFINE key == <<Unallocated, "funding", m>>
             g == [c \in categories |-> Monthly(c, m)]
  <2>1. SumFunction(g) = TotalAllocation(m)
    BY <1>3 DEF TotalAllocation
  <2>2. TotalAllocation(m) \in Int /\ Eur(Expected(m), m) \in Int
    <3>1. Expected(m).amount \in Nat
      BY ExpectedType DEF Money, TypeInv, FactsType, PlanType
    <3> QED BY <3>1, EurType, TotalAllocationType DEF TypeInv
  <2>3. UnallocatedChange(m) =
          Moved(Unallocated, {"spending", "reallocation", "income", "excess", "settlement", "correction"}, m)
            + (IF key \in DOMAIN ledger[m] THEN Moved(Unallocated, {"funding", "allocation"}, m)
               ELSE Eur(Expected(m), m) - SumFunction(g))
    BY DEF UnallocatedChange
  <2> HIDE DEF g, key
  <2> QED BY <1>1, <1>2, <2>1, <2>2, <2>3
<1> QED BY <1>4, <1>5 DEF Planned

----------------------------------------------------------------------------
(* A reading changes no balance. *)

LEMMA ReadSame ==
  ASSUME TypeInv, Read
  PROVE  /\ SameFacts /\ Sync /\ plan' = Materialised(plan)
         /\ UNCHANGED <<month, opening, frozen, periods, settings>>
         /\ \A m : /\ Expected(m)' = Expected(m) /\ EntriesOf(m)' = EntriesOf(m)
                   /\ \A c : Allocation(c, m)' = Allocation(c, m)
                   /\ TotalAllocation(m)' = TotalAllocation(m)
<1>1. /\ plan' = Materialised(plan) /\ Sync
      /\ UNCHANGED <<month, start, opening, frozen, categories, periods, settings, txns, receipts, corrections>>
  BY DEF Read, facts
<1>2. month \in Nat
  BY DEF TypeInv, FactsType, CalendarType, Months
<1>3. SameFacts
  BY <1>1, <1>2, MaterialisedType DEF SameFacts, TypeInv
<1>4. \A m : \A c : Allocation(c, m)' = Allocation(c, m)
  BY <1>1 DEF Allocation, Applicable
<1>5. \A m : TotalAllocation(m)' = TotalAllocation(m)
  BY <1>1, <1>4 DEF TotalAllocation
<1> QED BY <1>1, <1>3, <1>4, <1>5, ExpectedSame DEF EntriesOf

\* The expectations that a reading adds ask nothing of the months before it.
LEMMA ReadAsksNothing ==
  ASSUME TypeInv, TypeInv', Read, NEW m \in DOMAIN plan, NEW key \in Sources(m)', key \notin Sources(m)
  PROVE  Wanted(m, key)' = 0
<1>1. SameFacts /\ plan' = Materialised(plan)
  BY ReadSame
<1>2. PICK k \in DOMAIN plan' \ DOMAIN plan :
        key = <<Unallocated, "excess", k>> \/ key = <<Unallocated, "settlement", k>>
  BY <1>1 DEF Sources, SameFacts, EntriesOf, Known
<1>3. CASE key = <<Unallocated, "excess", k>>
  <2> DEFINE S == {u \in MatchedReceipts(k, month)' : txns'[u].month = m /\ receipts'[u].treatment # "legacy"}
             g == [t \in S |-> txns'[t].eur - CoveredBy(k, t)']
  <2>1. S = {}
    <3>1. \A t \in DOMAIN receipts : receipts[t].expected # {k}
      BY <1>2 DEF TypeInv, FactsType, EntriesType
    <3> QED BY <1>1, <3>1 DEF SameFacts, MatchedReceipts
  <2>2. Wanted(m, key)' = SumFunction(g)
    BY <1>3 DEF Wanted, Excess
  <2>3. DOMAIN g = {}
    BY <2>1
  <2> HIDE DEF g
  <2> QED BY <2>2, <2>3, SumIsOnDomain, SumEmpty
<1>4. CASE key = <<Unallocated, "settlement", k>>
  <2>1. Wanted(m, key)' = IF plan'[k].completed = {m} THEN -plan'[k].shortfall ELSE 0
    BY <1>4 DEF Wanted
  <2>2. plan'[k].completed = {}
    BY <1>1, <1>2, PlanSynced
  <2> QED BY <2>1, <2>2
<1> QED BY <1>2, <1>3, <1>4

\* So the movements of the months in the plan stay.
LEMMA ReadMoved ==
  ASSUME TypeInv, TypeInv', PlanAgrees, Read, NEW m \in DOMAIN plan, m \notin Closed
  PROVE  DOMAIN ledger'[m] = DOMAIN ledger[m] /\ \A b, kinds : Moved(b, kinds, m)' = Moved(b, kinds, m)
<1>1. /\ SameFacts /\ Sync /\ UNCHANGED <<month, frozen>>
      /\ \A c \in categories : Allocation(c, m)' = Allocation(c, m)
  BY ReadSame
<1>2. m \in Months /\ m <= month /\ Started(m)
  BY DEF TypeInv, FactsType, PlanType, IsTable
<1>3. RequireOpen(m) /\ Started(m)'
  BY <1>1, <1>2 DEF RequireOpen, FirstMonth, Months, Started, SameFacts
<1>4. ledger'[m] = Appended(m)
  BY <1>2, <1>3, <1>1 DEF Sync
<1>5. /\ DOMAIN ledger'[m] = DOMAIN ledger[m] \cup {k \in Sources(m)' : Wanted(m, k)' # 0}
      /\ \A key \in DOMAIN ledger'[m] : ledger'[m][key] = Wanted(m, key)'
  BY <1>4 DEF Appended
<1>6. Agree(m)
  BY DEF PlanAgrees
<1>7. \A key \in MovementKeys(m) : Wanted(m, key)' = Wanted(m, key)
  BY <1>1, SameWanted
<1>8. DOMAIN ledger[m] \subseteq MovementKeys(m) /\ Sources(m) \subseteq MovementKeys(m)
  BY <1>2, SourcesAreKeys DEF TypeInv, LedgerType
<1>9. DOMAIN ledger'[m] = DOMAIN ledger[m]
  <2>1. \A key \in Sources(m)' : key \notin DOMAIN ledger[m] => Wanted(m, key)' = 0
    BY <1>6, <1>7, <1>8, ReadAsksNothing DEF Agree
  <2> QED BY <1>5, <2>1
<1>10. \A key \in DOMAIN ledger[m] : ledger'[m][key] = ledger[m][key]
  BY <1>5, <1>6, <1>7, <1>8, <1>9 DEF Agree
<1>11. ASSUME NEW b, NEW kinds PROVE Moved(b, kinds, m)' = Moved(b, kinds, m)
  <2> DEFINE S == {key \in DOMAIN ledger[m] : key[1] = b /\ key[2] \in kinds}
  <2>1. Moved(b, kinds, m) = SumFunctionOnSet(ledger[m], S) /\ Moved(b, kinds, m)' = SumFunctionOnSet(ledger'[m], S)
    BY <1>9 DEF Moved
  <2>2. IsFiniteSet(S) /\ \A key \in S : ledger'[m][key] = ledger[m][key]
    BY <1>2, <1>10, MovedType, FS_Subset DEF TypeInv
  <2> HIDE DEF S
  <2> QED BY <2>1, <2>2, SumAgree
<1> QED BY <1>9, <1>11

LEMMA PlannedExactlyNext ==
  TypeInv' =>
    (\A m \in DOMAIN plan :
      /\ Exactly(m) /\ Waits(m) /\ plan[m].eur = Eur(Expected(m), m)
      /\ \A k \in DOMAIN plan : plan[k].completed # {m}
      => Planned(m))'
BY PlannedExactly, PTL

\* A month that the reading materialises.
LEMMA ReadPlanned ==
  ASSUME TypeInv, TypeInv', OpenInv, Read, NEW m \in 1..month, m \notin DOMAIN plan, m \notin Closed, Started(m)
  PROVE  Planned(m) /\ Planned(m)'
<1>1. /\ SameFacts /\ Sync /\ plan' = Materialised(plan) /\ UNCHANGED <<month, frozen>>
      /\ Expected(m)' = Expected(m) /\ EntriesOf(m)' = EntriesOf(m)
  BY ReadSame
<1>2. m \in Months /\ RequireOpen(m)
  BY DEF RequireOpen, FirstMonth, Months, TypeInv, FactsType, CalendarType
<1>3. m \in DOMAIN plan' /\ plan'[m] = Instance(m)
  BY <1>1, <1>2, MaterialisedType DEF TypeInv
<1>4. Waits(m)
  BY <1>2 DEF OpenInv, WaitingInv
<1>5. Waits(m)'
  BY <1>1, <1>4 DEF Waits, SameFacts
<1>6. Exactly(m)'
  BY <1>1, <1>3, SyncExactly
<1>7. plan'[m].eur = Eur(Expected(m), m)'
  BY <1>1, <1>3 DEF Instance, Eur
<1>8. \A k \in DOMAIN plan' : plan'[k].completed # {m}
  <2>1. \A k \in DOMAIN plan : plan'[k].completed # {m}
    BY <1>1 DEF SameFacts, OpenInv, CompletedInv
  <2>2. \A k \in DOMAIN plan' \ DOMAIN plan : plan'[k].completed = {}
    BY <1>1, PlanSynced
  <2> QED BY <2>1, <2>2
<1>9. Planned(m)'
  BY <1>3, <1>5, <1>6, <1>7, <1>8, PlannedExactlyNext
<1> QED BY <1>2, <1>4, <1>9, PlannedAhead

LEMMA ReadChanges ==
  ASSUME TypeInv, TypeInv', OpenInv, Read, NEW m \in 1..month, m \notin Closed
  PROVE  /\ \A c \in categories : CategoryChange(c, m)' = CategoryChange(c, m)
         /\ Started(m) => UnallocatedChange(m)' = UnallocatedChange(m)
<1>1. /\ SameFacts /\ Expected(m)' = Expected(m) /\ EntriesOf(m)' = EntriesOf(m)
      /\ \A c : Allocation(c, m)' = Allocation(c, m)
      /\ TotalAllocation(m)' = TotalAllocation(m) /\ UNCHANGED <<categories, start, txns, corrections>>
  BY ReadSame DEF SameFacts
<1>2. Started(m)' <=> Started(m)
  BY <1>1 DEF Started
<1>3. \A c : Entered(c, m)' = Entered(c, m)
  BY <1>1 DEF Entered, Sides
<1>4. CASE ~Started(m)
  BY <1>1, <1>2, <1>3, <1>4 DEF CategoryChange, Monthly
<1>5. CASE m \in DOMAIN plan
  <2>1. DOMAIN ledger'[m] = DOMAIN ledger[m] /\ \A b, kinds : Moved(b, kinds, m)' = Moved(b, kinds, m)
    BY <1>5, ReadMoved DEF OpenInv
  <2>2. m \in DOMAIN plan'
    BY <1>1, <1>5 DEF SameFacts
  <2>3. \A c : Monthly(c, m)' = Monthly(c, m) /\ CategoryChange(c, m)' = CategoryChange(c, m)
    BY <1>1, <1>2, <1>3, <1>5, <2>1, <2>2 DEF Monthly, CategoryChange
  <2>4. UnallocatedChange(m)' = UnallocatedChange(m)
    <3>1. SumFunction([c \in categories |-> Monthly(c, m)])' = SumFunction([c \in categories |-> Monthly(c, m)])
      BY <1>1, <2>3
    <3>2. Eur(Expected(m), m)' = Eur(Expected(m), m)
      BY <1>1 DEF Eur
    <3> QED BY <2>1, <3>1, <3>2 DEF UnallocatedChange
  <2> QED BY <2>3, <2>4
<1>6. CASE Started(m) /\ m \notin DOMAIN plan
  <2>1. Planned(m) /\ Planned(m)'
    BY <1>6, ReadPlanned
  <2>2. Eur(Expected(m), m)' = Eur(Expected(m), m)
    BY <1>1 DEF Eur
  <2> QED BY <1>1, <2>1, <2>2 DEF Planned
<1> QED BY <1>4, <1>5, <1>6

\* A reading materialises the months that have come since and changes no balance of any month:
\* what it materialises is what the forecast showed.
THEOREM ReadingsChangeNothing == Spec => ReadChangesNothing
<1>1. ASSUME TypeInv, TypeInv', OpenInv, Read
      PROVE  \A m \in 1..month : \A c \in Known : Shown'[m][c] = Shown[m][c]
  <2>1. UNCHANGED <<month, frozen, opening, start, categories>> /\ month \in Nat
    BY <1>1, ReadSame DEF SameFacts, TypeInv, FactsType, CalendarType, Months
  <2>2. ASSUME NEW c \in Known PROVE \A m \in 0..month : Shown'[m][c] = Shown[m][c]
    <3>1. c \in Known' /\ (c # Unallocated => c \in categories)
      BY <2>1 DEF Known
    <3>2. \A m \in 1..month : m \notin Closed =>
             /\ \A d \in categories : CategoryChange(d, m)' = CategoryChange(d, m)
             /\ Started(m) => UnallocatedChange(m)' = UnallocatedChange(m)
      BY <1>1, ReadChanges
    <3> QED BY <1>1, <2>1, <3>1, <3>2, BalancesStay
  <2> QED BY <2>1, <2>2
<1>2. TypeInv /\ TypeInv' /\ OpenInv =>
        [Read => \A m \in 1..month : \A c \in Known : Shown'[m][c] = Shown[m][c]]_vars
  BY <1>1
<1> QED BY <1>2, TypesKept, OpenBooksKept, PTL DEF ReadChangesNothing

----------------------------------------------------------------------------
(* Switching the plan on changes no category's balance. *)

LEMMA PostedExactly ==
  TypeInv =>
    \A m \in DOMAIN plan :
      Exactly(m) /\ (\A t \in EntriesOf(m) : txns[t].kind # "reallocate" => Spends(t)) =>
        \A c \in categories : CategoryChange(c, m) = Allocation(c, m) - corrections[m][c] + Entered(c, m)
<1>1. categories \subseteq Known
  BY DEF Known
<1> QED BY <1>1, MonthlyExactly, AskedPosted

LEMMA PostedExactlyNext ==
  TypeInv' =>
    (\A m \in DOMAIN plan :
      Exactly(m) /\ (\A t \in EntriesOf(m) : txns[t].kind # "reallocate" => Spends(t)) =>
        \A c \in categories : CategoryChange(c, m) = Allocation(c, m) - corrections[m][c] + Entered(c, m))'
BY PostedExactly, PTL

LEMMA ActivateChanges ==
  ASSUME TypeInv, TypeInv', Activate, NEW m \in 1..month, m \notin Closed, NEW c \in categories
  PROVE  CategoryChange(c, m)' = CategoryChange(c, m)
<1>1. /\ start = {} /\ start' = {month} /\ DOMAIN plan' = {month} /\ Sync
      /\ UNCHANGED <<month, categories, periods, txns, corrections, frozen>>
      /\ receipts' = [t \in {u \in DOMAIN txns : txns[u].kind = "income"} |->
                        [treatment |-> "legacy",
                         expected |-> IF txns[t].month = month THEN {month} ELSE {}]]
  BY DEF Activate
<1>2. /\ EntriesOf(m)' = EntriesOf(m) /\ Entered(c, m)' = Entered(c, m)
      /\ Allocation(c, m)' = Allocation(c, m) /\ ~Started(m)
  BY <1>1 DEF EntriesOf, Entered, Sides, Allocation, Applicable, Started
<1>3. CategoryChange(c, m) = Allocation(c, m) - corrections[m][c] + Entered(c, m)
  BY <1>2 DEF CategoryChange, Monthly
<1>4. CASE m = month
  <2>1. DOMAIN plan = {}
    BY <1>1 DEF TypeInv, FactsType, PlanType, Started
  <2>2. m \in DOMAIN plan' \ DOMAIN plan
    BY <1>1, <1>4, <2>1
  <2>3. Exactly(m)'
    BY <1>1, <2>2, SyncExactly
  <2>4. ASSUME NEW t \in EntriesOf(m)', txns'[t].kind # "reallocate" PROVE Spends(t)'
    <3>1. txns[t].kind \in {"expense", "income"} /\ t \in DOMAIN txns
      BY <1>1, <2>4 DEF EntriesOf, TypeInv, FactsType, EntriesType, Entries, Kinds
    <3>2. txns[t].kind = "income" => Treatment(t)' = "legacy"
      BY <1>1, <3>1 DEF Treatment
    <3> QED BY <1>1, <3>1, <3>2 DEF Spends
  <2>5. CategoryChange(c, m)' = Allocation(c, m)' - corrections'[m][c] + Entered(c, m)'
    BY <1>1, <2>2, <2>3, <2>4, PostedExactlyNext
  <2> QED BY <1>1, <1>2, <1>3, <2>5
<1>5. CASE m # month
  <2>1. ~Started(m)'
    BY <1>1, <1>5 DEF Started, TypeInv, FactsType, CalendarType, Months
  <2> QED BY <1>1, <1>2, <1>3, <2>1 DEF CategoryChange, Monthly
<1> QED BY <1>4, <1>5

\* The activation leaves what a category shows as it was.
LEMMA ActivateShows ==
  ASSUME TypeInv, TypeInv', Activate, NEW c \in categories
  PROVE  \A m \in 0..month : Shown'[m][c] = Shown[m][c]
<1>1. UNCHANGED <<month, frozen, categories>> /\ month \in Nat
  BY DEF Activate, TypeInv, FactsType, CalendarType, Months
<1>2. c \in Known /\ c \in Known' /\ c # Unallocated
  <2>1. c \in Known /\ c \in Known'
    BY <1>1 DEF Known
  <2>2. categories \subseteq Categories
    BY DEF TypeInv, FactsType, PlanType
  <2> QED BY <2>1, <2>2 DEF ConstantsAssumption
<1>3. \A m \in 1..month : m \notin Closed => CategoryChange(c, m)' = CategoryChange(c, m)
  BY ActivateChanges
<1> QED BY <1>1, <1>2, <1>3, BalancesStay

\* Switching the plan on leaves every category's balance of every month as it was: the
\* movements it posts for the current month do what its entries did already, income from
\* before included.
THEOREM ActivationChangesNothing == Spec => ActivationPreserves
<1>1. ASSUME TypeInv, TypeInv', Activate
      PROVE  \A m \in 1..month, c \in categories : Shown'[m][c] = Shown[m][c]
  <2>1. UNCHANGED <<month, frozen, categories>> /\ month \in Nat
    BY <1>1 DEF Activate, TypeInv, FactsType, CalendarType, Months
  <2>2. ASSUME NEW c \in categories PROVE \A m \in 0..month : Shown'[m][c] = Shown[m][c]
    BY <1>1, ActivateShows
  <2> QED BY <2>1, <2>2
<1>2. TypeInv /\ TypeInv' =>
        [Activate => \A m \in 1..month, c \in categories : Shown'[m][c] = Shown[m][c]]_vars
  BY <1>1
<1> QED BY <1>2, TypesKept, PTL DEF ActivationPreserves

----------------------------------------------------------------------------
(* Parts of an expectation: they are rounded each by itself. *)

\* A quotient rounded half to even is at most half a unit away.
LEMMA HalfEvenNear ==
  ASSUME NEW n \in Nat, NEW d \in Nat \ {0}
  PROVE  2 * n - d <= 2 * (d * HalfEven(n, d)) /\ 2 * (d * HalfEven(n, d)) <= 2 * n + d
<1> DEFINE q == n \div d
           r == n % d
<1>1. q \in Nat /\ r \in Nat /\ r < d /\ n = d * q + r
  OBVIOUS
<1>2. HalfEven(n, d) = (IF 2 * r > d \/ (2 * r = d /\ q % 2 = 1) THEN q + 1 ELSE q)
  BY DEF HalfEven
<1> HIDE DEF q, r
<1>3. d * q \in Nat /\ d * (q + 1) = d * q + d
  BY <1>1
<1>4. CASE 2 * r > d \/ (2 * r = d /\ q % 2 = 1)
  <2>1. HalfEven(n, d) = q + 1 /\ 2 * r >= d
    BY <1>1, <1>2, <1>4
  <2>2. d * HalfEven(n, d) = d * q + d
    BY <1>3, <2>1
  <2> DEFINE p == d * q
  <2> HIDE DEF p
  <2>3. p \in Nat /\ n = p + r /\ d * HalfEven(n, d) = p + d
    BY <1>1, <1>3, <2>2 DEF p
  <2> QED BY <1>1, <2>1, <2>3
<1>5. CASE ~(2 * r > d \/ (2 * r = d /\ q % 2 = 1))
  <2>1. HalfEven(n, d) = q /\ 2 * r <= d
    BY <1>1, <1>2, <1>5
  <2> DEFINE p == d * q
  <2>2. d * HalfEven(n, d) = p
    BY <2>1
  <2>3. p \in Nat /\ n = p + r
    BY <1>1, <1>3
  <2> HIDE DEF p
  <2> QED BY <1>1, <2>1, <2>2, <2>3
<1> QED BY <1>4, <1>5

LEMMA NearOne ==
  ASSUME NEW z \in Int, NEW d \in Nat \ {0}, -d <= d * z, d * z <= d
  PROVE  z \in -1..1
<1>1. CASE z >= 2
  <2>1. z - 2 \in Nat /\ d * z = 2 * d + d * (z - 2)
    BY <1>1
  <2>2. d * (z - 2) \in Nat
    BY <2>1
  <2> QED BY <2>1, <2>2
<1>2. CASE z <= -2
  <2>1. -2 - z \in Nat /\ d * z = -2 * d - d * (-2 - z)
    BY <1>2
  <2>2. d * (-2 - z) \in Nat
    BY <2>1
  <2> QED BY <2>1, <2>2
<1> QED BY <1>1, <1>2

\* Two parts of an expectation make its euros, give or take a cent.
LEMMA TwoParts ==
  ASSUME NEW p \in Instances, p.amount > 0, NEW a \in Nat, NEW b \in Nat, a + b = p.amount
  PROVE  FundingPortion(a, p) + FundingPortion(b, p) - p.eur \in -1..1
<1> DEFINE d == p.amount
           e == p.eur
           x == HalfEven(a * e, d)
           y == HalfEven(b * e, d)
           z == x + y - e
<1>1. d \in Nat \ {0} /\ e \in Nat
  BY DEF Instances
<1>2. a * e \in Nat /\ b * e \in Nat /\ a * e + b * e = d * e
  BY <1>1
<1>3. FundingPortion(a, p) = x /\ FundingPortion(b, p) = y
  BY <1>1 DEF FundingPortion
<1> HIDE DEF d, e, x, y
<1>4. x \in Nat /\ y \in Nat
  BY <1>1, <1>2, HalfEvenType DEF x, y
<1>5. /\ 2 * (a * e) - d <= 2 * (d * x) /\ 2 * (d * x) <= 2 * (a * e) + d
      /\ 2 * (b * e) - d <= 2 * (d * y) /\ 2 * (d * y) <= 2 * (b * e) + d
  BY <1>1, <1>2, HalfEvenNear DEF x, y
<1>6. d * z = d * x + d * y - d * e
  BY <1>1, <1>4
<1>7. -d <= d * z /\ d * z <= d
  <2> DEFINE ae == a * e
             be == b * e
             de == d * e
             dx == d * x
             dy == d * y
             dz == d * z
  <2>1. ae \in Nat /\ be \in Nat /\ ae + be = de /\ dx \in Nat /\ dy \in Nat /\ dz = dx + dy - de
    BY <1>1, <1>2, <1>4, <1>6
  <2>2. 2 * ae - d <= 2 * dx /\ 2 * dx <= 2 * ae + d /\ 2 * be - d <= 2 * dy /\ 2 * dy <= 2 * be + d
    BY <1>5
  <2> HIDE DEF ae, be, de, dx, dy, dz
  <2>3. -d <= dz /\ dz <= d
    BY <1>1, <2>1, <2>2
  <2> QED BY <2>3 DEF dz
<1>8. z \in Int
  BY <1>1, <1>4
<1>9. z \in -1..1
  <2> HIDE DEF z
  <2> QED BY <1>1, <1>7, <1>8, NearOne
<1> QED BY <1>3, <1>9 DEF e

----------------------------------------------------------------------------
(* What the receipts of an expectation cover, one after the other, is what they cover    *)
(* together.                                                                             *)

\* Every receipt of a set that is not empty but the last one is before it.
LEMMA LastReceipt ==
  ASSUME FactsType, NEW k, NEW M, M \subseteq DOMAIN txns, NEW R, R \subseteq M, R # {}
  PROVE  \E t \in R : R \ {t} \subseteq Earlier(t, M)
<1> DEFINE Later(t) == {u \in R : t \in Earlier(u, M)}
           F == {Later(t) : t \in R}
<1>1. IsFiniteSet(R) /\ R \subseteq DOMAIN txns
  BY FiniteTables, FS_Subset
<1>2. \A t \in R : IsFiniteSet(Later(t))
  BY <1>1, FS_Subset
<1>3. \A t \in R : t \in Nat /\ txns[t].month \in Nat
  BY <1>1 DEF FactsType, EntriesType, Entries, Months, ConstantsAssumption
<1>4. PICK s \in F : \A r \in F : Cardinality(s) <= Cardinality(r)
  <2>1. F # {} /\ \A s \in F : IsFiniteSet(s)
    <3> HIDE DEF Later
    <3> QED BY <1>2
  <2> HIDE DEF F
  <2> QED BY <2>1, SmallestSet
<1>5. PICK t \in R : s = Later(t)
  OBVIOUS
<1>6. Later(t) = {}
  <2> SUFFICES ASSUME NEW u \in Later(t) PROVE FALSE
    OBVIOUS
  <2>1. u \in R /\ t \in Earlier(u, M)
    OBVIOUS
  <2>2. Later(u) \subseteq Later(t) \ {u}
    <3> SUFFICES ASSUME NEW v \in Later(u) PROVE v \in R /\ t \in Earlier(v, M) /\ v # u
      OBVIOUS
    <3>1. v \in R /\ u \in Earlier(v, M)
      OBVIOUS
    <3> QED BY <1>3, <2>1, <3>1 DEF Earlier
  <2>3. Cardinality(Later(u)) < Cardinality(Later(t))
    <3>1. IsFiniteSet(Later(t))
      BY <1>2
    <3> HIDE DEF Later
    <3>2. /\ IsFiniteSet(Later(t) \ {u}) /\ Cardinality(Later(t)) \in Nat
          /\ Cardinality(Later(t) \ {u}) \in Nat
          /\ Cardinality(Later(t) \ {u}) + 1 = Cardinality(Later(t))
      BY <3>1, SmallerWithout
    <3>3. Cardinality(Later(u)) \in Nat /\ Cardinality(Later(u)) <= Cardinality(Later(t) \ {u})
      BY <2>2, <3>2, FS_Subset, FS_CardinalityType
    <3> QED BY <3>2, <3>3
  <2>4. Cardinality(Later(t)) <= Cardinality(Later(u))
    BY <1>4, <1>5, <2>1
  <2>5. Cardinality(Later(u)) \in Nat /\ Cardinality(Later(t)) \in Nat
    BY <1>2, <2>1, FS_CardinalityType
  <2> HIDE DEF Later
  <2> QED BY <2>3, <2>4, <2>5
<1>7. ASSUME NEW u \in R \ {t} PROVE u \in Earlier(t, M)
  <2>1. t \notin Earlier(u, M)
    BY <1>6
  <2>2. t \in Nat /\ u \in Nat /\ t # u /\ txns[t].month \in Nat /\ txns[u].month \in Nat /\ t \in M /\ u \in M
    BY <1>3
  <2> QED BY <2>1, <2>2 DEF Earlier
<1> QED BY <1>7

\* The receipts of an expectation up to some month, or any others with all before them.
LEMMA CoveredTogether ==
  ASSUME FactsType, NEW k \in DOMAIN plan, NEW S \in SUBSET MatchedReceipts(k, month),
         \A t \in S : Earlier(t, MatchedReceipts(k, month)) \subseteq S
  PROVE  SumFunctionOnSet([t \in DOMAIN txns |-> CoveredBy(k, t)], S)
           = FundingPortion(Settled(k, S), plan[k])
<1> DEFINE M == MatchedReceipts(k, month)
           f == [t \in DOMAIN txns |-> CoveredBy(k, t)]
           Through(R) == \A t \in R : Earlier(t, M) \subseteq R
           F == {R \in SUBSET S : Through(R) /\ SumFunctionOnSet(f, R) # FundingPortion(Settled(k, R), plan[k])}
<1>0. Through(S) /\ M \subseteq DOMAIN txns /\ S \subseteq M /\ IsFiniteSet(M)
  BY MatchedFinite
<1> SUFFICES ASSUME F # {} PROVE FALSE
  BY <1>0
<1>1. \A R \in SUBSET S : IsFiniteSet(R) /\ R \subseteq DOMAIN txns /\ R \subseteq M
  BY <1>0, FS_Subset
<1>2. PICK R \in F : \A Q \in F : Cardinality(R) <= Cardinality(Q)
  <2>1. \A Q \in F : IsFiniteSet(Q)
    BY <1>1
  <2> HIDE DEF F
  <2> QED BY <2>1, SmallestSet
<1>3. R \in SUBSET S /\ Through(R) /\ SumFunctionOnSet(f, R) # FundingPortion(Settled(k, R), plan[k])
  OBVIOUS
<1>4. plan[k] \in Instances /\ plan[k].amount \in Nat /\ plan[k].eur \in Nat
  BY DEF FactsType, PlanType, IsTable, Instances
<1>5. R # {}
  <2>1. ReceivedAmount(k, {}) = 0
    <3> DEFINE g == [t \in {} |-> Native(t, plan[k])]
    <3>1. DOMAIN g = {}
      OBVIOUS
    <3> HIDE DEF g
    <3>2. SumFunction(g) = 0
      BY <3>1, SumIsOnDomain, SumEmpty
    <3> QED BY <3>2 DEF ReceivedAmount, g
  <2>2. Settled(k, {}) = 0
    BY <1>4, <2>1, MinOfTwo DEF Settled
  <2>3. FundingPortion(0, plan[k]) = 0
    <3>1. 0 * plan[k].eur = 0
      BY <1>4
    <3>2. plan[k].amount # 0 => HalfEven(0, plan[k].amount) = 0
      BY <1>4 DEF HalfEven
    <3> QED BY <3>1, <3>2 DEF FundingPortion
  <2> HIDE DEF f
  <2>4. SumFunctionOnSet(f, {}) = 0
    BY SumEmpty
  <2> QED BY <1>3, <2>2, <2>3, <2>4
<1>6. PICK t \in R : R \ {t} \subseteq Earlier(t, M)
  BY <1>0, <1>1, <1>3, <1>5, LastReceipt
<1>7. \A u \in R : u \in Nat /\ txns[u].month \in Nat /\ u \in DOMAIN txns
  <2>1. \A u \in DOMAIN txns : u \in Nat /\ txns[u].month \in Nat
    BY DEF FactsType, EntriesType, Entries, Months, ConstantsAssumption
  <2> HIDE DEF F
  <2> QED BY <1>1, <1>3, <2>1
<1>8. R \ {t} = Earlier(t, M)
  <2>1. t \notin Earlier(t, M)
    BY <1>7 DEF Earlier
  <2> QED BY <1>3, <1>6, <2>1
<1>9. Through(R \ {t})
  <2> SUFFICES ASSUME NEW u \in R \ {t}, NEW v \in Earlier(u, M) PROVE v \in R /\ v # t
    OBVIOUS
  <2>1. v \in R
    BY <1>3
  <2>2. u \in Earlier(t, M) /\ u \in Nat /\ txns[u].month \in Nat
    BY <1>6, <1>7
  <2>3. t \notin Earlier(u, M)
    BY <1>7, <2>2 DEF Earlier
  <2> QED BY <2>1, <2>3
<1>10. SumFunctionOnSet(f, R \ {t}) = FundingPortion(Settled(k, R \ {t}), plan[k])
  <2>1. /\ Cardinality(R) \in Nat /\ Cardinality(R \ {t}) \in Nat
        /\ Cardinality(R \ {t}) + 1 = Cardinality(R)
    BY <1>1, <1>3, SmallerWithout
  <2>2. R \ {t} \notin F
    <3> HIDE DEF F
    <3> QED BY <1>2, <2>1
  <2> QED BY <1>3, <1>9, <2>2
<1>11. f[t] = FundingPortion(Settled(k, R), plan[k]) - FundingPortion(Settled(k, R \ {t}), plan[k])
  <2>1. (R \ {t}) \cup {t} = R
    OBVIOUS
  <2>2. f[t] = CoveredBy(k, t)
    BY <1>7
  <2> HIDE DEF f
  <2> QED BY <1>8, <2>1, <2>2, CoveredUnfold
<1>12. SumFunctionOnSet(f, R) = f[t] + SumFunctionOnSet(f, R \ {t})
  <2>1. IsFiniteSet(R) /\ \A u \in R : f[u] \in Int
    BY <1>1, <1>3, CoveredType
  <2> HIDE DEF f
  <2> QED BY <2>1, SumRemove
<1>13. \A Q \in SUBSET S : FundingPortion(Settled(k, Q), plan[k]) \in Int
  <2> TAKE Q \in SUBSET S
  <2>1. Q \in SUBSET DOMAIN txns
    BY <1>0
  <2>2. ReceivedAmount(k, Q) \in Nat
    BY <2>1, ReceivedType
  <2>3. plan[k].amount \in Int /\ ReceivedAmount(k, Q) \in Int
    BY <1>4, <2>2
  <2>4. Settled(k, Q) \in Nat
    BY <1>4, <2>2, <2>3, MinOfTwo DEF Settled
  <2> QED BY <1>4, <2>4, FundingPortionType
<1>14. R \ {t} \in SUBSET S
  BY <1>3
<1> HIDE DEF f, F, Through
<1> QED BY <1>3, <1>10, <1>11, <1>12, <1>13, <1>14

\* What is covered and what is outstanding make an expectation, give or take a cent.
Rounding(k, m) ==
  SumFunctionOnSet([t \in DOMAIN txns |-> CoveredBy(k, t)], MatchedReceipts(k, m))
    + Remainder(k, plan[k], m) - plan[k].eur

\* The parts received of an expectation, each rounded by itself, and the part still
\* outstanding are together at most a cent off the planned euros.
LEMMA RoundingNear ==
  ASSUME FactsType, NEW k \in DOMAIN plan, plan[k].amount > 0, NEW m \in Int, m <= month
  PROVE  Rounding(k, m) \in -1..1
<1> DEFINE S == MatchedReceipts(k, m)
           a == plan[k].amount
           r == ReceivedAmount(k, S)
<1>1. S \in SUBSET MatchedReceipts(k, month) /\ \A t \in S : Earlier(t, MatchedReceipts(k, month)) \subseteq S
  <2>1. \A t \in DOMAIN txns : txns[t].month \in Int
    BY DEF FactsType, EntriesType, Entries, Months
  <2>2. month \in Int
    BY DEF FactsType, CalendarType, Months
  <2> QED BY <2>1, <2>2 DEF MatchedReceipts, Earlier
<1>2. plan[k] \in Instances /\ a \in Nat
  BY DEF FactsType, PlanType, IsTable, Instances
<1>3. r \in Nat
  <2>1. S \in SUBSET DOMAIN txns
    BY MatchedFinite
  <2> HIDE DEF S
  <2> QED BY <2>1, ReceivedType
<1>4. SumFunctionOnSet([t \in DOMAIN txns |-> CoveredBy(k, t)], S) = FundingPortion(Settled(k, S), plan[k])
  <2> HIDE DEF S
  <2> QED BY <1>1, CoveredTogether
<1>5. Remainder(k, plan[k], m) = FundingPortion(Positive(a - r), plan[k])
  BY DEF Remainder, ReceivedAmount
<1>6. Settled(k, S) \in Nat /\ Positive(a - r) \in Nat /\ Settled(k, S) + Positive(a - r) = a
  <2>1. Settled(k, S) = IF a <= r THEN a ELSE r
    <3> HIDE DEF a, r
    <3> QED BY <1>2, <1>3, MinOfTwo DEF Settled, a, r
  <2> HIDE DEF a, r
  <2> QED BY <1>2, <1>3, <2>1 DEF Positive
<1> HIDE DEF r, S
<1> QED BY <1>2, <1>4, <1>5, <1>6, TwoParts DEF Rounding, S

----------------------------------------------------------------------------
(* The movements of a month, source by source. *)

\* An entry's buckets: what it takes from one it brings to another, or they are External.
Shapes ==
  \A t \in DOMAIN txns :
    \/ txns[t].kind = "expense" /\ txns[t].from \in categories /\ txns[t].to = External
    \/ txns[t].kind = "income" /\ txns[t].from = External /\ txns[t].to \in Known
    \/ /\ txns[t].kind = "reallocate" /\ txns[t].amount = txns[t].eur
       /\ txns[t].from \in Known /\ txns[t].to \in Known

\* Salary is for one expectation.
Salaries ==
  \A t \in DOMAIN receipts :
    receipts[t].treatment = "salary" => \E k \in DOMAIN plan : receipts[t].expected = {k}

\* A sum of which only one element counts.
OnlyAt(f, S, y, v) == \A x \in S : f[x] = IF x = y THEN v ELSE 0

LEMMA SumAt ==
  ASSUME NEW S, IsFiniteSet(S), NEW y, NEW v \in Int, NEW f, OnlyAt(f, S, y, v)
  PROVE  SumFunctionOnSet(f, S) = IF y \in S THEN v ELSE 0
<1> USE DEF OnlyAt
<1>1. CASE y \in S
  <2>1. \A x \in S : f[x] \in Int
    OBVIOUS
  <2>2. SumFunctionOnSet(f, S) = f[y] + SumFunctionOnSet(f, S \ {y})
    BY <1>1, <2>1, SumRemove
  <2>3. SumFunctionOnSet(f, S \ {y}) = 0
    <3>1. IsFiniteSet(S \ {y}) /\ \A x \in S \ {y} : f[x] = 0
      BY FS_Subset
    <3> QED BY <3>1, SumZero
  <2>4. f[y] = v
    BY <1>1
  <2> QED BY <1>1, <2>2, <2>3, <2>4
<1>2. CASE y \notin S
  <2>1. \A x \in S : f[x] = 0
    BY <1>2
  <2>2. SumFunctionOnSet(f, S) = 0
    BY <2>1, SumZero
  <2> QED BY <1>2, <2>2
<1> QED BY <1>1, <1>2

\* The keys of a bucket's movements of one kind, whose sources are S.
AreKeys(K, b, kind, S) ==
  /\ \A x \in S : <<b, kind, x>> \in K
  /\ \A key \in K : \E x \in S : key = <<b, kind, x>>

\* They are summed over their sources.
LEMMA SumKeys ==
  ASSUME NEW b, NEW kind, NEW S, IsFiniteSet(S),
         NEW K, AreKeys(K, b, kind, S), NEW w, NEW f, \A x \in S : w[<<b, kind, x>>] = f[x] /\ f[x] \in Int
  PROVE  SumFunctionOnSet(w, K) = SumFunctionOnSet(f, S)
<1> DEFINE g == [x \in S |-> <<b, kind, x>>]
           p == [key \in K |-> key[3]]
<1>1. IsFiniteSet(K)
  <2>1. g \in Surjection(S, K)
    BY DEF Surjection, AreKeys
  <2> HIDE DEF g
  <2> QED BY <2>1, FS_Surjection
<1>2. \A key \in K : w[key] \in Int /\ p[key] \in S
  BY DEF AreKeys
<1>3. \A x \in S : f[x] = SumFunctionOnSet(w, Group(p, K, x))
  <2> TAKE x \in S
  <2>1. Group(p, K, x) = {<<b, kind, x>>}
    BY DEF AreKeys, Group
  <2>2. w[<<b, kind, x>>] \in Int /\ w[<<b, kind, x>>] = f[x]
    OBVIOUS
  <2> HIDE DEF p
  <2> QED BY <2>1, <2>2, SumSingle
<1>4. SumFunctionOnSet(f, S) = SumFunctionOnSet(w, K)
  <2> HIDE DEF p
  <2> QED BY <1>1, <1>2, <1>3, SumByGroup
<1> QED BY <1>4

\* What the movements of a month add up to is what its facts ask for.
LEMMA MovedAgreed ==
  ASSUME TypeInv, NEW m \in DOMAIN plan, Agree(m), NEW b, NEW kinds
  PROVE  Moved(b, kinds, m) = Asked(b, kinds, m)
<1> DEFINE S == {key \in DOMAIN ledger[m] : key[1] = b /\ key[2] \in kinds}
           T == SourcesOf(b, kinds, m)
           A == {key \in MovementKeys(m) : key[1] = b /\ key[2] \in kinds}
           f == [key \in S |-> ledger[m][key]]
           g == [key \in T |-> Wanted(m, key)]
           h == [key \in A |-> Wanted(m, key)]
<1>0. m \in Months
  BY DEF TypeInv, FactsType, PlanType, IsTable
<1>1. IsFiniteSet(A) /\ S \subseteq A /\ T \subseteq A
  <2>1. IsFiniteSet(MovementKeys(m)) /\ Sources(m) \subseteq MovementKeys(m)
    BY <1>0, MovementsFinite, SourcesAreKeys DEF TypeInv
  <2>2. DOMAIN ledger[m] \subseteq MovementKeys(m)
    BY <1>0 DEF TypeInv, LedgerType
  <2>3. IsFiniteSet(A)
    <3> DEFINE MK == MovementKeys(m)
    <3>1. A \subseteq MK /\ IsFiniteSet(MK)
      BY <2>1
    <3> HIDE DEF A, MK
    <3> QED BY <3>1, FS_Subset
  <2> QED BY <2>1, <2>2, <2>3 DEF SourcesOf
<1>2. \A key \in A : Wanted(m, key) \in Int
  BY WantedType DEF TypeInv
<1>3. \A key \in A \ Sources(m) : Wanted(m, key) = 0
  <2> SUFFICES ASSUME NEW key \in MovementKeys(m) \ Sources(m) PROVE Wanted(m, key) = 0
    OBVIOUS
  <2>1. key[2] \in {"spending", "reallocation", "income"} /\ key[3] \notin EntriesOf(m)
    BY DEF MovementKeys, Sources
  <2> QED BY <2>1 DEF Wanted
<1>4. \A key \in S : ledger[m][key] = Wanted(m, key)
  BY DEF Agree
<1>5. \A key \in A \ S : Wanted(m, key) = 0
  <2> SUFFICES ASSUME NEW key \in A \ S PROVE Wanted(m, key) = 0
    OBVIOUS
  <2>1. CASE key \in Sources(m)
    <3>1. key \notin DOMAIN ledger[m]
      OBVIOUS
    <3> QED BY <2>1, <3>1 DEF Agree
  <2>2. CASE key \notin Sources(m)
    BY <1>3, <2>2
  <2> QED BY <2>1, <2>2
<1>6. \A key \in A \ T : Wanted(m, key) = 0
  BY <1>3 DEF SourcesOf
<1>7. SumFunction(h) = SumFunction(f)
  <2>1. IsFiniteSet(DOMAIN h) /\ DOMAIN f \subseteq DOMAIN h
    BY <1>1
  <2>2. \A x \in DOMAIN f : h[x] = f[x] /\ f[x] \in Int
    BY <1>1, <1>2, <1>4
  <2>3. \A x \in DOMAIN h \ DOMAIN f : h[x] = 0
    BY <1>5
  <2> HIDE DEF f, h
  <2> QED BY <2>1, <2>2, <2>3, SumExtend
<1>8. SumFunction(h) = SumFunction(g)
  <2>1. IsFiniteSet(DOMAIN h) /\ DOMAIN g \subseteq DOMAIN h
    BY <1>1
  <2>2. \A x \in DOMAIN g : h[x] = g[x] /\ g[x] \in Int
    BY <1>1, <1>2
  <2>3. \A x \in DOMAIN h \ DOMAIN g : h[x] = 0
    BY <1>6
  <2> HIDE DEF g, h
  <2> QED BY <2>1, <2>2, <2>3, SumExtend
<1>9. SumFunction(f) = SumFunctionOnSet(ledger[m], S)
  <2>1. IsFiniteSet(S) /\ DOMAIN f = S /\ \A x \in S : f[x] = ledger[m][x]
    BY <1>1, FS_Subset
  <2> HIDE DEF f, S
  <2> QED BY <2>1, SumIsOnDomain, SumAgree
<1> HIDE DEF T, f, h
<1> QED BY <1>7, <1>8, <1>9 DEF Moved, Asked, T

LEMMA SourcesFinite ==
  ASSUME TypeInv, NEW m \in DOMAIN plan, NEW b, NEW kinds
  PROVE  /\ IsFiniteSet(SourcesOf(b, kinds, m))
         /\ \A key \in SourcesOf(b, kinds, m) : Wanted(m, key) \in Int
<1> DEFINE T == SourcesOf(b, kinds, m)
<1>1. IsFiniteSet(MovementKeys(m)) /\ Sources(m) \subseteq MovementKeys(m)
  BY MovementsFinite, SourcesAreKeys DEF TypeInv, FactsType, PlanType, IsTable
<1>2. T \subseteq MovementKeys(m)
  BY <1>1 DEF SourcesOf
<1> HIDE DEF T
<1>3. IsFiniteSet(T)
  BY <1>1, <1>2, FS_Subset
<1>4. \A key \in T : Wanted(m, key) \in Int
  BY <1>2, WantedType DEF TypeInv
<1> QED BY <1>3, <1>4 DEF T

LEMMA AskedType ==
  ASSUME TypeInv, NEW m \in DOMAIN plan, NEW b, NEW kinds
  PROVE  Asked(b, kinds, m) \in Int
<1> DEFINE T == SourcesOf(b, kinds, m)
           g == [key \in T |-> Wanted(m, key)]
<1>1. IsFiniteSet(DOMAIN g) /\ \A key \in DOMAIN g : g[key] \in Int
  BY SourcesFinite
<1>2. SumFunction(g) \in Int
  <2> HIDE DEF g
  <2> QED BY <1>1, SumFunctionType
<1> QED BY <1>2 DEF Asked

\* Kinds are added one by one.
LEMMA AskedUnion ==
  ASSUME TypeInv, NEW m \in DOMAIN plan, NEW b, NEW kinds, NEW others, kinds \cap others = {}
  PROVE  Asked(b, kinds \cup others, m) = Asked(b, kinds, m) + Asked(b, others, m)
<1> DEFINE T == SourcesOf(b, kinds, m)
           U == SourcesOf(b, others, m)
           V == SourcesOf(b, kinds \cup others, m)
           f == [key \in T |-> Wanted(m, key)]
           g == [key \in U |-> Wanted(m, key)]
           h == [key \in V |-> Wanted(m, key)]
<1>1. V = T \cup U /\ T \cap U = {}
  BY DEF SourcesOf
<1>2. /\ IsFiniteSet(T) /\ IsFiniteSet(U)
      /\ \A key \in T \cup U : Wanted(m, key) \in Int
  BY SourcesFinite
<1>3. /\ DOMAIN f = T /\ DOMAIN g = U /\ DOMAIN h = V
      /\ \A key \in T : f[key] = h[key]
      /\ \A key \in U : g[key] = h[key]
      /\ \A key \in T \cup U : h[key] \in Int
  BY <1>1, <1>2
<1>4. SumFunction(h) = SumFunction(f) + SumFunction(g)
  <2> HIDE DEF f, g, h, T, U, V
  <2>1. SumFunctionOnSet(h, T \cup U) = SumFunctionOnSet(h, T) + SumFunctionOnSet(h, U)
    BY <1>1, <1>2, <1>3, SumUnion
  <2>2. SumFunctionOnSet(h, T) = SumFunctionOnSet(f, T) /\ SumFunctionOnSet(h, U) = SumFunctionOnSet(g, U)
    BY <1>2, <1>3, SumAgree
  <2> QED BY <1>1, <1>3, <2>1, <2>2, SumIsOnDomain
<1> QED BY <1>4 DEF Asked

\* What is wanted of each source.
AreWanted(f, S, m, b, kind) == \A x \in S : f[x] = Wanted(m, <<b, kind, x>>)

\* A kind whose sources are S, in one bucket.
LEMMA AskedOfKind ==
  ASSUME TypeInv, NEW m \in DOMAIN plan, NEW b, NEW kind, NEW S, IsFiniteSet(S),
         AreKeys(SourcesOf(b, {kind}, m), b, kind, S), NEW f, AreWanted(f, S, m, b, kind)
  PROVE  Asked(b, {kind}, m) = SumFunctionOnSet(f, S) /\ \A x \in S : f[x] \in Int
<1> DEFINE T == SourcesOf(b, {kind}, m)
           w == [key \in T |-> Wanted(m, key)]
<1>1. \A x \in S : w[<<b, kind, x>>] = f[x] /\ f[x] \in Int
  <2> TAKE x \in S
  <2>1. <<b, kind, x>> \in T
    BY DEF AreKeys
  <2>2. Wanted(m, <<b, kind, x>>) \in Int /\ w[<<b, kind, x>>] = Wanted(m, <<b, kind, x>>)
    <3> HIDE DEF T
    <3>1. \A key \in T : Wanted(m, key) \in Int
      BY SourcesFinite DEF T
    <3> QED BY <2>1, <3>1
  <2> QED BY <2>2 DEF AreWanted
<1>2. DOMAIN w = T
  OBVIOUS
<1>3. SumFunction(w) = SumFunctionOnSet(f, S)
  <2> HIDE DEF w, T
  <2>1. SumFunctionOnSet(w, T) = SumFunctionOnSet(f, S)
    <3>1. AreKeys(T, b, kind, S)
      BY DEF T
    <3> QED BY <1>1, <3>1, SumKeys
  <2>2. SumFunction(w) = SumFunctionOnSet(w, DOMAIN w)
    BY SumIsOnDomain
  <2> QED BY <1>2, <2>1, <2>2
<1> HIDE DEF w, T
<1> QED BY <1>1, <1>3 DEF Asked, w, T

----------------------------------------------------------------------------
(* What a month adds to the categories and to Unallocated together.                      *)

\* What an entry posts to a bucket, and to all of them; the rest of it is income.
PostedBy(t, b) ==
  (IF Spends(t) THEN Sides(t, b, txns[t].eur) ELSE 0)
    + (IF txns[t].kind = "reallocate" THEN Sides(t, b, txns[t].amount) ELSE 0)

\* ... to all categories and Unallocated together.
PostedToAll(t) ==
  IF txns[t].kind = "expense" THEN -txns[t].eur
  ELSE IF txns[t].kind = "income" /\ Spends(t) THEN txns[t].eur ELSE 0

\* ... what is income nobody planned, and what is salary.
IncomeOf(t) == IF Unplanned(t) THEN txns[t].eur ELSE 0

SalaryOf(t) == IF txns[t].kind = "income" /\ Treatment(t) = "salary" THEN txns[t].eur ELSE 0

LEMMA EntriesFinite ==
  ASSUME FactsType, NEW m
  PROVE  /\ IsFiniteSet(EntriesOf(m))
         /\ \A t \in EntriesOf(m) :
              /\ t \in DOMAIN txns /\ txns[t] \in Entries /\ txns[t].eur \in Nat /\ txns[t].amount \in Nat
              /\ txns[t].kind \in Kinds
<1>1. EntriesOf(m) \subseteq DOMAIN txns
  BY DEF EntriesOf
<1>2. IsFiniteSet(EntriesOf(m))
  BY <1>1, FiniteTables, FS_Subset
<1> QED BY <1>1, <1>2 DEF FactsType, EntriesType, Entries

\* What the entries of a month ask for, over the buckets, is the sum of what each posts.
LEMMA AskedEntries ==
  ASSUME TypeInv, NEW m \in DOMAIN plan, NEW c \in Known
  PROVE  /\ Asked(c, {"spending", "reallocation"}, m)
              = SumFunctionOnSet([t \in EntriesOf(m) |-> PostedBy(t, c)], EntriesOf(m))
         /\ \A t \in EntriesOf(m) : PostedBy(t, c) \in Int
<1> DEFINE E == EntriesOf(m)
           f == [t \in E |-> IF Spends(t) THEN Sides(t, c, txns[t].eur) ELSE 0]
           g == [t \in E |-> IF txns[t].kind = "reallocate" THEN Sides(t, c, txns[t].amount) ELSE 0]
           h == [t \in E |-> PostedBy(t, c)]
<1>1. IsFiniteSet(E)
  BY EntriesFinite DEF TypeInv
<1>2. Asked(c, {"spending", "reallocation"}, m) = Asked(c, {"spending"}, m) + Asked(c, {"reallocation"}, m)
  <2>1. {"spending", "reallocation"} = {"spending"} \cup {"reallocation"} /\ {"spending"} \cap {"reallocation"} = {}
    OBVIOUS
  <2> QED BY <2>1, AskedUnion
<1>3. AreKeys(SourcesOf(c, {"spending"}, m), c, "spending", E)
  BY DEF AreKeys, SourcesOf, Sources
<1>4. AreKeys(SourcesOf(c, {"reallocation"}, m), c, "reallocation", E)
  BY DEF AreKeys, SourcesOf, Sources
<1>5. AreWanted(f, E, m, c, "spending") /\ AreWanted(g, E, m, c, "reallocation")
  BY DEF Wanted, AreWanted
<1>6. \A t \in E : h[t] = f[t] + g[t]
  BY DEF PostedBy
<1>7. \A t \in E : h[t] = PostedBy(t, c)
  OBVIOUS
<1> HIDE DEF E, f, g, h
<1>8. Asked(c, {"spending"}, m) = SumFunctionOnSet(f, E) /\ \A t \in E : f[t] \in Int
  BY <1>1, <1>3, <1>5, AskedOfKind
<1>9. Asked(c, {"reallocation"}, m) = SumFunctionOnSet(g, E) /\ \A t \in E : g[t] \in Int
  BY <1>1, <1>4, <1>5, AskedOfKind
<1>10. SumFunctionOnSet(h, E) = SumFunctionOnSet(f, E) + SumFunctionOnSet(g, E)
  BY <1>1, <1>6, <1>8, <1>9, SumPlus
<1>11. \A t \in E : PostedBy(t, c) \in Int
  BY <1>6, <1>7, <1>8, <1>9
<1> QED BY <1>2, <1>8, <1>9, <1>10, <1>11 DEF h, E

\* An amount brought to a bucket is taken from another, unless that is External.
LEMMA SidesAcross ==
  ASSUME NEW S, IsFiniteSet(S), NEW t, NEW x \in Int
  PROVE  SumFunctionOnSet([b \in S |-> Sides(t, b, x)], S)
           = (IF txns[t].to \in S THEN x ELSE 0) - (IF txns[t].from \in S THEN x ELSE 0)
<1> DEFINE y == txns[t].to
           z == txns[t].from
           n == -x
           f == [b \in S |-> IF b = y THEN x ELSE 0]
           g == [b \in S |-> IF b = z THEN n ELSE 0]
           h == [b \in S |-> Sides(t, b, x)]
<1>1. \A b \in S : f[b] \in Int /\ g[b] \in Int /\ h[b] = f[b] + g[b]
  BY DEF Sides
<1>2. OnlyAt(f, S, y, x) /\ OnlyAt(g, S, z, n)
  BY DEF OnlyAt
<1>3. n \in Int
  OBVIOUS
<1> HIDE DEF f, g, h, n, y, z
<1>4. SumFunctionOnSet(h, S) = SumFunctionOnSet(f, S) + SumFunctionOnSet(g, S)
  BY <1>1, <1>3, SumPlus
<1>5. SumFunctionOnSet(f, S) = IF y \in S THEN x ELSE 0
  BY <1>2, <1>3, SumAt
<1>6. SumFunctionOnSet(g, S) = IF z \in S THEN n ELSE 0
  BY <1>2, <1>3, SumAt
<1>7. SumFunctionOnSet(h, S) = (IF y \in S THEN x ELSE 0) - (IF z \in S THEN x ELSE 0)
  BY <1>4, <1>5, <1>6 DEF n
<1> QED BY <1>7 DEF h, y, z

\* External is no bucket.
LEMMA KnownParts ==
  ASSUME FactsType
  PROVE  /\ External \notin Known /\ categories \subseteq Known /\ Unallocated \notin categories
         /\ start # {} => Known = categories \cup {Unallocated}
BY KnownBuckets DEF Known, FactsType, PlanType, ConstantsAssumption, Buckets

\* What an entry posts to all of them is what it does to cash, less its income.
LEMMA PostedAcross ==
  ASSUME TypeInv, Shapes, NEW t \in DOMAIN txns
  PROVE  SumFunctionOnSet([b \in Known |-> PostedBy(t, b)], Known) = PostedToAll(t)
<1> DEFINE e == txns[t].eur
           h == [b \in Known |-> PostedBy(t, b)]
           s == [b \in Known |-> Sides(t, b, e)]
<1>1. e \in Int /\ txns[t].kind \in Kinds
  BY DEF TypeInv, FactsType, EntriesType, Entries
<1>2. External \notin Known /\ categories \subseteq Known /\ IsFiniteSet(Known)
  BY KnownParts, FiniteTables DEF TypeInv
<1>3. SumFunctionOnSet(s, Known) =
        (IF txns[t].to \in Known THEN e ELSE 0) - (IF txns[t].from \in Known THEN e ELSE 0)
  <2> HIDE DEF e
  <2> QED BY <1>1, <1>2, SidesAcross
<1>4. \A b \in Known : s[b] = Sides(t, b, e) /\ s[b] \in Int
  <2> HIDE DEF e
  <2> QED BY <1>1, SidesType
<1>5. \A b \in Known : h[b] = PostedBy(t, b)
  OBVIOUS
<1>6. PostedToAll(t) = SumFunctionOnSet(h, Known)
  <2> HIDE DEF s, h
  <2>1. CASE txns[t].kind = "expense"
    <3>1. txns[t].from \in categories /\ txns[t].to = External /\ Spends(t)
      BY <2>1 DEF Shapes, Spends
    <3>2. \A b \in Known : h[b] = s[b]
      BY <1>4, <1>5, <2>1, <3>1 DEF PostedBy
    <3>3. SumFunctionOnSet(h, Known) = SumFunctionOnSet(s, Known)
      BY <1>2, <3>2, SumAgree
    <3> QED BY <1>1, <1>2, <1>3, <2>1, <3>1, <3>3 DEF PostedToAll
  <2>2. CASE txns[t].kind = "income" /\ Spends(t)
    <3>1. txns[t].from = External /\ txns[t].to \in Known
      BY <2>2 DEF Shapes
    <3>2. \A b \in Known : h[b] = s[b]
      BY <1>4, <1>5, <2>2 DEF PostedBy
    <3>3. SumFunctionOnSet(h, Known) = SumFunctionOnSet(s, Known)
      BY <1>2, <3>2, SumAgree
    <3> QED BY <1>1, <1>2, <1>3, <2>2, <3>1, <3>3 DEF PostedToAll
  <2>3. CASE txns[t].kind = "income" /\ ~Spends(t)
    <3>1. \A b \in Known : h[b] = 0
      BY <1>5, <2>3 DEF PostedBy
    <3>2. SumFunctionOnSet(h, Known) = 0
      BY <1>2, <3>1, SumZero
    <3> QED BY <2>3, <3>2 DEF PostedToAll
  <2>4. CASE txns[t].kind = "reallocate"
    <3>1. txns[t].from \in Known /\ txns[t].to \in Known /\ txns[t].amount = e /\ ~Spends(t)
      BY <2>4 DEF Shapes, Spends
    <3>2. \A b \in Known : h[b] = s[b]
      BY <1>4, <1>5, <2>4, <3>1 DEF PostedBy
    <3>3. SumFunctionOnSet(h, Known) = SumFunctionOnSet(s, Known)
      BY <1>2, <3>2, SumAgree
    <3>4. SumFunctionOnSet(s, Known) = 0
      BY <1>1, <1>3, <3>1
    <3> QED BY <2>4, <3>3, <3>4 DEF PostedToAll
  <2> QED BY <1>1, <2>1, <2>2, <2>3, <2>4 DEF Kinds
<1> QED BY <1>6

\* The postings of a month, bucket by bucket and entry by entry.
LEMMA PostedInAll ==
  ASSUME TypeInv, Shapes, NEW m \in DOMAIN plan
  PROVE  SumFunctionOnSet([b \in Known |-> Asked(b, {"spending", "reallocation"}, m)], Known)
           = SumFunctionOnSet([t \in EntriesOf(m) |-> PostedToAll(t)], EntriesOf(m))
<1> DEFINE E == EntriesOf(m)
           f == [b \in Known |-> Asked(b, {"spending", "reallocation"}, m)]
           g == [t \in E |-> PostedToAll(t)]
           r == [b \in Known |-> [t \in E |-> PostedBy(t, b)]]
<1>1. IsFiniteSet(Known) /\ IsFiniteSet(E) /\ E \subseteq DOMAIN txns
  BY FiniteTables, EntriesFinite DEF TypeInv
<1>2. \A b \in Known : /\ f[b] = SumFunctionOnSet(r[b], E)
                       /\ \A t \in E : r[b][t] \in Int
  BY AskedEntries
<1>3. ASSUME NEW t \in E PROVE g[t] = SumFunctionOnSet(Column(r, Known, t), Known)
  <2>1. Column(r, Known, t) = [b \in Known |-> PostedBy(t, b)]
    BY DEF Column
  <2>2. g[t] = PostedToAll(t) /\ t \in DOMAIN txns
    BY <1>1
  <2> HIDE DEF r, g
  <2> QED BY <2>1, <2>2, PostedAcross
<1> HIDE DEF E, f, g, r
<1>4. SumFunctionOnSet(f, Known) = SumFunctionOnSet(g, E)
  <2>1. IsTotal(f, r, Known, E) /\ IsFooter(g, r, Known, E)
    BY <1>2, <1>3 DEF IsTotal, IsFooter
  <2> QED BY <1>1, <2>1, SumExchange
<1> QED BY <1>4 DEF f, g, E

----------------------------------------------------------------------------
(* Salary. *)

\* The salary of month m for expectation k.
Paid(k, m) ==
  {u \in MatchedReceipts(k, month) : txns[u].month = m /\ receipts[u].treatment # "legacy"}

\* What each receipt covers of expectation k, and its euros.
Covers(k) == [t \in DOMAIN txns |-> CoveredBy(k, t)]

Euros == [t \in DOMAIN txns |-> txns[t].eur]

LEMMA PaidType ==
  ASSUME FactsType, NEW k \in DOMAIN plan, NEW m
  PROVE  /\ IsFiniteSet(Paid(k, m)) /\ Paid(k, m) \subseteq DOMAIN txns
         /\ \A t \in DOMAIN txns : Covers(k)[t] \in Int /\ Euros[t] \in Int
         /\ SumFunctionOnSet(Covers(k), Paid(k, m)) \in Int
         /\ SumFunctionOnSet(Euros, Paid(k, m)) \in Int
<1>1. IsFiniteSet(Paid(k, m)) /\ Paid(k, m) \subseteq DOMAIN txns
  <2>1. Paid(k, m) \subseteq MatchedReceipts(k, month)
    BY DEF Paid
  <2> QED BY <2>1, MatchedFinite, FS_Subset
<1>2. \A t \in DOMAIN txns : Covers(k)[t] \in Int
  BY CoveredType DEF Covers
<1>3. \A t \in DOMAIN txns : Euros[t] \in Int
  BY DEF Euros, FactsType, EntriesType, Entries
<1>4. \A t \in Paid(k, m) : Covers(k)[t] \in Int /\ Euros[t] \in Int
  BY <1>1, <1>2, <1>3
<1> QED BY <1>1, <1>2, <1>3, <1>4, SumType

\* Salary is what it covers of its expectation and the excess.
LEMMA ExcessPaid ==
  ASSUME FactsType, NEW k \in DOMAIN plan, NEW m
  PROVE  Excess(k, m) = SumFunctionOnSet(Euros, Paid(k, m)) - SumFunctionOnSet(Covers(k), Paid(k, m))
<1> DEFINE S == Paid(k, m)
           f == [t \in S |-> txns[t].eur - CoveredBy(k, t)]
           c == Covers(k)
<1>1. IsFiniteSet(S) /\ \A t \in S : Euros[t] \in Int /\ c[t] \in Int /\ f[t] \in Int /\ Euros[t] = f[t] + c[t]
  <2>1. S \subseteq DOMAIN txns /\ IsFiniteSet(S) /\ \A t \in DOMAIN txns : c[t] \in Int /\ Euros[t] \in Int
    BY PaidType
  <2>2. \A t \in S : f[t] = Euros[t] - c[t]
    BY <2>1 DEF Euros, Covers
  <2> HIDE DEF f, c, S
  <2> QED BY <2>1, <2>2
<1>2. Excess(k, m) = SumFunction(f) /\ DOMAIN f = S
  BY DEF Excess, Paid
<1> HIDE DEF f, c, S
<1>3. SumFunctionOnSet(Euros, S) = SumFunctionOnSet(f, S) + SumFunctionOnSet(c, S)
  BY <1>1, SumPlus
<1>4. SumFunctionOnSet(f, S) \in Int /\ SumFunctionOnSet(c, S) \in Int
  BY <1>1, SumType
<1> QED BY <1>2, <1>3, <1>4, SumIsOnDomain DEF S, c

\* Every salary is paid for one expectation.
LEMMA SalariesPaid ==
  ASSUME TypeInv, Salaries, NEW m \in DOMAIN plan
  PROVE  SumFunctionOnSet([k \in DOMAIN plan |-> SumFunctionOnSet(Euros, Paid(k, m))], DOMAIN plan)
           = SumFunctionOnSet([t \in EntriesOf(m) |-> SalaryOf(t)], EntriesOf(m))
<1> DEFINE E == EntriesOf(m)
           S == {t \in E : txns[t].kind = "income" /\ Treatment(t) = "salary"}
           g == [k \in DOMAIN plan |-> SumFunctionOnSet(Euros, Paid(k, m))]
           h == [t \in E |-> SalaryOf(t)]
           p == [t \in S |-> CHOOSE k \in DOMAIN plan : receipts[t].expected = {k}]
<1>1. /\ IsFiniteSet(E) /\ IsFiniteSet(S) /\ S \subseteq E /\ IsFiniteSet(DOMAIN plan)
      /\ \A t \in E : t \in DOMAIN txns /\ Euros[t] = txns[t].eur /\ Euros[t] \in Int
  <2>1. IsFiniteSet(E) /\ S \subseteq E /\ IsFiniteSet(DOMAIN plan)
    BY EntriesFinite, FiniteTables DEF TypeInv
  <2>2. IsFiniteSet(S)
    BY <2>1, FS_Subset
  <2>3. \A t \in E : t \in DOMAIN txns /\ Euros[t] = txns[t].eur /\ Euros[t] \in Int
    BY EntriesFinite DEF TypeInv, Euros
  <2> QED BY <2>1, <2>2, <2>3
<1>2. ASSUME NEW t \in S
      PROVE  /\ t \in DOMAIN receipts /\ receipts[t].treatment = "salary"
             /\ p[t] \in DOMAIN plan /\ receipts[t].expected = {p[t]}
  <2>1. t \in DOMAIN receipts /\ receipts[t].treatment = "salary"
    BY DEF Treatment
  <2>2. \E k \in DOMAIN plan : receipts[t].expected = {k}
    BY <2>1 DEF Salaries
  <2> QED BY <2>1, <2>2
<1>3. ASSUME NEW k \in DOMAIN plan PROVE Group(p, S, k) = Paid(k, m)
  <2>1. m <= month /\ \A t \in E : txns[t].month = m /\ t \in DOMAIN txns
    BY <1>1 DEF TypeInv, FactsType, PlanType, EntriesOf
  <2>2. ASSUME NEW t \in Group(p, S, k) PROVE t \in Paid(k, m)
    <3>1. t \in S /\ p[t] = k
      BY DEF Group
    <3>2. t \in DOMAIN receipts /\ receipts[t].treatment = "salary" /\ receipts[t].expected = {k}
      BY <1>2, <3>1
    <3>3. t \in E /\ txns[t].kind = "income"
      BY <3>1
    <3> QED BY <2>1, <3>2, <3>3 DEF Paid, MatchedReceipts
  <2>3. ASSUME NEW t \in Paid(k, m) PROVE t \in Group(p, S, k)
    <3>1. /\ t \in DOMAIN txns /\ t \in DOMAIN receipts /\ txns[t].kind = "income" /\ txns[t].month = m
          /\ receipts[t].treatment = "salary" /\ receipts[t].expected = {k}
      BY DEF Paid, MatchedReceipts
    <3>2. t \in S
      BY <3>1 DEF EntriesOf, Treatment
    <3>3. receipts[t].expected = {p[t]}
      BY <1>2, <3>2
    <3>4. p[t] = k
      <4> HIDE DEF p
      <4> QED BY <3>1, <3>3
    <3> QED BY <3>2, <3>4 DEF Group
  <2> QED BY <2>2, <2>3
<1>4. SumFunctionOnSet(g, DOMAIN plan) = SumFunctionOnSet(Euros, S)
  <2>1. \A t \in S : Euros[t] \in Int /\ p[t] \in DOMAIN plan
    BY <1>1, <1>2
  <2>2. \A k \in DOMAIN plan : g[k] = SumFunctionOnSet(Euros, Group(p, S, k))
    BY <1>3
  <2> HIDE DEF g, S, p
  <2> QED BY <1>1, <2>1, <2>2, SumByGroup
<1>5. SumFunctionOnSet(h, E) = SumFunctionOnSet(Euros, S)
  <2> DEFINE T == E \ S
  <2>1. IsFiniteSet(T) /\ S \cap T = {} /\ E = S \cup T
    BY <1>1, FS_Subset
  <2>2. /\ \A t \in S : h[t] = Euros[t] /\ Euros[t] \in Int
        /\ \A t \in T : h[t] = 0
    BY <1>1 DEF SalaryOf
  <2>3. \A t \in S \cup T : h[t] \in Int
    <3> HIDE DEF h, S, T
    <3> QED BY <2>2
  <2> HIDE DEF h, S, T, E
  <2>4. SumFunctionOnSet(h, E) = SumFunctionOnSet(h, S) + SumFunctionOnSet(h, T)
    BY <1>1, <2>1, <2>3, SumUnion
  <2>5. SumFunctionOnSet(h, S) = SumFunctionOnSet(Euros, S) /\ SumFunctionOnSet(h, T) = 0
    BY <1>1, <2>1, <2>2, SumAgree, SumZero
  <2>6. SumFunctionOnSet(Euros, S) \in Int
    BY <1>1, <2>2, SumType
  <2> QED BY <2>4, <2>5, <2>6
<1> QED BY <1>4, <1>5

----------------------------------------------------------------------------
\* What a month does to cash, what its corrections amount to, and its settlements.
Flow(m) == SumFunctionOnSet([t \in DOMAIN txns |-> CashChange(t)], EntriesOf(m))

Corrected(m) == SumFunctionOnSet(corrections[m], Buckets)

\* What expectation k took back in month m: what its receipts covered, and what was given up.
SettledIn(k, m) ==
  SumFunctionOnSet(Covers(k), Paid(k, m)) + (IF plan[k].completed = {m} THEN plan[k].shortfall ELSE 0)

Settlements(m) == SumFunctionOnSet([k \in DOMAIN plan |-> SettledIn(k, m)], DOMAIN plan)

LEMMA CashChangeType ==
  ASSUME FactsType, NEW t \in DOMAIN txns
  PROVE  CashChange(t) \in Int /\ txns[t].eur \in Int
BY DEF FactsType, EntriesType, Entries, Kinds, CashChange

\* Every entry is spending, unplanned income or salary, or moves between buckets.
LEMMA EntryParts ==
  ASSUME TypeInv, NEW t \in DOMAIN txns
  PROVE  /\ CashChange(t) = PostedToAll(t) + IncomeOf(t) + SalaryOf(t)
         /\ PostedToAll(t) \in Int /\ IncomeOf(t) \in Int /\ SalaryOf(t) \in Int
<1>1. txns[t].kind \in Kinds /\ txns[t].eur \in Int
  BY DEF TypeInv, FactsType, EntriesType, Entries
<1>2. Treatment(t) \in Treatments \cup {"none"}
  BY DEF Treatment, TypeInv, FactsType, EntriesType
<1>3. CASE txns[t].kind = "income"
  BY <1>1, <1>2, <1>3 DEF CashChange, PostedToAll, IncomeOf, SalaryOf, Spends, Unplanned, Treatments
<1>4. CASE txns[t].kind = "expense"
  BY <1>1, <1>4 DEF CashChange, PostedToAll, IncomeOf, SalaryOf, Spends, Unplanned
<1>5. CASE txns[t].kind = "reallocate"
  BY <1>1, <1>5 DEF CashChange, PostedToAll, IncomeOf, SalaryOf, Spends, Unplanned
<1> QED BY <1>1, <1>3, <1>4, <1>5 DEF Kinds

LEMMA FlowParts ==
  ASSUME TypeInv, NEW m
  PROVE  Flow(m) = SumFunctionOnSet([t \in EntriesOf(m) |-> PostedToAll(t)], EntriesOf(m))
                     + SumFunctionOnSet([t \in EntriesOf(m) |-> IncomeOf(t)], EntriesOf(m))
                     + SumFunctionOnSet([t \in EntriesOf(m) |-> SalaryOf(t)], EntriesOf(m))
<1> DEFINE E == EntriesOf(m)
           p == [t \in E |-> PostedToAll(t)]
           i == [t \in E |-> IncomeOf(t)]
           s == [t \in E |-> SalaryOf(t)]
           q == [t \in E |-> PostedToAll(t) + IncomeOf(t)]
           c == [t \in DOMAIN txns |-> CashChange(t)]
<1>1. IsFiniteSet(E) /\ E \subseteq DOMAIN txns
  BY EntriesFinite DEF TypeInv
<1>2. \A t \in E : /\ p[t] \in Int /\ i[t] \in Int /\ q[t] = p[t] + i[t]
                   /\ q[t] \in Int /\ s[t] \in Int /\ c[t] = q[t] + s[t]
  <2> TAKE t \in E
  <2>1. t \in DOMAIN txns
    BY <1>1
  <2>2. /\ CashChange(t) = PostedToAll(t) + IncomeOf(t) + SalaryOf(t)
        /\ PostedToAll(t) \in Int /\ IncomeOf(t) \in Int /\ SalaryOf(t) \in Int
    BY <2>1, EntryParts
  <2> QED BY <2>1, <2>2
<1> HIDE DEF E, p, i, s, q, c
<1>3. SumFunctionOnSet(q, E) = SumFunctionOnSet(p, E) + SumFunctionOnSet(i, E)
  BY <1>1, <1>2, SumPlus
<1>4. SumFunctionOnSet(c, E) = SumFunctionOnSet(q, E) + SumFunctionOnSet(s, E)
  BY <1>1, <1>2, SumPlus
<1>5. SumFunctionOnSet(c, E) = SumFunctionOnSet(p, E) + SumFunctionOnSet(i, E) + SumFunctionOnSet(s, E)
  BY <1>3, <1>4
<1> QED BY <1>5 DEF Flow, E, p, i, s, c

\* The kinds that only Unallocated has.
LEMMA AskedHere ==
  ASSUME TypeInv, NEW m \in DOMAIN plan, NEW kind, NEW S, IsFiniteSet(S),
         AreKeys(SourcesOf(Unallocated, {kind}, m), Unallocated, kind, S),
         NEW f, AreWanted(f, S, m, Unallocated, kind)
  PROVE  Asked(Unallocated, {kind}, m) = SumFunctionOnSet(f, S)
<1> DEFINE b == Unallocated
<1>1. AreKeys(SourcesOf(b, {kind}, m), b, kind, S) /\ AreWanted(f, S, m, b, kind)
  OBVIOUS
<1> HIDE DEF b
<1>2. Asked(b, {kind}, m) = SumFunctionOnSet(f, S)
  <2> HIDE ConstantsAssumption
  <2> QED BY <1>1, AskedOfKind
<1> QED BY <1>2 DEF b

LEMMA AskedIncome ==
  ASSUME TypeInv, NEW m \in DOMAIN plan
  PROVE  Asked(Unallocated, {"income"}, m)
           = SumFunctionOnSet([t \in EntriesOf(m) |-> IncomeOf(t)], EntriesOf(m))
<1> DEFINE E == EntriesOf(m)
           f == [t \in E |-> IncomeOf(t)]
<1>1. AreKeys(SourcesOf(Unallocated, {"income"}, m), Unallocated, "income", E)
  BY DEF AreKeys, SourcesOf, Sources
<1>2. AreWanted(f, E, m, Unallocated, "income")
  BY DEF AreWanted, Wanted, IncomeOf
<1>3. IsFiniteSet(E)
  BY EntriesFinite DEF TypeInv
<1> HIDE DEF f, E
<1>4. Asked(Unallocated, {"income"}, m) = SumFunctionOnSet(f, E)
  BY <1>1, <1>2, <1>3, AskedHere
<1> QED BY <1>4 DEF f, E

\* Excess and settlements are the salary that came in, but for what it settled.
LEMMA AskedSettled ==
  ASSUME TypeInv, Salaries, NEW m \in DOMAIN plan
  PROVE  Asked(Unallocated, {"excess"}, m) + Asked(Unallocated, {"settlement"}, m)
           = SumFunctionOnSet([t \in EntriesOf(m) |-> SalaryOf(t)], EntriesOf(m)) - Settlements(m)
<1> DEFINE P == DOMAIN plan
           x == [k \in P |-> Excess(k, m)]
           g == [k \in P |-> IF plan[k].completed = {m} THEN -plan[k].shortfall ELSE 0]
           e == [k \in P |-> SumFunctionOnSet(Euros, Paid(k, m))]
           s == [k \in P |-> SettledIn(k, m)]
           h == [k \in P |-> x[k] + g[k]]
<1>1. IsFiniteSet(P)
  BY FiniteTables DEF TypeInv
<1>2. Asked(Unallocated, {"excess"}, m) = SumFunctionOnSet(x, P)
  <2>1. AreKeys(SourcesOf(Unallocated, {"excess"}, m), Unallocated, "excess", P)
    BY DEF AreKeys, SourcesOf, Sources
  <2>2. AreWanted(x, P, m, Unallocated, "excess")
    BY DEF AreWanted, Wanted
  <2> HIDE DEF x, P
  <2> QED BY <1>1, <2>1, <2>2, AskedHere
<1>3. Asked(Unallocated, {"settlement"}, m) = SumFunctionOnSet(g, P)
  <2>1. AreKeys(SourcesOf(Unallocated, {"settlement"}, m), Unallocated, "settlement", P)
    BY DEF AreKeys, SourcesOf, Sources
  <2>2. AreWanted(g, P, m, Unallocated, "settlement")
    BY DEF AreWanted, Wanted
  <2> HIDE DEF g, P
  <2> QED BY <1>1, <2>1, <2>2, AskedHere
<1>4. \A k \in P : /\ x[k] \in Int /\ g[k] \in Int /\ h[k] = x[k] + g[k]
                   /\ e[k] \in Int /\ s[k] \in Int /\ h[k] \in Int /\ e[k] = h[k] + s[k]
  <2> TAKE k \in P
  <2> DEFINE a == SumFunctionOnSet(Euros, Paid(k, m))
             b == SumFunctionOnSet(Covers(k), Paid(k, m))
  <2>1. a \in Int /\ b \in Int /\ Excess(k, m) = a - b
    BY PaidType, ExcessPaid DEF TypeInv
  <2>2. plan[k].shortfall \in Nat
    BY DEF TypeInv, FactsType, PlanType, IsTable, Instances
  <2>3. /\ x[k] = a - b /\ e[k] = a /\ h[k] = x[k] + g[k]
        /\ g[k] = (IF plan[k].completed = {m} THEN -plan[k].shortfall ELSE 0)
        /\ s[k] = b + (IF plan[k].completed = {m} THEN plan[k].shortfall ELSE 0)
    BY <2>1 DEF SettledIn
  <2> HIDE DEF a, b, x, g, e, s, h
  <2> QED BY <2>1, <2>2, <2>3
<1>5. SumFunctionOnSet(e, P) = SumFunctionOnSet([t \in EntriesOf(m) |-> SalaryOf(t)], EntriesOf(m))
  BY SalariesPaid
<1>6. SumFunctionOnSet(s, P) = Settlements(m)
  BY DEF Settlements
<1> HIDE DEF P, x, g, e, s, h
<1>7. SumFunctionOnSet(h, P) = SumFunctionOnSet(x, P) + SumFunctionOnSet(g, P)
  BY <1>1, <1>4, SumPlus
<1>8. SumFunctionOnSet(e, P) = SumFunctionOnSet(h, P) + SumFunctionOnSet(s, P)
  BY <1>1, <1>4, SumPlus
<1>9. SumFunctionOnSet(s, P) \in Int /\ SumFunctionOnSet(h, P) \in Int
  BY <1>1, <1>4, SumType
<1> QED BY <1>2, <1>3, <1>5, <1>6, <1>7, <1>8, <1>9

LEMMA AskedCorrection ==
  ASSUME TypeInv, NEW m \in DOMAIN plan
  PROVE  Asked(Unallocated, {"correction"}, m) = -corrections[m][Unallocated]
<1> DEFINE S == {m}
           f == [x \in S |-> -corrections[m][Unallocated]]
           n == -corrections[m][Unallocated]
<1>1. Unallocated \in Known
  BY DEF Known, TypeInv, FactsType, PlanType, Started
<1>2. AreKeys(SourcesOf(Unallocated, {"correction"}, m), Unallocated, "correction", S)
  BY <1>1 DEF AreKeys, SourcesOf, Sources
<1>3. AreWanted(f, S, m, Unallocated, "correction")
  BY DEF AreWanted, Wanted
<1>4. IsFiniteSet(S) /\ f[m] = n /\ n \in Int
  <2>1. m \in Months /\ Unallocated \in Buckets
    BY DEF TypeInv, FactsType, PlanType, IsTable, Buckets
  <2>2. corrections[m][Unallocated] \in Int
    BY <2>1 DEF TypeInv, FactsType, CorrectionsType
  <2>3. IsFiniteSet(S)
    BY FS_Singleton
  <2> QED BY <2>2, <2>3
<1>5. SumFunctionOnSet(f, {m}) = n
  <2> HIDE DEF f, n
  <2> QED BY <1>4, SumSingle
<1> HIDE DEF f, S
<1>6. Asked(Unallocated, {"correction"}, m) = SumFunctionOnSet(f, S)
  BY <1>2, <1>3, <1>4, AskedHere
<1> QED BY <1>5, <1>6 DEF S

\* What the movements add to Unallocated, but for the funding and the allocations.
OtherKinds == {"spending", "reallocation", "income", "excess", "settlement", "correction"}

LEMMA AskedOthers ==
  ASSUME TypeInv, NEW m \in DOMAIN plan
  PROVE  Asked(Unallocated, OtherKinds, m)
           = Asked(Unallocated, {"spending", "reallocation"}, m) + Asked(Unallocated, {"income"}, m)
               + Asked(Unallocated, {"excess"}, m) + Asked(Unallocated, {"settlement"}, m)
               + Asked(Unallocated, {"correction"}, m)
<1> DEFINE a == {"spending", "reallocation"}
           b == a \cup {"income"}
           c == b \cup {"excess"}
           d == c \cup {"settlement"}
           e == d \cup {"correction"}
<1>1. e = OtherKinds
  BY DEF OtherKinds
<1>2. a \cap {"income"} = {} /\ b \cap {"excess"} = {} /\ c \cap {"settlement"} = {} /\ d \cap {"correction"} = {}
  OBVIOUS
<1>3. Asked(Unallocated, b, m) = Asked(Unallocated, a, m) + Asked(Unallocated, {"income"}, m)
  <2> HIDE DEF a
  <2> QED BY <1>2, AskedUnion
<1>4. Asked(Unallocated, c, m) = Asked(Unallocated, b, m) + Asked(Unallocated, {"excess"}, m)
  <2> HIDE DEF b
  <2> QED BY <1>2, AskedUnion
<1>5. Asked(Unallocated, d, m) = Asked(Unallocated, c, m) + Asked(Unallocated, {"settlement"}, m)
  <2> HIDE DEF c
  <2> QED BY <1>2, AskedUnion
<1>6. Asked(Unallocated, e, m) = Asked(Unallocated, d, m) + Asked(Unallocated, {"correction"}, m)
  <2> HIDE DEF d
  <2> QED BY <1>2, AskedUnion
<1> HIDE DEF b, c, d, e
<1> QED BY <1>1, <1>3, <1>4, <1>5, <1>6

----------------------------------------------------------------------------
(* What a month adds to the categories and to Unallocated together. *)

\* What a month's corrections take from the categories and from Unallocated.
LEMMA CorrectedParts ==
  ASSUME FactsType, NEW m \in Months, NEW f, \A c \in categories : f[c] = corrections[m][c]
  PROVE  /\ Corrected(m) = SumFunctionOnSet(f, categories) + corrections[m][Unallocated]
         /\ corrections[m][Unallocated] \in Int
         /\ \A c \in categories : f[c] \in Int
<1> DEFINE z == corrections[m]
           B == categories \cup {Unallocated}
           R == Buckets \ B
<1>1. \A b \in Buckets : z[b] \in Int
  BY DEF FactsType, CorrectionsType
<1>2. B \subseteq Buckets /\ Unallocated \in Buckets /\ Unallocated \notin categories /\ Known \subseteq B
  BY KnownBuckets DEF FactsType, PlanType, Buckets, Known
<1>3. \A b \in R : z[b] = 0
  BY <1>2 DEF FactsType, CorrectionsType
<1>4. IsFiniteSet(Buckets) /\ IsFiniteSet(B) /\ IsFiniteSet(R) /\ IsFiniteSet(categories)
  BY <1>2, FiniteTables, FS_Subset
<1>5. B \cup R = Buckets /\ B \cap R = {} /\ B \ {Unallocated} = categories
  BY <1>2
<1>6. Corrected(m) = SumFunctionOnSet(z, Buckets)
  BY DEF Corrected
<1>7. \A c \in categories : f[c] = z[c] /\ f[c] \in Int
  BY <1>1, <1>2
<1> HIDE DEF z, R, B
<1>8. SumFunctionOnSet(z, B \cup R) = SumFunctionOnSet(z, B) + SumFunctionOnSet(z, R)
  BY <1>1, <1>4, <1>5, SumUnion
<1>9. SumFunctionOnSet(z, R) = 0
  BY <1>3, <1>4, SumZero
<1>10. SumFunctionOnSet(z, B) = z[Unallocated] + SumFunctionOnSet(z, B \ {Unallocated})
  <2>1. Unallocated \in B
    BY DEF B
  <2>2. \A b \in B : z[b] \in Int
    BY <1>1, <1>2
  <2> QED BY <1>4, <2>1, <2>2, SumRemove
<1>11. SumFunctionOnSet(z, categories) = SumFunctionOnSet(f, categories)
  BY <1>4, <1>7, SumAgree
<1>12. SumFunctionOnSet(f, categories) \in Int /\ z[Unallocated] \in Int
  BY <1>1, <1>2, <1>4, <1>7, SumType
<1>13. Corrected(m) = SumFunctionOnSet(f, categories) + z[Unallocated]
  <2>1. Corrected(m) = SumFunctionOnSet(z, B) + SumFunctionOnSet(z, R)
    BY <1>5, <1>6, <1>8
  <2>2. SumFunctionOnSet(z, B) = z[Unallocated] + SumFunctionOnSet(f, categories)
    BY <1>5, <1>10, <1>11
  <2> QED BY <1>9, <1>12, <2>1, <2>2
<1> QED BY <1>7, <1>12, <1>13 DEF z

\* What the categories get in a month: the sum of its parts.
LEMMA ChangeSum ==
  ASSUME FactsType, NEW m \in Months, NEW p, \A c \in categories : p[c] \in Int,
         NEW f, \A c \in categories : f[c] = Allocation(c, m) - corrections[m][c] + p[c]
  PROVE  /\ SumFunctionOnSet(f, categories) =
              TotalAllocation(m) + SumFunctionOnSet(p, categories)
                - (Corrected(m) - corrections[m][Unallocated])
         /\ TotalAllocation(m) \in Int /\ Corrected(m) \in Int /\ corrections[m][Unallocated] \in Int
         /\ SumFunctionOnSet(p, categories) \in Int
<1> DEFINE C == categories
           a == [c \in C |-> Allocation(c, m)]
           z == [c \in C |-> corrections[m][c]]
           q == [c \in C |-> a[c] + p[c]]
<1>1. IsFiniteSet(C) /\ \A c \in C : Allocation(c, m) \in Int
  BY FiniteTables, AllocationType
<1>2. /\ Corrected(m) = SumFunctionOnSet(z, C) + corrections[m][Unallocated]
      /\ corrections[m][Unallocated] \in Int /\ \A c \in C : z[c] \in Int
  <2>1. \A c \in C : z[c] = corrections[m][c]
    OBVIOUS
  <2> HIDE DEF z
  <2> QED BY <2>1, CorrectedParts
<1>3. \A c \in C : z[c] = corrections[m][c] /\ a[c] = Allocation(c, m) /\ q[c] = a[c] + p[c]
  OBVIOUS
<1>4. TotalAllocation(m) = SumFunctionOnSet(a, C)
  <2>1. TotalAllocation(m) = SumFunction(a) /\ DOMAIN a = C
    BY DEF TotalAllocation
  <2> HIDE DEF a
  <2> QED BY <2>1, SumIsOnDomain
<1> HIDE DEF C, a, z, q
<1>5. \A c \in C : /\ a[c] \in Int /\ p[c] \in Int /\ q[c] = a[c] + p[c] /\ q[c] \in Int
                   /\ f[c] \in Int /\ z[c] \in Int /\ q[c] = f[c] + z[c]
  <2> TAKE c \in C
  <2>1. /\ a[c] \in Int /\ p[c] \in Int /\ z[c] \in Int /\ q[c] = a[c] + p[c]
        /\ f[c] = a[c] - z[c] + p[c]
    BY <1>1, <1>2, <1>3 DEF C
  <2> QED BY <2>1
<1>6. SumFunctionOnSet(q, C) = SumFunctionOnSet(a, C) + SumFunctionOnSet(p, C)
  BY <1>1, <1>5, SumPlus
<1>7. SumFunctionOnSet(q, C) = SumFunctionOnSet(f, C) + SumFunctionOnSet(z, C)
  BY <1>1, <1>5, SumPlus
<1>8. /\ SumFunctionOnSet(a, C) \in Int /\ SumFunctionOnSet(p, C) \in Int
      /\ SumFunctionOnSet(f, C) \in Int /\ SumFunctionOnSet(z, C) \in Int
  BY <1>1, <1>5, SumType
<1>9. /\ SumFunctionOnSet(f, C) =
           TotalAllocation(m) + SumFunctionOnSet(p, C) - (Corrected(m) - corrections[m][Unallocated])
      /\ TotalAllocation(m) \in Int /\ Corrected(m) \in Int
  BY <1>2, <1>4, <1>6, <1>7, <1>8
<1> QED BY <1>2, <1>8, <1>9 DEF C

\* A month of the plan, whose income is funded.
LEMMA UnallocatedAsked ==
  ASSUME TypeInv, NEW m \in DOMAIN plan, Agree(m), plan[m].eur > 0
  PROVE  /\ UnallocatedChange(m) = Asked(Unallocated, OtherKinds, m) + plan[m].eur - TotalAllocation(m)
         /\ Asked(Unallocated, OtherKinds, m) \in Int /\ plan[m].eur \in Int /\ TotalAllocation(m) \in Int
<1> DEFINE key == <<Unallocated, "funding", m>>
           g == [c \in categories |-> Monthly(c, m)]
<1>1. key \in Sources(m) /\ Wanted(m, key) = plan[m].eur
  BY DEF Sources, Wanted
<1>2. plan[m].eur \in Int /\ TotalAllocation(m) \in Int
  BY TotalAllocationType DEF TypeInv, FactsType, PlanType, IsTable, Instances
<1>3. key \in DOMAIN ledger[m]
  BY <1>1, <1>2 DEF Agree
<1>4. UnallocatedChange(m) =
        Moved(Unallocated, {"spending", "reallocation", "income", "excess", "settlement", "correction"}, m)
          + (IF key \in DOMAIN ledger[m] THEN Moved(Unallocated, {"funding", "allocation"}, m)
             ELSE Eur(Expected(m), m) - SumFunction(g))
  BY DEF UnallocatedChange
<1> HIDE DEF key, g
<1>5. UnallocatedChange(m) = Moved(Unallocated, OtherKinds, m) + Moved(Unallocated, {"funding", "allocation"}, m)
  BY <1>3, <1>4 DEF OtherKinds
<1>6. Moved(Unallocated, OtherKinds, m) = Asked(Unallocated, OtherKinds, m)
  BY MovedAgreed
<1>7. Moved(Unallocated, {"funding", "allocation"}, m) = plan[m].eur - TotalAllocation(m)
  BY MovedAgreed, AskedFunding
<1>8. Asked(Unallocated, OtherKinds, m) \in Int
  BY AskedType
<1> QED BY <1>2, <1>5, <1>6, <1>7, <1>8

LEMMA CategoryAsked ==
  ASSUME TypeInv, NEW m \in DOMAIN plan, Agree(m), NEW c \in categories
  PROVE  CategoryChange(c, m) = Allocation(c, m) - corrections[m][c] + Asked(c, {"spending", "reallocation"}, m)
<1>1. Started(m) /\ c \in Known /\ c # Unallocated
  BY DEF TypeInv, FactsType, PlanType, Known
<1>2. Moved(c, {"allocation"}, m) = Allocation(c, m)
  BY <1>1, MovedAgreed, AskedAllocation
<1>3. Moved(c, {"spending", "reallocation"}, m) = Asked(c, {"spending", "reallocation"}, m)
  BY MovedAgreed
<1> QED BY <1>1, <1>2, <1>3 DEF Monthly, CategoryChange

\* What the categories get, as a function of the category.
Changes(m) == [c \in categories |-> CategoryChange(c, m)]

\* What a month of the plan adds to the categories and Unallocated together.
LEMMA MonthAdds ==
  ASSUME TypeInv, Shapes, Salaries, NEW m \in DOMAIN plan, Agree(m), plan[m].eur > 0
  PROVE  SumFunctionOnSet(Changes(m), categories) + UnallocatedChange(m)
           = plan[m].eur - Corrected(m) + Flow(m) - Settlements(m)
<1> DEFINE C == categories
           K == Known
           u == Unallocated
           f == Changes(m)
           p == [c \in K |-> Asked(c, {"spending", "reallocation"}, m)]
           P == SumFunctionOnSet([t \in EntriesOf(m) |-> PostedToAll(t)], EntriesOf(m))
           I == SumFunctionOnSet([t \in EntriesOf(m) |-> IncomeOf(t)], EntriesOf(m))
           S == SumFunctionOnSet([t \in EntriesOf(m) |-> SalaryOf(t)], EntriesOf(m))
           a == Asked(Unallocated, {"spending", "reallocation"}, m)
           i == Asked(Unallocated, {"income"}, m)
           x == Asked(Unallocated, {"excess"}, m)
           s == Asked(Unallocated, {"settlement"}, m)
           n == Asked(Unallocated, {"correction"}, m)
           w == corrections[m][Unallocated]
<1>1. m \in Months /\ FactsType /\ start # {} /\ IsFiniteSet(K)
  BY FiniteTables DEF TypeInv, FactsType, PlanType, IsTable, Started
<1>2. K = C \cup {u} /\ u \notin C
  BY <1>1, KnownParts
<1>3. \A c \in K : p[c] \in Int /\ p[c] = Asked(c, {"spending", "reallocation"}, m)
  BY AskedType
<1>4. p[u] = a
  BY <1>2
<1>5. \A c \in C : f[c] = Allocation(c, m) - corrections[m][c] + p[c]
  BY <1>2, CategoryAsked DEF Changes
<1>6. SumFunctionOnSet(p, K) = P
  BY PostedInAll
<1>7. Flow(m) = P + I + S
  BY FlowParts
<1>8. i = I
  BY AskedIncome
<1>9. x + s = S - Settlements(m)
  BY AskedSettled
<1>10. n = -w
  BY AskedCorrection
<1>11. Asked(u, OtherKinds, m) = a + i + x + s + n
  BY AskedOthers
<1>12. a \in Int /\ i \in Int /\ x \in Int /\ s \in Int /\ n \in Int
  BY AskedType
<1>13. P \in Int /\ I \in Int /\ S \in Int
  <2> DEFINE E == EntriesOf(m)
             pp == [t \in EntriesOf(m) |-> PostedToAll(t)]
             ii == [t \in EntriesOf(m) |-> IncomeOf(t)]
             ss == [t \in EntriesOf(m) |-> SalaryOf(t)]
  <2>1. IsFiniteSet(E) /\ \A t \in E : t \in DOMAIN txns
    BY <1>1, EntriesFinite
  <2>2. \A t \in E : pp[t] \in Int /\ ii[t] \in Int /\ ss[t] \in Int
    BY <2>1, EntryParts
  <2> HIDE DEF E, pp, ii, ss
  <2>3. SumFunctionOnSet(pp, E) \in Int /\ SumFunctionOnSet(ii, E) \in Int /\ SumFunctionOnSet(ss, E) \in Int
    BY <2>1, <2>2, SumType
  <2> QED BY <2>3 DEF E, pp, ii, ss
<1>14. Settlements(m) \in Int
  <2> DEFINE ss == [k \in DOMAIN plan |-> SettledIn(k, m)]
  <2>1. IsFiniteSet(DOMAIN plan)
    BY <1>1, FiniteTables
  <2>2. \A k \in DOMAIN plan : ss[k] \in Int
    <3> TAKE k \in DOMAIN plan
    <3>1. SumFunctionOnSet(Covers(k), Paid(k, m)) \in Int
      BY <1>1, PaidType
    <3>2. plan[k].shortfall \in Int
      BY <1>1 DEF FactsType, PlanType, IsTable, Instances
    <3> QED BY <3>1, <3>2 DEF SettledIn
  <2> HIDE DEF ss
  <2>3. SumFunctionOnSet(ss, DOMAIN plan) \in Int
    BY <2>1, <2>2, SumType
  <2> QED BY <2>3 DEF Settlements, ss
<1>15. UnallocatedChange(m) = Asked(u, OtherKinds, m) + plan[m].eur - TotalAllocation(m) /\ plan[m].eur \in Int
  BY UnallocatedAsked
<1> HIDE DEF f, p, P, I, S, a, i, x, s, n, C, K, u, w
<1>16. SumFunctionOnSet(p, K) = a + SumFunctionOnSet(p, C)
  <2>1. u \in K /\ K \ {u} = C
    BY <1>2
  <2>2. SumFunctionOnSet(p, K) = p[u] + SumFunctionOnSet(p, K \ {u})
    BY <1>1, <1>3, <2>1, SumRemove
  <2> QED BY <1>4, <2>1, <2>2
<1>17. /\ SumFunctionOnSet(f, C) = TotalAllocation(m) + SumFunctionOnSet(p, C) - (Corrected(m) - w)
       /\ TotalAllocation(m) \in Int /\ Corrected(m) \in Int /\ w \in Int /\ SumFunctionOnSet(p, C) \in Int
  <2>1. \A c \in C : p[c] \in Int
    BY <1>2, <1>3
  <2> QED BY <1>1, <1>5, <2>1, ChangeSum DEF C, w
<1>18. SumFunctionOnSet(f, C) + UnallocatedChange(m) = plan[m].eur - Corrected(m) + Flow(m) - Settlements(m)
  <2> DEFINE F == SumFunctionOnSet(f, C)
             Q == SumFunctionOnSet(p, C)
             T == TotalAllocation(m)
             R == Corrected(m)
             L == Settlements(m)
             N == plan[m].eur
             U == UnallocatedChange(m)
             O == Asked(u, OtherKinds, m)
             W == Flow(m)
  <2>1. P = a + Q /\ F = T + Q - (R - w) /\ U = O + N - T /\ O = a + i + x + s + n /\ n = -w
        /\ x + s = S - L /\ i = I /\ W = P + I + S
    BY <1>6, <1>7, <1>8, <1>9, <1>10, <1>11, <1>15, <1>16, <1>17
  <2>2. /\ P \in Int /\ a \in Int /\ Q \in Int /\ T \in Int /\ R \in Int /\ w \in Int /\ N \in Int
        /\ i \in Int /\ x \in Int /\ s \in Int /\ L \in Int /\ I \in Int /\ S \in Int
    BY <1>12, <1>13, <1>14, <1>15, <1>17
  <2> HIDE DEF F, Q, T, R, L, N, U, O, W
  <2>3. F + U = N - R + W - L
    BY <2>1, <2>2
  <2> QED BY <2>3 DEF F, R, L, N, U, W
<1> QED BY <1>18 DEF f, C

----------------------------------------------------------------------------
(* A month before the start. *)

\* What the entries of a month do to Unallocated.
Aside(m) == SumFunctionOnSet([t \in DOMAIN txns |-> Sides(t, Unallocated, txns[t].eur)], EntriesOf(m))

LEMMA SidesInEuros ==
  ASSUME FactsType, Shapes, NEW t \in DOMAIN txns, NEW b
  PROVE  /\ Sides(t, b, IF txns[t].kind = "reallocate" THEN txns[t].amount ELSE txns[t].eur)
              = Sides(t, b, txns[t].eur)
         /\ Sides(t, b, txns[t].eur) \in Int
<1>1. txns[t].eur \in Int
  BY CashChangeType
<1>2. txns[t].kind = "reallocate" => txns[t].amount = txns[t].eur
  BY DEF Shapes
<1> QED BY <1>1, <1>2, SidesType

LEMMA EnteredSides ==
  ASSUME FactsType, Shapes, NEW m, NEW b
  PROVE  Entered(b, m) = SumFunctionOnSet([t \in EntriesOf(m) |-> Sides(t, b, txns[t].eur)], EntriesOf(m))
<1> DEFINE E == EntriesOf(m)
           f == [t \in E |-> Sides(t, b, IF txns[t].kind = "reallocate" THEN txns[t].amount ELSE txns[t].eur)]
           g == [t \in E |-> Sides(t, b, txns[t].eur)]
<1>1. \A t \in E : t \in DOMAIN txns
  BY EntriesFinite
<1>2. f = g
  BY <1>1, SidesInEuros
<1>3. Entered(b, m) = SumFunction(g)
  BY <1>2 DEF Entered
<1>4. DOMAIN g = E
  OBVIOUS
<1> HIDE DEF E, g
<1> QED BY <1>3, <1>4, SumIsOnDomain DEF E, g

LEMMA SidesCash ==
  ASSUME FactsType, Shapes, NEW t \in DOMAIN txns
  PROVE  SumFunctionOnSet([b \in categories \cup {Unallocated} |-> Sides(t, b, txns[t].eur)],
                          categories \cup {Unallocated})
           = CashChange(t)
<1> DEFINE B == categories \cup {Unallocated}
           e == txns[t].eur
<1>1. IsFiniteSet(B)
  BY FiniteTables, FS_Singleton, FS_Union
<1>2. e \in Int
  BY CashChangeType
<1>3. Known \subseteq B /\ External \notin B
  BY DEF Known, FactsType, PlanType, Buckets
<1>4. SumFunctionOnSet([b \in B |-> Sides(t, b, e)], B)
        = (IF txns[t].to \in B THEN e ELSE 0) - (IF txns[t].from \in B THEN e ELSE 0)
  <2> HIDE DEF B, e
  <2> QED BY <1>1, <1>2, SidesAcross
<1>5. (IF txns[t].to \in B THEN e ELSE 0) - (IF txns[t].from \in B THEN e ELSE 0) = CashChange(t)
  <2>1. CASE txns[t].kind = "expense" /\ txns[t].from \in categories /\ txns[t].to = External
    BY <1>2, <1>3, <2>1 DEF CashChange
  <2>2. CASE txns[t].kind = "income" /\ txns[t].from = External /\ txns[t].to \in Known
    BY <1>2, <1>3, <2>2 DEF CashChange
  <2>3. CASE txns[t].kind = "reallocate" /\ txns[t].from \in Known /\ txns[t].to \in Known
    BY <1>2, <1>3, <2>3 DEF CashChange
  <2> QED BY <2>1, <2>2, <2>3 DEF Shapes
<1> QED BY <1>4, <1>5

\* What the entries of a month do to the categories and to Unallocated is what they do to the cash.
LEMMA EnteredInAll ==
  ASSUME FactsType, Shapes, NEW m
  PROVE  /\ SumFunctionOnSet([c \in categories |-> Entered(c, m)], categories) + Aside(m) = Flow(m)
         /\ SumFunctionOnSet([c \in categories |-> Entered(c, m)], categories) \in Int
         /\ Aside(m) \in Int
<1> DEFINE C == categories
           u == Unallocated
           B == categories \cup {Unallocated}
           E == EntriesOf(m)
           f == [b \in B |-> Entered(b, m)]
           p == [c \in C |-> Entered(c, m)]
           s == [t \in DOMAIN txns |-> Sides(t, u, txns[t].eur)]
           g == [t \in DOMAIN txns |-> CashChange(t)]
           r == [b \in B |-> [t \in E |-> Sides(t, b, txns[t].eur)]]
<1>1. IsFiniteSet(C) /\ IsFiniteSet(B) /\ IsFiniteSet(E) /\ E \subseteq DOMAIN txns
  BY FiniteTables, EntriesFinite, FS_Singleton, FS_Union
<1>2. u \in B /\ B \ {u} = C /\ u \notin C
  BY DEF FactsType, PlanType
<1>3. \A b \in B : /\ f[b] = SumFunctionOnSet(r[b], E)
                   /\ \A t \in E : r[b][t] \in Int
  <2> TAKE b \in B
  <2>1. r[b] = [t \in E |-> Sides(t, b, txns[t].eur)]
    OBVIOUS
  <2>2. \A t \in E : Sides(t, b, txns[t].eur) \in Int
    BY <1>1, SidesInEuros
  <2>3. f[b] = Entered(b, m)
    OBVIOUS
  <2> HIDE DEF f, r, B
  <2> QED BY <2>1, <2>2, <2>3, EnteredSides
<1>4. ASSUME NEW t \in E PROVE g[t] = SumFunctionOnSet(Column(r, B, t), B)
  <2>1. Column(r, B, t) = [b \in B |-> Sides(t, b, txns[t].eur)]
    BY DEF Column
  <2>2. t \in DOMAIN txns
    BY <1>1
  <2>3. g[t] = CashChange(t)
    BY <2>2
  <2> HIDE DEF g, r
  <2> QED BY <2>1, <2>2, <2>3, SidesCash
<1>5. \A b \in B : f[b] \in Int /\ f[b] = Entered(b, m)
  BY EnteredType
<1>6. \A c \in C : p[c] = f[c] /\ p[c] \in Int
  BY <1>2, <1>5
<1>7. f[u] = SumFunctionOnSet(s, E)
  <2>1. f[u] = SumFunctionOnSet(r[u], E)
    BY <1>2, <1>3
  <2>2. \A t \in E : r[u][t] = s[t]
    BY <1>1, <1>2
  <2> HIDE DEF r, s, E, f
  <2> QED BY <1>1, <2>1, <2>2, SumAgree
<1> HIDE DEF C, u, B, E, f, p, s, g, r
<1>8. SumFunctionOnSet(f, B) = SumFunctionOnSet(g, E)
  <2>1. IsTotal(f, r, B, E)
    BY <1>3 DEF IsTotal
  <2>2. IsFooter(g, r, B, E)
    BY <1>4 DEF IsFooter
  <2> QED BY <1>1, <2>1, <2>2, SumExchange
<1>9. SumFunctionOnSet(f, B) = f[u] + SumFunctionOnSet(f, B \ {u})
  BY <1>1, <1>2, <1>5, SumRemove
<1>10. SumFunctionOnSet(p, C) = SumFunctionOnSet(f, C)
  BY <1>1, <1>6, SumAgree
<1>11. SumFunctionOnSet(p, C) \in Int /\ f[u] \in Int
  BY <1>1, <1>2, <1>5, <1>6, SumType
<1>12. /\ SumFunctionOnSet(p, C) + SumFunctionOnSet(s, E) = SumFunctionOnSet(g, E)
       /\ SumFunctionOnSet(p, C) \in Int /\ SumFunctionOnSet(s, E) \in Int
  <2>1. SumFunctionOnSet(f, B) = f[u] + SumFunctionOnSet(f, C)
    BY <1>2, <1>9
  <2> QED BY <1>7, <1>8, <1>10, <1>11, <2>1
<1> QED BY <1>12 DEF Flow, Aside, C, u, E, p, s, g

\* What a month before the start adds to the categories.
LEMMA MonthAddsBefore ==
  ASSUME FactsType, Shapes, NEW m \in Months, ~Started(m), corrections[m][Unallocated] = 0
  PROVE  SumFunctionOnSet(Changes(m), categories)
           = TotalAllocation(m) - Corrected(m) + Flow(m) - Aside(m)
<1> DEFINE C == categories
           f == Changes(m)
           p == [c \in C |-> Entered(c, m)]
<1>1. \A c \in C : f[c] = Allocation(c, m) - corrections[m][c] + p[c] /\ p[c] \in Int
  BY EnteredType DEF Changes, CategoryChange, Monthly
<1>2. /\ SumFunctionOnSet(p, C) + Aside(m) = Flow(m)
      /\ SumFunctionOnSet(p, C) \in Int /\ Aside(m) \in Int
  BY EnteredInAll
<1> HIDE DEF f, p
<1>3. /\ SumFunctionOnSet(f, C) =
           TotalAllocation(m) + SumFunctionOnSet(p, C) - (Corrected(m) - corrections[m][Unallocated])
      /\ TotalAllocation(m) \in Int /\ Corrected(m) \in Int
  BY <1>1, ChangeSum
<1> QED BY <1>2, <1>3 DEF f

----------------------------------------------------------------------------
(* The months one after the other. *)

\* Everything a month adds.
Added(m) == SumFunctionOnSet(Changes(m), categories) + (IF Started(m) THEN UnallocatedChange(m) ELSE 0)

\* All balances together.
Total(m) == SumFunctionOnSet(Replayed[m], Known)

LEMMA AddedType ==
  ASSUME TypeInv, NEW m \in Months
  PROVE  Added(m) \in Int
<1> DEFINE f == Changes(m)
<1>1. IsFiniteSet(categories) /\ UnallocatedChange(m) \in Int
  BY FiniteTables, UnallocatedChangeType DEF TypeInv
<1>2. \A c \in categories : f[c] \in Int
  BY MonthlyType DEF Changes, TypeInv
<1> HIDE DEF f
<1>3. SumFunctionOnSet(f, categories) \in Int
  BY <1>1, <1>2, SumType
<1> QED BY <1>1, <1>3 DEF Added, f

\* A month adds to what the month before left.
LEMMA TotalRow ==
  ASSUME TypeInv, start # {}
  PROVE  /\ Total(0) = opening
         /\ \A m \in 1..month : Total(m) = Total(m - 1) + Added(m)
         /\ \A m \in 0..month : Total(m) \in Int
<1> DEFINE C == categories
           u == Unallocated
           K == Known
<1>1. K = C \cup {u} /\ u \notin C /\ IsFiniteSet(K) /\ IsFiniteSet(C) /\ month \in Nat /\ opening \in Int
  BY KnownParts, FiniteTables DEF TypeInv, FactsType, CalendarType, Months
<1>2. ASSUME NEW m \in 0..month, NEW c \in K PROVE Replayed[m][c] \in Int
  <2>1. HasAmounts(Empty)
    BY DEF HasAmounts, Empty
  <2> QED BY <2>1, HistoryType DEF Replayed, TypeInv
<1>3. ASSUME NEW m \in 0..month, NEW c \in K
      PROVE  Replayed[m][c] =
               IF m = 0 THEN IF c = u THEN opening ELSE 0
               ELSE IF c # u THEN Replayed[m - 1][c] + CategoryChange(c, m)
               ELSE IF Started(m) THEN Replayed[m - 1][c] + UnallocatedChange(m)
               ELSE Replayed[m - 1][c]
  BY <1>1, ReplayedRow
<1>4. \A m \in 0..month : Total(m) \in Int
  <2> TAKE m \in 0..month
  <2> DEFINE r == Replayed[m]
  <2>1. \A c \in K : r[c] \in Int
    BY <1>2
  <2> HIDE DEF r, K
  <2>2. SumFunctionOnSet(r, K) \in Int
    BY <1>1, <2>1, SumType
  <2> QED BY <2>2 DEF Total, r, K
<1>5. Total(0) = opening
  <2> DEFINE r == Replayed[0]
  <2>1. OnlyAt(r, K, u, opening)
    <3>1. 0 \in 0..month
      BY <1>1
    <3> QED BY <1>3, <3>1 DEF OnlyAt
  <2>2. u \in K
    BY <1>1
  <2> HIDE DEF r, K, u
  <2>3. SumFunctionOnSet(r, K) = opening
    BY <1>1, <2>1, <2>2, SumAt
  <2> QED BY <2>3 DEF Total, r, K
<1>6. ASSUME NEW m \in 1..month PROVE Total(m) = Total(m - 1) + Added(m)
  <2> DEFINE r == Replayed[m]
             q == Replayed[m - 1]
             x == IF Started(m) THEN UnallocatedChange(m) ELSE 0
             d == [c \in K |-> IF c = u THEN x ELSE CategoryChange(c, m)]
             f == Changes(m)
  <2>1. m \in 0..month /\ m - 1 \in 0..month /\ m # 0 /\ m \in Months
    BY <1>1 DEF TypeInv, FactsType, CalendarType, Months
  <2>2. x \in Int
    BY <2>1, UnallocatedChangeType DEF TypeInv
  <2>3. \A c \in C : CategoryChange(c, m) \in Int
    BY <2>1, MonthlyType DEF TypeInv
  <2>4. \A c \in K : q[c] \in Int /\ d[c] \in Int
    BY <1>1, <1>2, <2>1, <2>2, <2>3
  <2>5. \A c \in K : r[c] = q[c] + d[c]
    <3> TAKE c \in K
    <3>1. r[c] = IF c # u THEN q[c] + CategoryChange(c, m)
                 ELSE IF Started(m) THEN q[c] + UnallocatedChange(m) ELSE q[c]
      BY <1>3, <2>1
    <3>2. d[c] = IF c = u THEN x ELSE CategoryChange(c, m)
      OBVIOUS
    <3>3. q[c] \in Int
      BY <2>4
    <3> HIDE DEF r, q, d
    <3> QED BY <3>1, <3>2, <3>3
  <2>6. u \in K /\ K \ {u} = C /\ d[u] = x
    BY <1>1
  <2>7. \A c \in C : d[c] = f[c]
    BY <1>1 DEF Changes
  <2>8. Added(m) = SumFunctionOnSet(f, C) + x /\ Total(m) = SumFunctionOnSet(r, K)
        /\ Total(m - 1) = SumFunctionOnSet(q, K)
    BY DEF Added, Total
  <2>9. SumFunctionOnSet(f, C) \in Int
    <3>1. \A c \in C : f[c] \in Int
      BY <2>3 DEF Changes
    <3> HIDE DEF f
    <3> QED BY <1>1, <3>1, SumType
  <2> HIDE DEF C, u, K, r, q, x, d, f
  <2>10. SumFunctionOnSet(r, K) = SumFunctionOnSet(q, K) + SumFunctionOnSet(d, K)
    BY <1>1, <2>4, <2>5, SumPlus
  <2>11. SumFunctionOnSet(d, K) = d[u] + SumFunctionOnSet(d, C)
    <3>1. SumFunctionOnSet(d, K) = d[u] + SumFunctionOnSet(d, K \ {u})
      BY <1>1, <2>4, <2>6, SumRemove
    <3> QED BY <2>6, <3>1
  <2>12. SumFunctionOnSet(d, C) = SumFunctionOnSet(f, C)
    BY <1>1, <2>7, SumAgree
  <2>13. SumFunctionOnSet(q, K) \in Int
    BY <1>1, <2>4, SumType
  <2> QED BY <2>2, <2>6, <2>8, <2>9, <2>10, <2>11, <2>12, <2>13
<1> QED BY <1>4, <1>5, <1>6

\* Everything shown is the opening and what the months added.
LEMMA TotalIs ==
  ASSUME TypeInv, start # {}, NEW m \in 0..month
  PROVE  Total(m) = opening + SumFunctionOnSet([i \in Months |-> Added(i)], 1..m)
<1> DEFINE f == [i \in Months |-> Added(i)]
           B == {n \in 0..month : Total(n) # opening + SumFunctionOnSet(f, 1..n)}
<1>1. month \in Nat /\ 1..month \subseteq Months /\ opening \in Int
  BY DEF TypeInv, FactsType, CalendarType, Months
<1>2. \A i \in Months : f[i] = Added(i) /\ f[i] \in Int
  BY AddedType
<1> HIDE DEF f
<1> SUFFICES ASSUME B # {} PROVE FALSE
  BY DEF f
<1>3. PICK n \in B : \A k \in B : n <= k
  <2>1. B \subseteq Nat
    BY <1>1
  <2> HIDE DEF B
  <2> QED BY <2>1, LeastNat
<1>4. n \in 0..month /\ Total(n) # opening + SumFunctionOnSet(f, 1..n)
  BY <1>3
<1>5. CASE n = 0
  <2>1. 1..n = {} /\ SumFunctionOnSet(f, {}) = 0
    BY <1>5, SumEmpty
  <2>2. SumFunctionOnSet(f, 1..n) = 0
    BY <2>1
  <2>3. Total(n) = opening
    BY <1>5, TotalRow
  <2> HIDE DEF B
  <2> QED BY <1>1, <1>4, <2>2, <2>3
<1>6. CASE n # 0
  <2>1. n \in 1..month /\ n - 1 \in 0..month /\ ~(n <= n - 1)
    BY <1>1, <1>4, <1>6
  <2>2. Total(n - 1) = opening + SumFunctionOnSet(f, 1..(n - 1))
    <3>1. n - 1 \notin B
      <4> HIDE DEF B
      <4> QED BY <1>3, <2>1
    <3> QED BY <2>1, <3>1
  <2> HIDE DEF B
  <2>3. Total(n) = Total(n - 1) + Added(n)
    BY <2>1, TotalRow
  <2>4. SumFunctionOnSet(f, 1..n) = f[n] + SumFunctionOnSet(f, 1..(n - 1))
    <3>1. IsFiniteSet(1..n) /\ n \in 1..n /\ (1..n) \ {n} = 1..(n - 1) /\ 1..n \subseteq Months
      BY <1>1, <2>1, FiniteTables DEF TypeInv
    <3> DEFINE R == 1..n
    <3>2. IsFiniteSet(R) /\ n \in R /\ \A i \in R : f[i] \in Int
      BY <1>2, <3>1
    <3> HIDE DEF R
    <3>3. SumFunctionOnSet(f, R) = f[n] + SumFunctionOnSet(f, R \ {n})
      BY <3>2, SumRemove
    <3> QED BY <3>1, <3>3 DEF R
  <2>5. SumFunctionOnSet(f, 1..(n - 1)) \in Int
    <3>1. IsFiniteSet(1..(n - 1)) /\ 1..(n - 1) \subseteq Months
      BY <1>1, <2>1, FiniteTables DEF TypeInv
    <3> QED BY <1>2, <3>1, SumType
  <2>6. f[n] = Added(n) /\ f[n] \in Int
    BY <1>1, <1>2, <2>1
  <2> QED BY <1>1, <1>4, <2>2, <2>3, <2>4, <2>5, <2>6
<1> QED BY <1>5, <1>6

----------------------------------------------------------------------------
(* What the entries and the corrections of the months add up to. *)

\* Before the start corrections do not involve Unallocated.
Unused == \A i \in Months : ~Started(i) => corrections[i][Unallocated] = 0

\* The plan has every month from the start to its last one.
Unbroken == \A k \in DOMAIN plan : \A i \in Months : Started(i) /\ i <= k => i \in DOMAIN plan

\* An expectation is completed at most once, and not before its month.
CompletedOnce ==
  \A k \in DOMAIN plan : plan[k].completed = {} \/ \E c \in Months : k <= c /\ plan[k].completed = {c}

\* The months of the plan through m, and those before it.
PlannedTo(m) == {k \in DOMAIN plan : k <= m}
Unstarted == {i \in Months : ~Started(i)}

\* The months through one of the plan are those before the start and those of the plan.
LEMMA MonthsParted ==
  ASSUME FactsType, Unbroken, NEW m \in DOMAIN plan
  PROVE  /\ 1..m = Unstarted \cup PlannedTo(m) /\ Unstarted \cap PlannedTo(m) = {}
         /\ IsFiniteSet(Unstarted) /\ IsFiniteSet(PlannedTo(m)) /\ IsFiniteSet(1..m)
         /\ m \in Months /\ m <= month /\ 1..m \subseteq Months /\ start # {}
         /\ \A i \in PlannedTo(m) : i \in DOMAIN plan /\ Started(i) /\ i \in Months
<1>1. /\ DOMAIN plan \subseteq Months /\ month \in Months
      /\ \A k \in DOMAIN plan : k <= month /\ Started(k)
      /\ \A i, j \in Months : Started(i) /\ i <= j => Started(j)
  BY DEF FactsType, CalendarType, PlanType, IsTable, Started, Months
<1>2. m \in Months /\ m <= month /\ 1..m \subseteq Months /\ start # {}
  BY <1>1 DEF Months, Started
<1>3. \A i \in PlannedTo(m) : i \in DOMAIN plan /\ Started(i) /\ i \in Months /\ i <= m
  BY <1>1 DEF PlannedTo
<1>4. Unstarted \cap PlannedTo(m) = {}
  BY <1>3 DEF Unstarted
<1>5. 1..m = Unstarted \cup PlannedTo(m)
  <2>1. ASSUME NEW i \in 1..m PROVE i \in Unstarted \cup PlannedTo(m)
    BY <1>2 DEF Unbroken, Unstarted, PlannedTo
  <2>2. ASSUME NEW i \in Unstarted PROVE i \in 1..m
    <3>1. i \in Months /\ ~Started(i)
      BY DEF Unstarted
    <3>2. ~(m <= i)
      BY <1>1, <1>2, <3>1
    <3> QED BY <1>2, <3>1, <3>2 DEF Months
  <2>3. ASSUME NEW i \in PlannedTo(m) PROVE i \in 1..m
    BY <1>2, <1>3 DEF Months
  <2> QED BY <2>1, <2>2, <2>3
<1>6. IsFiniteSet(1..m)
  BY <1>2, FiniteTables DEF Months
<1> QED BY <1>2, <1>3, <1>4, <1>5, <1>6, FS_Subset

\* The flows, by month.
Flows == [i \in Months |-> Flow(i)]

\* Cash is what the entries of the months did to it, and their adjustments.
LEMMA CashFlows ==
  ASSUME FactsType, NEW m \in Months
  PROVE  /\ Cash(m) = SumFunctionOnSet(Flows, 1..m) + SumFunctionOnSet(adjusted, 1..m)
         /\ \A i \in Months : Flows[i] \in Int
<1> DEFINE S == {u \in DOMAIN txns : txns[u].month <= m}
           f == [t \in S |-> CashChange(t)]
           g == [t \in DOMAIN txns |-> CashChange(t)]
           p == [t \in S |-> txns[t].month]
           I == 1..m
<1>1. IsFiniteSet(S) /\ IsFiniteSet(I) /\ S \subseteq DOMAIN txns /\ I \subseteq Months
  BY FiniteTables, FS_Subset DEF Months
<1>2. \A t \in DOMAIN txns : g[t] \in Int /\ txns[t].month \in Months
  BY CashChangeType DEF FactsType, EntriesType, Entries
<1>3. \A t \in S : p[t] \in I /\ f[t] = g[t] /\ g[t] \in Int
  BY <1>1, <1>2 DEF Months
<1>4. ASSUME NEW i \in I PROVE Group(p, S, i) = EntriesOf(i)
  BY <1>1, <1>2 DEF Group, EntriesOf
<1>5. \A i \in Months : Flows[i] = SumFunctionOnSet(g, EntriesOf(i))
  BY DEF Flows, Flow
<1>6. Cash(m) = SumFunction(f) + SumFunctionOnSet(adjusted, I) /\ DOMAIN f = S
  BY DEF Cash
<1> HIDE DEF S, f, g, p, I
<1>7. SumFunction(f) = SumFunctionOnSet(g, S)
  BY <1>1, <1>3, <1>6, SumIsOnDomain, SumAgree
<1>8. SumFunctionOnSet(Flows, I) = SumFunctionOnSet(g, S)
  <2>1. \A i \in I : Flows[i] = SumFunctionOnSet(g, Group(p, S, i))
    BY <1>1, <1>4, <1>5
  <2> QED BY <1>1, <1>3, <2>1, SumByGroup
<1>9. \A i \in Months : Flows[i] \in Int
  <2> TAKE i \in Months
  <2>1. IsFiniteSet(EntriesOf(i)) /\ \A t \in EntriesOf(i) : g[t] \in Int
    BY <1>2, EntriesFinite
  <2> QED BY <1>5, <2>1, SumType
<1> QED BY <1>6, <1>7, <1>8, <1>9 DEF I

Correcteds == [i \in Months |-> Corrected(i)]

LEMMA CorrectedType ==
  ASSUME FactsType
  PROVE  \A i \in Months : Correcteds[i] = Corrected(i) /\ Correcteds[i] \in Int /\ adjusted[i] \in Int
<1> TAKE i \in Months
<1>1. \A b \in Buckets : corrections[i][b] \in Int
  BY DEF FactsType, CorrectionsType
<1>2. IsFiniteSet(Buckets)
  BY FiniteTables
<1>3. SumFunctionOnSet(corrections[i], Buckets) \in Int
  BY <1>1, <1>2, SumType
<1>4. adjusted[i] \in Int
  BY DEF FactsType, CorrectionsType
<1> QED BY <1>3, <1>4 DEF Correcteds, Corrected

\* Entries before the start, as the drift counts them.
Asides == [i \in Months |-> Aside(i)]
Before == {t \in DOMAIN txns : ~Started(txns[t].month)}

LEMMA AsideBefore ==
  ASSUME FactsType, Shapes
  PROVE  /\ SumFunction([t \in Before |-> Sides(t, Unallocated, txns[t].eur)]) = SumFunctionOnSet(Asides, Unstarted)
         /\ \A i \in Months : Asides[i] \in Int
<1> DEFINE f == [t \in Before |-> Sides(t, Unallocated, txns[t].eur)]
           g == [t \in DOMAIN txns |-> Sides(t, Unallocated, txns[t].eur)]
           p == [t \in Before |-> txns[t].month]
<1>1. IsFiniteSet(Before) /\ IsFiniteSet(Unstarted) /\ Before \subseteq DOMAIN txns /\ Unstarted \subseteq Months
  <2>1. Before \subseteq DOMAIN txns /\ Unstarted \subseteq Months /\ Months = 1..LastMonth /\ LastMonth \in Int
    BY DEF Before, Unstarted, Months
  <2>2. IsFiniteSet(Months) /\ IsFiniteSet(DOMAIN txns)
    BY <2>1, FiniteTables
  <2> QED BY <2>1, <2>2, FS_Subset
<1>2. \A t \in DOMAIN txns : g[t] \in Int /\ txns[t].month \in Months
  BY SidesInEuros DEF FactsType, EntriesType, Entries
<1>3. \A t \in Before : p[t] \in Unstarted /\ f[t] = g[t] /\ g[t] \in Int
  BY <1>2 DEF Before, Unstarted
<1>4. ASSUME NEW i \in Unstarted PROVE Group(p, Before, i) = EntriesOf(i)
  BY DEF Group, EntriesOf, Before, Unstarted
<1>5. \A i \in Months : Asides[i] = SumFunctionOnSet(g, EntriesOf(i))
  BY DEF Asides, Aside
<1>6. DOMAIN f = Before
  OBVIOUS
<1> HIDE DEF f, g, p
<1>7. SumFunction(f) = SumFunctionOnSet(g, Before)
  BY <1>1, <1>3, <1>6, SumIsOnDomain, SumAgree
<1>8. SumFunctionOnSet(Asides, Unstarted) = SumFunctionOnSet(g, Before)
  <2>1. \A i \in Unstarted : Asides[i] = SumFunctionOnSet(g, Group(p, Before, i))
    BY <1>1, <1>4, <1>5
  <2> QED BY <1>1, <1>3, <2>1, SumByGroup
<1>9. \A i \in Months : Asides[i] \in Int
  <2> TAKE i \in Months
  <2>1. IsFiniteSet(EntriesOf(i)) /\ \A t \in EntriesOf(i) : g[t] \in Int
    BY <1>2, EntriesFinite
  <2> QED BY <1>5, <2>1, SumType
<1> QED BY <1>7, <1>8, <1>9 DEF f

----------------------------------------------------------------------------
(* What an expectation took back through a month. *)

\* The receipts of expectation k through month m, of one treatment.
Treated(k, m, treatment) == {u \in MatchedReceipts(k, m) : receipts[u].treatment = treatment}

CoveredAs(k, m, treatment) == SumFunctionOnSet(Covers(k), Treated(k, m, treatment))

Back(k, m) ==
  CoveredAs(k, m, "salary") + (IF CompletedBy(k, m) THEN plan[k].shortfall ELSE 0)

LEMMA TreatedType ==
  ASSUME FactsType, NEW k \in DOMAIN plan, NEW m, NEW treatment
  PROVE  /\ IsFiniteSet(Treated(k, m, treatment)) /\ Treated(k, m, treatment) \subseteq DOMAIN txns
         /\ \A t \in DOMAIN txns : Covers(k)[t] \in Int
         /\ CoveredAs(k, m, treatment) \in Int
<1>1. Treated(k, m, treatment) \subseteq MatchedReceipts(k, m)
  BY DEF Treated
<1>2. IsFiniteSet(Treated(k, m, treatment)) /\ Treated(k, m, treatment) \subseteq DOMAIN txns
  BY <1>1, MatchedFinite, FS_Subset
<1>3. \A t \in DOMAIN txns : Covers(k)[t] \in Int
  BY CoveredType DEF Covers
<1> QED BY <1>2, <1>3, SumType DEF CoveredAs

\* The receipts of an expectation are of its month or later.
LEMMA MatchedMonths ==
  ASSUME FactsType, NEW k \in DOMAIN plan, NEW m, NEW t \in MatchedReceipts(k, m)
  PROVE  txns[t].month \in Months /\ k <= txns[t].month /\ txns[t].month <= m /\ Started(txns[t].month)
<1>1. t \in DOMAIN receipts \cap DOMAIN txns /\ receipts[t].expected = {k} /\ txns[t].month <= m
  BY DEF MatchedReceipts
<1>2. txns[t].month \in Months /\ k <= txns[t].month
  BY <1>1 DEF FactsType, EntriesType, Entries
<1>3. Started(k) /\ k \in Months
  BY DEF FactsType, PlanType, IsTable
<1>4. Started(txns[t].month)
  BY <1>2, <1>3 DEF FactsType, CalendarType, Started, Months
<1> QED BY <1>1, <1>2, <1>4

\* Month by month, it is what the settlements of the months say.
LEMMA SettledThrough ==
  ASSUME FactsType, Unbroken, CompletedOnce, NEW m \in DOMAIN plan, NEW k \in DOMAIN plan
  PROVE  /\ SumFunctionOnSet([i \in PlannedTo(m) |-> SettledIn(k, i)], PlannedTo(m)) = Back(k, m)
         /\ \A i \in PlannedTo(m) : SettledIn(k, i) \in Int
         /\ k \notin PlannedTo(m) => Back(k, m) = 0
         /\ Back(k, m) \in Int
<1> DEFINE I == PlannedTo(m)
           S == Treated(k, m, "salary")
           x == plan[k].shortfall
           a == [i \in I |-> SumFunctionOnSet(Covers(k), Paid(k, i))]
           b == [i \in I |-> IF plan[k].completed = {i} THEN x ELSE 0]
           s == [i \in I |-> SettledIn(k, i)]
           p == [t \in S |-> txns[t].month]
<1>1. /\ IsFiniteSet(I) /\ m \in Months /\ m <= month /\ month \in Months /\ k \in Months
      /\ \A i \in I : i \in DOMAIN plan /\ i \in Months /\ i <= m
  BY MonthsParted DEF FactsType, CalendarType, PlanType, IsTable, PlannedTo
<1>2. x \in Int
  BY DEF FactsType, PlanType, IsTable, Instances
<1>3. \A i \in I : a[i] \in Int /\ b[i] \in Int /\ s[i] = a[i] + b[i]
  <2> TAKE i \in I
  <2>1. SumFunctionOnSet(Covers(k), Paid(k, i)) \in Int
    BY PaidType
  <2> QED BY <1>2, <2>1 DEF SettledIn
<1>4. /\ IsFiniteSet(S) /\ S \subseteq DOMAIN txns /\ \A t \in DOMAIN txns : Covers(k)[t] \in Int
      /\ CoveredAs(k, m, "salary") \in Int
  BY TreatedType
<1>5. ASSUME NEW t \in S PROVE p[t] \in I /\ Covers(k)[t] \in Int
  <2>1. t \in MatchedReceipts(k, m)
    BY DEF Treated
  <2>2. txns[t].month \in Months /\ Started(txns[t].month) /\ txns[t].month <= m
    BY <2>1, MatchedMonths
  <2>3. txns[t].month \in DOMAIN plan
    BY <2>2 DEF Unbroken
  <2> QED BY <1>4, <2>2, <2>3 DEF PlannedTo
<1>6. ASSUME NEW i \in I PROVE Group(p, S, i) = Paid(k, i)
  <2>1. ASSUME NEW t \in Group(p, S, i) PROVE t \in Paid(k, i)
    <3>1. t \in S /\ txns[t].month = i
      BY DEF Group
    <3>2. t \in MatchedReceipts(k, m) /\ receipts[t].treatment = "salary"
      BY <3>1 DEF Treated
    <3>3. t \in MatchedReceipts(k, month)
      BY <1>1, <3>1, <3>2 DEF MatchedReceipts, Months
    <3> QED BY <3>1, <3>2, <3>3 DEF Paid
  <2>2. ASSUME NEW t \in Paid(k, i) PROVE t \in Group(p, S, i)
    <3>1. t \in MatchedReceipts(k, month) /\ txns[t].month = i /\ receipts[t].treatment # "legacy"
      BY DEF Paid
    <3>2. t \in MatchedReceipts(k, m) /\ receipts[t].treatment = "salary"
      BY <1>1, <3>1 DEF MatchedReceipts
    <3> QED BY <3>1, <3>2 DEF Treated, Group
  <2> QED BY <2>1, <2>2
<1>7. SumFunctionOnSet(b, I) = IF CompletedBy(k, m) THEN x ELSE 0
  <2>1. CASE plan[k].completed = {}
    <3>1. \A i \in I : b[i] = 0
      BY <2>1
    <3>2. ~CompletedBy(k, m)
      BY <2>1 DEF CompletedBy
    <3> HIDE DEF b, I
    <3> QED BY <1>1, <3>1, <3>2, SumZero
  <2>2. ASSUME NEW c \in Months, k <= c, plan[k].completed = {c}
        PROVE  SumFunctionOnSet(b, I) = IF CompletedBy(k, m) THEN x ELSE 0
    <3>1. OnlyAt(b, I, c, x)
      BY <2>2 DEF OnlyAt
    <3>2. CompletedBy(k, m) <=> c <= m
      BY <2>2 DEF CompletedBy
    <3>3. c \in I <=> c <= m
      <4>1. Started(k)
        BY DEF FactsType, PlanType
      <4>2. Started(c)
        BY <1>1, <2>2, <4>1 DEF FactsType, CalendarType, Started, Months
      <4>3. c <= m => c \in DOMAIN plan
        BY <4>2 DEF Unbroken
      <4> QED BY <4>3 DEF PlannedTo
    <3> HIDE DEF b, I, x
    <3>4. SumFunctionOnSet(b, I) = IF c \in I THEN x ELSE 0
      BY <1>1, <1>2, <3>1, SumAt
    <3> QED BY <3>2, <3>3, <3>4
  <2> QED BY <2>1, <2>2 DEF CompletedOnce
<1>8. \A i \in I : a[i] = SumFunctionOnSet(Covers(k), Paid(k, i)) /\ s[i] = SettledIn(k, i)
  OBVIOUS
<1>9. Back(k, m) = SumFunctionOnSet(Covers(k), S) + (IF CompletedBy(k, m) THEN x ELSE 0)
      /\ CoveredAs(k, m, "salary") = SumFunctionOnSet(Covers(k), S)
  BY DEF Back, CoveredAs
<1>10. k \notin I => Back(k, m) = 0
  <2> SUFFICES ASSUME k \notin I PROVE Back(k, m) = 0
    OBVIOUS
  <2>1. ~(k <= m)
    BY DEF PlannedTo
  <2>2. S = {}
    <3> SUFFICES ASSUME NEW t \in S PROVE FALSE
      OBVIOUS
    <3>1. t \in MatchedReceipts(k, m)
      BY DEF Treated
    <3> QED BY <1>1, <2>1, <3>1, MatchedMonths DEF Months
  <2>3. ~CompletedBy(k, m)
    BY <1>1, <2>1 DEF CompletedBy, CompletedOnce, Months
  <2>4. SumFunctionOnSet(Covers(k), {}) = 0
    BY SumEmpty
  <2> HIDE DEF S
  <2> QED BY <1>9, <2>2, <2>3, <2>4
<1> HIDE DEF I, S, x, a, b, s, p
<1>11. SumFunctionOnSet(s, I) = SumFunctionOnSet(a, I) + SumFunctionOnSet(b, I)
  BY <1>1, <1>3, SumPlus
<1>12. SumFunctionOnSet(a, I) = SumFunctionOnSet(Covers(k), S)
  <2>1. \A i \in I : a[i] = SumFunctionOnSet(Covers(k), Group(p, S, i))
    BY <1>6, <1>8
  <2>2. \A t \in S : p[t] \in I /\ Covers(k)[t] \in Int
    BY <1>5
  <2> QED BY <1>1, <1>4, <2>1, <2>2, SumByGroup
<1>13. SumFunctionOnSet(s, I) = Back(k, m)
  BY <1>7, <1>9, <1>11, <1>12
<1>14. Back(k, m) \in Int
  BY <1>2, <1>4, <1>9
<1>15. \A i \in I : SettledIn(k, i) \in Int
  BY <1>3, <1>8
<1> QED BY <1>10, <1>13, <1>14, <1>15 DEF s, I

\* Expectation by expectation instead of month by month.
Settleds == [i \in Months |-> Settlements(i)]

\* What the months settled of an expectation is what its receipts cover, and at its
\* completion all that is left of it.
LEMMA SettlementsThrough ==
  ASSUME FactsType, Unbroken, CompletedOnce, NEW m \in DOMAIN plan
  PROVE  /\ SumFunctionOnSet(Settleds, PlannedTo(m)) = SumFunctionOnSet([k \in DOMAIN plan |-> Back(k, m)], PlannedTo(m))
         /\ \A i \in PlannedTo(m) : Settleds[i] \in Int
         /\ \A k \in DOMAIN plan : Back(k, m) \in Int
<1> DEFINE P == DOMAIN plan
           I == PlannedTo(m)
           R == P \ I
           h == [k \in P |-> Back(k, m)]
           r == [k \in P |-> [i \in I |-> SettledIn(k, i)]]
<1>1. /\ IsFiniteSet(P) /\ IsFiniteSet(I) /\ IsFiniteSet(R) /\ I \cup R = P /\ I \cap R = {}
      /\ \A i \in I : i \in Months
  <2>1. IsFiniteSet(P) /\ IsFiniteSet(I) /\ \A i \in I : i \in Months
    BY MonthsParted, FiniteTables
  <2>2. I \cup R = P /\ I \cap R = {} /\ R \subseteq P
    BY DEF PlannedTo
  <2>3. IsFiniteSet(R)
    BY <2>1, <2>2, FS_Subset
  <2> QED BY <2>1, <2>2, <2>3
<1>2. \A k \in P : /\ h[k] = SumFunctionOnSet(r[k], I) /\ h[k] = Back(k, m)
                   /\ \A i \in I : r[k][i] \in Int
                   /\ h[k] \in Int
                   /\ k \in R => h[k] = 0
  <2> TAKE k \in P
  <2>1. r[k] = [i \in I |-> SettledIn(k, i)] /\ h[k] = Back(k, m)
    OBVIOUS
  <2>2. \A i \in I : r[k][i] = SettledIn(k, i)
    OBVIOUS
  <2> HIDE DEF r, h
  <2> QED BY <2>1, <2>2, SettledThrough
<1>3. ASSUME NEW i \in I PROVE Settleds[i] = SumFunctionOnSet(Column(r, P, i), P)
  <2>1. Column(r, P, i) = [k \in P |-> SettledIn(k, i)]
    BY DEF Column
  <2>2. Settleds[i] = Settlements(i)
    BY <1>1 DEF Settleds
  <2> HIDE DEF r
  <2> QED BY <2>1, <2>2 DEF Settlements
<1>4. \A i \in I : Settleds[i] \in Int
  <2> TAKE i \in I
  <2> DEFINE c == Column(r, P, i)
  <2>1. \A k \in P : c[k] = r[k][i]
    BY DEF Column
  <2> HIDE DEF P, I, r, c
  <2>2. \A k \in P : c[k] \in Int
    BY <1>2, <2>1
  <2>3. SumFunctionOnSet(c, P) \in Int
    BY <1>1, <2>2, SumType
  <2> QED BY <1>3, <2>3 DEF c
<1> HIDE DEF P, I, R, h, r
<1>5. SumFunctionOnSet(h, P) = SumFunctionOnSet(Settleds, I)
  <2>1. IsTotal(h, r, P, I)
    BY <1>2 DEF IsTotal
  <2>2. IsFooter(Settleds, r, P, I)
    BY <1>3 DEF IsFooter
  <2> QED BY <1>1, <2>1, <2>2, SumExchange
<1>6. SumFunctionOnSet(h, P) = SumFunctionOnSet(h, I)
  <2>1. \A k \in I \cup R : h[k] \in Int
    BY <1>1, <1>2
  <2>2. SumFunctionOnSet(h, I \cup R) = SumFunctionOnSet(h, I) + SumFunctionOnSet(h, R)
    BY <1>1, <2>1, SumUnion
  <2>3. SumFunctionOnSet(h, R) = 0
    BY <1>1, <1>2, SumZero
  <2>4. SumFunctionOnSet(h, I) \in Int
    BY <1>1, <2>1, SumType
  <2>5. SumFunctionOnSet(h, P) = SumFunctionOnSet(h, I) + SumFunctionOnSet(h, R)
    BY <1>1, <2>2
  <2> QED BY <2>3, <2>4, <2>5
<1>7. \A k \in P : Back(k, m) \in Int
  BY <1>2
<1> QED BY <1>4, <1>5, <1>6, <1>7 DEF I, P, h

----------------------------------------------------------------------------
(* What is left of the expectations: only their rounding. *)

\* What the drift takes from expectation k.
Gone(k, m) ==
  IF CompletedBy(k, m) THEN plan[k].shortfall + CoveredAs(k, m, "salary") - plan[k].eur
  ELSE -CoveredAs(k, m, "legacy")

\* ... and what is left of it then: its rounding, or nothing once it is complete.
Left(k, m) == IF CompletedBy(k, m) THEN 0 ELSE Rounding(k, m)

LEMMA CoveredApart ==
  ASSUME FactsType, NEW k \in DOMAIN plan, NEW m
  PROVE  SumFunctionOnSet([t \in DOMAIN txns |-> CoveredBy(k, t)], MatchedReceipts(k, m))
           = CoveredAs(k, m, "salary") + CoveredAs(k, m, "legacy")
<1> DEFINE S == Treated(k, m, "salary")
           L == Treated(k, m, "legacy")
<1>1. S \cup L = MatchedReceipts(k, m) /\ S \cap L = {}
  BY DEF Treated, MatchedReceipts
<1>2. IsFiniteSet(S) /\ IsFiniteSet(L) /\ \A t \in S \cup L : Covers(k)[t] \in Int
  BY TreatedType
<1>3. Covers(k) = [t \in DOMAIN txns |-> CoveredBy(k, t)]
  BY DEF Covers
<1> HIDE DEF S, L
<1>4. SumFunctionOnSet(Covers(k), S \cup L) = SumFunctionOnSet(Covers(k), S) + SumFunctionOnSet(Covers(k), L)
  BY <1>1, <1>2, SumUnion
<1>5. SumFunctionOnSet(Covers(k), MatchedReceipts(k, m))
        = SumFunctionOnSet(Covers(k), S) + SumFunctionOnSet(Covers(k), L)
  BY <1>1, <1>4
<1> QED BY <1>3, <1>5 DEF CoveredAs, S, L

\* Of each expectation only the rounding is left.
LEMMA ExpectationLeft ==
  ASSUME FactsType, NEW k \in DOMAIN plan, NEW m
  PROVE  /\ Left(k, m) = Outstanding(k, m) - plan[k].eur - Gone(k, m) + Back(k, m)
         /\ Left(k, m) \in Int /\ Outstanding(k, m) \in Int /\ plan[k].eur \in Int
         /\ Gone(k, m) \in Int /\ Back(k, m) \in Int
<1> DEFINE s == CoveredAs(k, m, "salary")
           l == CoveredAs(k, m, "legacy")
           e == plan[k].eur
           x == plan[k].shortfall
           r == Remainder(k, plan[k], m)
<1>1. s \in Int /\ l \in Int
  BY TreatedType
<1>2. plan[k] \in Instances /\ e \in Int /\ x \in Int
  BY DEF FactsType, PlanType, IsTable, Instances
<1>3. r \in Int
  BY <1>2, RemainderType
<1>4. Rounding(k, m) = s + l + r - e
  BY CoveredApart DEF Rounding
<1>5. CASE CompletedBy(k, m)
  <2>1. Left(k, m) = 0 /\ Outstanding(k, m) = 0 /\ Gone(k, m) = x + s - e /\ Back(k, m) = s + x
    BY <1>5 DEF Left, Outstanding, Gone, Back
  <2> HIDE DEF s, l, e, x, r
  <2>2. x + s - e \in Int /\ s + x \in Int /\ 0 = 0 - e - (x + s - e) + (s + x)
    BY <1>1, <1>2
  <2> QED BY <1>1, <1>2, <2>1, <2>2 DEF e
<1>6. CASE ~CompletedBy(k, m)
  <2>1. Left(k, m) = Rounding(k, m) /\ Outstanding(k, m) = r /\ Gone(k, m) = -l /\ Back(k, m) = s + 0
    BY <1>6 DEF Left, Outstanding, Gone, Back
  <2> HIDE DEF s, l, e, x, r
  <2> QED BY <1>1, <1>2, <1>3, <1>4, <2>1 DEF e
<1> QED BY <1>5, <1>6

\* Through month m, the expectations that are not complete leave their rounding.
LEMMA ExpectationsLeft ==
  ASSUME FactsType, Unbroken, NEW m \in DOMAIN plan
  PROVE  SumFunctionOnSet([k \in DOMAIN plan |-> Left(k, m)], PlannedTo(m))
           = SumFunctionOnSet([k \in DOMAIN plan |-> Outstanding(k, m)], PlannedTo(m))
               - SumFunctionOnSet([k \in DOMAIN plan |-> plan[k].eur], PlannedTo(m))
               - SumFunctionOnSet([k \in DOMAIN plan |-> Gone(k, m)], PlannedTo(m))
               + SumFunctionOnSet([k \in DOMAIN plan |-> Back(k, m)], PlannedTo(m))
<1> DEFINE I == PlannedTo(m)
           l == [k \in DOMAIN plan |-> Left(k, m)]
           o == [k \in DOMAIN plan |-> Outstanding(k, m)]
           e == [k \in DOMAIN plan |-> plan[k].eur]
           g == [k \in DOMAIN plan |-> Gone(k, m)]
           b == [k \in DOMAIN plan |-> Back(k, m)]
           p == [k \in I |-> o[k] + b[k]]
           q == [k \in I |-> e[k] + g[k]]
<1>1. IsFiniteSet(I) /\ I \subseteq DOMAIN plan
  BY MonthsParted
<1>2. \A k \in I : /\ l[k] = Left(k, m) /\ o[k] = Outstanding(k, m) /\ e[k] = plan[k].eur
                   /\ g[k] = Gone(k, m) /\ b[k] = Back(k, m)
                   /\ p[k] = o[k] + b[k] /\ q[k] = e[k] + g[k]
  BY <1>1
<1> HIDE DEF I, l, o, e, g, b, p, q
<1>3. \A k \in I : /\ l[k] \in Int /\ o[k] \in Int /\ e[k] \in Int /\ g[k] \in Int /\ b[k] \in Int
                   /\ p[k] = o[k] + b[k] /\ q[k] = e[k] + g[k]
                   /\ p[k] \in Int /\ q[k] \in Int /\ p[k] = l[k] + q[k]
  <2> TAKE k \in I
  <2>1. k \in DOMAIN plan
    BY <1>1
  <2>2. /\ Left(k, m) = Outstanding(k, m) - plan[k].eur - Gone(k, m) + Back(k, m)
        /\ Left(k, m) \in Int /\ Outstanding(k, m) \in Int /\ plan[k].eur \in Int
        /\ Gone(k, m) \in Int /\ Back(k, m) \in Int
    BY <2>1, ExpectationLeft
  <2>3. /\ l[k] = o[k] - e[k] - g[k] + b[k]
        /\ l[k] \in Int /\ o[k] \in Int /\ e[k] \in Int /\ g[k] \in Int /\ b[k] \in Int
    BY <1>2, <2>2
  <2> QED BY <1>2, <2>3
<1>4. SumFunctionOnSet(p, I) = SumFunctionOnSet(o, I) + SumFunctionOnSet(b, I)
  BY <1>1, <1>3, SumPlus
<1>5. SumFunctionOnSet(q, I) = SumFunctionOnSet(e, I) + SumFunctionOnSet(g, I)
  BY <1>1, <1>3, SumPlus
<1>6. SumFunctionOnSet(p, I) = SumFunctionOnSet(l, I) + SumFunctionOnSet(q, I)
  BY <1>1, <1>3, SumPlus
<1>7. /\ SumFunctionOnSet(o, I) \in Int /\ SumFunctionOnSet(b, I) \in Int /\ SumFunctionOnSet(l, I) \in Int
      /\ SumFunctionOnSet(e, I) \in Int /\ SumFunctionOnSet(g, I) \in Int
  BY <1>1, <1>3, SumType
<1>8. SumFunctionOnSet(l, I) = SumFunctionOnSet(o, I) - SumFunctionOnSet(e, I)
                                 - SumFunctionOnSet(g, I) + SumFunctionOnSet(b, I)
  BY <1>4, <1>5, <1>6, <1>7
<1> QED BY <1>8 DEF I, l, o, e, g, b

----------------------------------------------------------------------------
(* The balances, the cash and what is still expected. *)

\* Every expectation is worth something.
Worth == \A k \in DOMAIN plan : plan[k].amount > 0 /\ plan[k].eur > 0

\* What GapIs needs to know of the tables.
PlanFacts == Shapes /\ Salaries /\ Unused /\ Unbroken /\ CompletedOnce /\ Worth

\* What the months before the start allocate.
Allocated == [i \in Months |-> TotalAllocation(i)]
Spare == SumFunctionOnSet(Allocated, Unstarted)

\* A sum through a month of the plan has a part before the start and one of the plan.
LEMMA SumParted ==
  ASSUME FactsType, Unbroken, NEW m \in DOMAIN plan, NEW f, NEW g, NEW h,
         \A i \in Unstarted : f[i] = g[i] /\ g[i] \in Int,
         \A i \in PlannedTo(m) : f[i] = h[i] /\ h[i] \in Int
  PROVE  SumFunctionOnSet(f, 1..m) = SumFunctionOnSet(g, Unstarted) + SumFunctionOnSet(h, PlannedTo(m))
<1> DEFINE R == 1..m
           U == Unstarted
           I == PlannedTo(m)
<1>1. R = U \cup I /\ U \cap I = {} /\ IsFiniteSet(U) /\ IsFiniteSet(I)
  BY MonthsParted
<1>2. \A i \in U \cup I : f[i] \in Int
  OBVIOUS
<1>3. \A i \in U : f[i] = g[i]
  OBVIOUS
<1>4. \A i \in I : f[i] = h[i]
  OBVIOUS
<1> HIDE DEF R, U, I
<1>5. SumFunctionOnSet(f, U \cup I) = SumFunctionOnSet(f, U) + SumFunctionOnSet(f, I)
  BY <1>1, <1>2, SumUnion
<1>6. SumFunctionOnSet(f, U) = SumFunctionOnSet(g, U) /\ SumFunctionOnSet(f, I) = SumFunctionOnSet(h, I)
  BY <1>1, <1>3, <1>4, SumAgree
<1>7. SumFunctionOnSet(f, R) = SumFunctionOnSet(g, U) + SumFunctionOnSet(h, I)
  BY <1>1, <1>5, <1>6
<1> QED BY <1>7 DEF R, U, I

\* What the months of the plan fund Unallocated with.
Fundings == [k \in DOMAIN plan |-> plan[k].eur]

\* What a month adds, before the start and in the plan.
LEMMA AddedIs ==
  ASSUME TypeInv, PlanAgrees, PlanFacts, NEW m \in DOMAIN plan, NEW i \in 1..m
  PROVE  /\ i \in Unstarted => Added(i) = Allocated[i] - Correcteds[i] + Flows[i] - Asides[i]
         /\ i \in PlannedTo(m) => Added(i) = Fundings[i] - Correcteds[i] + Flows[i] - Settleds[i]
<1>1. FactsType /\ Unbroken /\ Shapes /\ Salaries /\ i \in Months
  BY MonthsParted DEF TypeInv, PlanFacts
<1>2. Allocated[i] = TotalAllocation(i) /\ Correcteds[i] = Corrected(i) /\ Flows[i] = Flow(i)
      /\ Asides[i] = Aside(i) /\ Settleds[i] = Settlements(i)
  BY <1>1 DEF Allocated, Correcteds, Flows, Asides, Settleds
<1>3. ASSUME i \in Unstarted PROVE Added(i) = TotalAllocation(i) - Corrected(i) + Flow(i) - Aside(i)
  <2>1. ~Started(i) /\ corrections[i][Unallocated] = 0
    BY <1>3 DEF PlanFacts, Unused, Unstarted
  <2>2. Added(i) = SumFunctionOnSet(Changes(i), categories) + 0
    BY <2>1 DEF Added
  <2>3. SumFunctionOnSet(Changes(i), categories) = TotalAllocation(i) - Corrected(i) + Flow(i) - Aside(i)
    BY <1>1, <2>1, MonthAddsBefore
  <2>4. TotalAllocation(i) \in Int /\ Corrected(i) \in Int /\ Flow(i) \in Int /\ Aside(i) \in Int
    BY <1>1, <1>2, TotalAllocationType, CorrectedType, CashFlows, AsideBefore
  <2> QED BY <2>2, <2>3, <2>4
<1>4. ASSUME i \in PlannedTo(m) PROVE Added(i) = plan[i].eur - Corrected(i) + Flow(i) - Settlements(i)
  <2>1. i \in DOMAIN plan /\ Started(i)
    BY <1>1, <1>4, MonthsParted
  <2>2. Agree(i) /\ plan[i].eur > 0
    BY <2>1 DEF PlanAgrees, PlanFacts, Worth
  <2>3. Added(i) = SumFunctionOnSet(Changes(i), categories) + UnallocatedChange(i)
    BY <2>1 DEF Added
  <2> QED BY <1>1, <2>1, <2>2, <2>3, MonthAdds
<1>5. i \in PlannedTo(m) => Fundings[i] = plan[i].eur
  BY DEF Fundings, PlannedTo
<1> QED BY <1>2, <1>3, <1>4, <1>5

\* All that the months add, through a month of the plan.
LEMMA AddedThrough ==
  ASSUME TypeInv, PlanAgrees, PlanFacts, NEW m \in DOMAIN plan
  PROVE  /\ SumFunctionOnSet([i \in Months |-> Added(i)], 1..m)
              = Spare + SumFunctionOnSet(Fundings, PlannedTo(m)) - SumFunctionOnSet(Correcteds, 1..m)
                  + SumFunctionOnSet(Flows, 1..m)
                  - SumFunctionOnSet(Asides, Unstarted) - SumFunctionOnSet(Settleds, PlannedTo(m))
         /\ Spare \in Int /\ SumFunctionOnSet(Fundings, PlannedTo(m)) \in Int
         /\ SumFunctionOnSet(Correcteds, 1..m) \in Int /\ SumFunctionOnSet(Flows, 1..m) \in Int
         /\ SumFunctionOnSet(Asides, Unstarted) \in Int /\ SumFunctionOnSet(Settleds, PlannedTo(m)) \in Int
<1> DEFINE R == 1..m
           U == Unstarted
           I == PlannedTo(m)
           a == [i \in Months |-> Added(i)]
           b == [i \in Months |-> IF i \in U THEN Allocated[i] ELSE Fundings[i]]
           t == [i \in Months |-> IF i \in U THEN Asides[i] ELSE Settleds[i]]
           p == [i \in Months |-> a[i] + Correcteds[i]]
           q == [i \in Months |-> b[i] + Flows[i]]
<1>1. FactsType /\ Unbroken /\ Shapes /\ CompletedOnce
  BY DEF TypeInv, PlanFacts
<1>2. /\ R = U \cup I /\ U \cap I = {} /\ IsFiniteSet(U) /\ IsFiniteSet(I) /\ IsFiniteSet(R) /\ R \subseteq Months
      /\ m \in Months
  BY <1>1, MonthsParted
<1>3. \A i \in U : Allocated[i] \in Int
  BY <1>1, TotalAllocationType DEF Allocated, Unstarted
<1>4. \A i \in I : Fundings[i] \in Int
  BY <1>1 DEF Fundings, PlannedTo, FactsType, PlanType, IsTable, Instances
<1>5. \A i \in Months : Correcteds[i] \in Int /\ Flows[i] \in Int /\ Asides[i] \in Int
  BY <1>1, <1>2, CorrectedType, CashFlows, AsideBefore
<1>6. \A i \in I : Settleds[i] \in Int
  BY <1>1, SettlementsThrough
<1>7. \A i \in R : /\ i \in U => a[i] = Allocated[i] - Correcteds[i] + Flows[i] - Asides[i]
                   /\ i \in I => a[i] = Fundings[i] - Correcteds[i] + Flows[i] - Settleds[i]
  <2> TAKE i \in R
  <2>1. a[i] = Added(i)
    BY <1>2
  <2> HIDE DEF a
  <2> QED BY <2>1, AddedIs
<1>8. \A i \in R : /\ b[i] = (IF i \in U THEN Allocated[i] ELSE Fundings[i])
                   /\ t[i] = (IF i \in U THEN Asides[i] ELSE Settleds[i])
                   /\ p[i] = a[i] + Correcteds[i] /\ q[i] = b[i] + Flows[i]
  BY <1>2
<1>9. Spare = SumFunctionOnSet(Allocated, U)
  BY DEF Spare
<1> HIDE DEF R, U, I, a, b, t, p, q
<1>10. \A i \in R : /\ a[i] \in Int /\ b[i] \in Int /\ t[i] \in Int /\ p[i] \in Int /\ q[i] \in Int
                    /\ Correcteds[i] \in Int /\ Flows[i] \in Int
                    /\ p[i] = a[i] + Correcteds[i] /\ q[i] = b[i] + Flows[i] /\ q[i] = p[i] + t[i]
  <2> TAKE i \in R
  <2>1. Correcteds[i] \in Int /\ Flows[i] \in Int /\ Asides[i] \in Int
    BY <1>2, <1>5
  <2>2. CASE i \in U
    <3>1. Allocated[i] \in Int /\ a[i] = Allocated[i] - Correcteds[i] + Flows[i] - Asides[i]
          /\ b[i] = Allocated[i] /\ t[i] = Asides[i]
      BY <1>3, <1>7, <1>8, <2>2
    <3> QED BY <1>8, <2>1, <3>1
  <2>3. CASE i \notin U
    <3>1. i \in I
      BY <1>2, <2>3
    <3>2. Fundings[i] \in Int /\ Settleds[i] \in Int /\ a[i] = Fundings[i] - Correcteds[i] + Flows[i] - Settleds[i]
          /\ b[i] = Fundings[i] /\ t[i] = Settleds[i]
      BY <1>4, <1>6, <1>7, <1>8, <2>3, <3>1
    <3> QED BY <1>8, <2>1, <3>2
  <2> QED BY <2>2, <2>3
<1>11. SumFunctionOnSet(p, R) = SumFunctionOnSet(a, R) + SumFunctionOnSet(Correcteds, R)
  BY <1>2, <1>10, SumPlus
<1>12. SumFunctionOnSet(q, R) = SumFunctionOnSet(b, R) + SumFunctionOnSet(Flows, R)
  BY <1>2, <1>10, SumPlus
<1>13. SumFunctionOnSet(q, R) = SumFunctionOnSet(p, R) + SumFunctionOnSet(t, R)
  BY <1>2, <1>10, SumPlus
<1>14. SumFunctionOnSet(b, R) = SumFunctionOnSet(Allocated, U) + SumFunctionOnSet(Fundings, I)
  <2>1. \A i \in U : b[i] = Allocated[i] /\ Allocated[i] \in Int
    BY <1>2, <1>3, <1>8
  <2>2. \A i \in I : b[i] = Fundings[i] /\ Fundings[i] \in Int
    BY <1>2, <1>4, <1>8
  <2> QED BY <1>1, <2>1, <2>2, SumParted DEF R, U, I
<1>15. SumFunctionOnSet(t, R) = SumFunctionOnSet(Asides, U) + SumFunctionOnSet(Settleds, I)
  <2>1. \A i \in U : t[i] = Asides[i] /\ Asides[i] \in Int
    BY <1>2, <1>5, <1>8
  <2>2. \A i \in I : t[i] = Settleds[i] /\ Settleds[i] \in Int
    BY <1>2, <1>6, <1>8
  <2> QED BY <1>1, <2>1, <2>2, SumParted DEF R, U, I
<1>16. /\ SumFunctionOnSet(a, R) \in Int /\ SumFunctionOnSet(Correcteds, R) \in Int
       /\ SumFunctionOnSet(Flows, R) \in Int
       /\ SumFunctionOnSet(Allocated, U) \in Int /\ SumFunctionOnSet(Fundings, I) \in Int
       /\ SumFunctionOnSet(Asides, U) \in Int /\ SumFunctionOnSet(Settleds, I) \in Int
  <2>1. \A i \in U : Asides[i] \in Int
    BY <1>2, <1>5
  <2> QED BY <1>2, <1>3, <1>4, <1>6, <1>10, <2>1, SumType
<1>17. SumFunctionOnSet(a, R) = SumFunctionOnSet(Allocated, U) + SumFunctionOnSet(Fundings, I)
         - SumFunctionOnSet(Correcteds, R) + SumFunctionOnSet(Flows, R)
         - SumFunctionOnSet(Asides, U) - SumFunctionOnSet(Settleds, I)
  BY <1>11, <1>12, <1>13, <1>14, <1>15, <1>16
<1> QED BY <1>9, <1>16, <1>17 DEF R, U, I, a

----------------------------------------------------------------------------
\* By month of the plan.
Gones(m) == [k \in DOMAIN plan |-> Gone(k, m)]
Lefts(m) == [k \in DOMAIN plan |-> Left(k, m)]
Outstandings(m) == [k \in DOMAIN plan |-> Outstanding(k, m)]

\* The parts of the drift.
LEMMA DriftIs ==
  ASSUME FactsType, Shapes, Unbroken, NEW m \in DOMAIN plan
  PROVE  /\ Drift(m) = SumFunctionOnSet(adjusted, 1..m) + SumFunctionOnSet(Correcteds, 1..m)
                         + SumFunctionOnSet(Asides, Unstarted) + SumFunctionOnSet(Gones(m), PlannedTo(m))
         /\ SumFunctionOnSet(adjusted, 1..m) \in Int
         /\ SumFunctionOnSet(Gones(m), PlannedTo(m)) \in Int
<1> DEFINE R == 1..m
           I == PlannedTo(m)
           covered(k, treatment) ==
             SumFunction([t \in {u \in MatchedReceipts(k, m) : receipts[u].treatment = treatment} |->
                            CoveredBy(k, t)])
           gone(k) == IF CompletedBy(k, m)
                      THEN plan[k].shortfall + covered(k, "salary") - plan[k].eur
                      ELSE -covered(k, "legacy")
           one == [k \in R |-> adjusted[k] + SumFunctionOnSet(corrections[k], Buckets)]
           two == [t \in Before |-> Sides(t, Unallocated, txns[t].eur)]
           three == [k \in I |-> gone(k)]
           G == Gones(m)
<1>1. Drift(m) = SumFunction(one) + SumFunction(two) + SumFunction(three)
  BY DEF Drift, covered, Before, PlannedTo
<1>2. IsFiniteSet(R) /\ IsFiniteSet(I) /\ R \subseteq Months /\ I \subseteq DOMAIN plan
  BY MonthsParted
<1>3. ASSUME NEW k \in DOMAIN plan, NEW treatment PROVE covered(k, treatment) = CoveredAs(k, m, treatment)
  <2> DEFINE S == Treated(k, m, treatment)
             f == [t \in S |-> CoveredBy(k, t)]
  <2>1. covered(k, treatment) = SumFunction(f) /\ DOMAIN f = S
    BY DEF Treated
  <2>2. IsFiniteSet(S) /\ S \subseteq DOMAIN txns
    BY TreatedType
  <2>3. \A t \in S : f[t] = Covers(k)[t]
    BY <2>2 DEF Covers
  <2> HIDE DEF covered, S, f
  <2>4. SumFunction(f) = SumFunctionOnSet(Covers(k), S)
    BY <2>1, <2>2, <2>3, SumIsOnDomain, SumAgree
  <2> QED BY <2>1, <2>4 DEF CoveredAs, S
<1> HIDE DEF covered
<1>4. \A k \in DOMAIN plan : gone(k) = Gone(k, m)
  BY <1>3 DEF Gone
<1>5. \A k \in I : three[k] = G[k] /\ G[k] \in Int
  <2> TAKE k \in I
  <2>1. k \in DOMAIN plan
    BY <1>2
  <2>2. Gone(k, m) \in Int
    BY <2>1, ExpectationLeft
  <2> HIDE DEF gone
  <2> QED BY <1>4, <2>1, <2>2 DEF Gones
<1>6. \A k \in R : one[k] = adjusted[k] + Correcteds[k] /\ adjusted[k] \in Int /\ Correcteds[k] \in Int
  <2> TAKE k \in R
  <2>1. k \in Months
    BY <1>2
  <2>2. Correcteds[k] = Corrected(k) /\ Correcteds[k] \in Int /\ adjusted[k] \in Int
    BY <2>1, CorrectedType
  <2>3. one[k] = adjusted[k] + Corrected(k)
    BY DEF Corrected
  <2> QED BY <2>2, <2>3
<1>7. DOMAIN one = R /\ DOMAIN three = I
  OBVIOUS
<1>8. SumFunction(two) = SumFunctionOnSet(Asides, Unstarted)
  BY AsideBefore
<1> HIDE DEF R, I, one, two, three, gone, G
<1>9. SumFunction(one) = SumFunctionOnSet(adjusted, R) + SumFunctionOnSet(Correcteds, R)
  <2>1. SumFunctionOnSet(one, R) = SumFunctionOnSet(adjusted, R) + SumFunctionOnSet(Correcteds, R)
    BY <1>2, <1>6, SumPlus
  <2> QED BY <1>7, <2>1, SumIsOnDomain
<1>10. SumFunction(three) = SumFunctionOnSet(G, I)
  <2>1. SumFunctionOnSet(three, I) = SumFunctionOnSet(G, I)
    BY <1>2, <1>5, SumAgree
  <2> QED BY <1>7, <2>1, SumIsOnDomain
<1>11. SumFunctionOnSet(adjusted, R) \in Int /\ SumFunctionOnSet(G, I) \in Int
  BY <1>2, <1>5, <1>6, SumType
<1>12. Drift(m) = SumFunctionOnSet(adjusted, R) + SumFunctionOnSet(Correcteds, R)
                    + SumFunctionOnSet(Asides, Unstarted) + SumFunctionOnSet(G, I)
  BY <1>1, <1>8, <1>9, <1>10
<1> QED BY <1>11, <1>12 DEF R, I, G

\* What is expected back, and all balances, as the coverage has them.
LEMMA OutstandingIs ==
  ASSUME FactsType, Unbroken, NEW m \in DOMAIN plan
  PROVE  SumFunction([k \in {j \in DOMAIN plan : j <= m} |-> Outstanding(k, m)])
           = SumFunctionOnSet(Outstandings(m), PlannedTo(m))
<1> DEFINE I == PlannedTo(m)
           f == [k \in I |-> Outstanding(k, m)]
           O == Outstandings(m)
<1>1. IsFiniteSet(I) /\ I \subseteq DOMAIN plan
  BY MonthsParted
<1>2. DOMAIN f = I /\ \A k \in I : f[k] = O[k]
  BY <1>1 DEF Outstandings
<1>3. SumFunction([k \in {j \in DOMAIN plan : j <= m} |-> Outstanding(k, m)]) = SumFunction(f)
  BY DEF PlannedTo
<1> HIDE DEF I, f, O
<1>4. SumFunction(f) = SumFunctionOnSet(O, I)
  BY <1>1, <1>2, SumIsOnDomain, SumAgree
<1> QED BY <1>3, <1>4 DEF O, I

\* A statement has the categories and Unallocated.
LEMMA TotalParts ==
  ASSUME FactsType, start # {}, NEW h, DOMAIN h = Known, \A c \in Known : h[c] \in Int
  PROVE  SumFunctionOnSet(h, Known) = SumFunctionOnSet(h, DOMAIN h \ {Unallocated}) + h[Unallocated]
<1>1. IsFiniteSet(Known) /\ Unallocated \in Known
  BY FiniteTables, KnownParts
<1> DEFINE K == Known
<1> HIDE DEF K
<1>2. SumFunctionOnSet(h, K) = h[Unallocated] + SumFunctionOnSet(h, K \ {Unallocated})
  BY <1>1, SumRemove DEF K
<1>3. SumFunctionOnSet(h, K \ {Unallocated}) \in Int /\ h[Unallocated] \in Int
  <2>1. IsFiniteSet(K \ {Unallocated}) /\ \A c \in K \ {Unallocated} : h[c] \in Int
    BY <1>1, FS_Subset DEF K
  <2> QED BY <1>1, <2>1, SumType
<1>4. K = DOMAIN h
  BY DEF K
<1>5. SumFunctionOnSet(h, K) = SumFunctionOnSet(h, K \ {Unallocated}) + h[Unallocated]
  BY <1>2, <1>3
<1> QED BY <1>4, <1>5 DEF K

\* What separates cash and what is still expected from the plan, through a month of it: the
\* drift since, what the opening left, and the rounding of what is not complete.
LEMMA GapIs ==
  TypeInv /\ PlanAgrees /\ PlanFacts =>
    \A m \in DOMAIN plan :
      Cash(m) + SumFunctionOnSet(Outstandings(m), PlannedTo(m)) - Total(m) - Drift(m)
        = SumFunctionOnSet(Lefts(m), PlannedTo(m)) - opening - Spare
<1> SUFFICES ASSUME TypeInv, PlanAgrees, PlanFacts, NEW m \in DOMAIN plan
             PROVE  Cash(m) + SumFunctionOnSet(Outstandings(m), PlannedTo(m)) - Total(m) - Drift(m)
                      = SumFunctionOnSet(Lefts(m), PlannedTo(m)) - opening - Spare
  OBVIOUS
<1> DEFINE R == 1..m
           I == PlannedTo(m)
           a == SumFunctionOnSet([i \in Months |-> Added(i)], R)
           f == SumFunctionOnSet(Flows, R)
           j == SumFunctionOnSet(adjusted, R)
           c == SumFunctionOnSet(Correcteds, R)
           s == SumFunctionOnSet(Asides, Unstarted)
           e == SumFunctionOnSet(Fundings, I)
           t == SumFunctionOnSet(Settleds, I)
           g == SumFunctionOnSet(Gones(m), I)
           o == SumFunctionOnSet(Outstandings(m), I)
           l == SumFunctionOnSet(Lefts(m), I)
<1>1. FactsType /\ Unbroken /\ Shapes /\ CompletedOnce /\ opening \in Int
  BY DEF TypeInv, PlanFacts
<1>2. m \in Months /\ m \in 0..month /\ start # {}
  BY <1>1, MonthsParted DEF FactsType, CalendarType, Months
<1>3. Total(m) = opening + a
  BY <1>2, TotalIs
<1>4. /\ a = Spare + e - c + f - s - t
      /\ Spare \in Int /\ e \in Int /\ c \in Int /\ f \in Int /\ s \in Int /\ t \in Int
  BY AddedThrough
<1>5. Cash(m) = f + j
  BY <1>1, <1>2, CashFlows
<1>6. Drift(m) = j + c + s + g /\ j \in Int /\ g \in Int
  BY <1>1, DriftIs
<1>7. l = o - e - g + t
  <2>1. SumFunctionOnSet(Settleds, I) = SumFunctionOnSet([k \in DOMAIN plan |-> Back(k, m)], I)
    BY <1>1, SettlementsThrough
  <2> QED BY <1>1, <2>1, ExpectationsLeft DEF Lefts, Outstandings, Fundings, Gones
<1>8. o \in Int
  <2> DEFINE O == Outstandings(m)
  <2>1. IsFiniteSet(I) /\ I \subseteq DOMAIN plan
    BY <1>1, MonthsParted
  <2>2. \A k \in DOMAIN plan : O[k] \in Int
    BY <1>1, OutstandingType DEF Outstandings
  <2> HIDE DEF O, I
  <2>3. SumFunctionOnSet(O, I) \in Int
    BY <2>1, <2>2, SumType
  <2> QED BY <2>3 DEF O
<1> DEFINE T == Total(m)
           C == Cash(m)
           D == Drift(m)
           S == Spare
<1> HIDE DEF R, I, a, f, j, c, s, e, t, g, o, l, T, C, D, S
<1>9. C + o - T - D = l - opening - S
  <2>1. T = opening + a /\ a = S + e - c + f - s - t /\ C = f + j /\ D = j + c + s + g /\ l = o - e - g + t
    BY <1>3, <1>4, <1>5, <1>6, <1>7 DEF T, C, D, S
  <2>2. /\ opening \in Int /\ S \in Int /\ e \in Int /\ c \in Int /\ f \in Int /\ s \in Int /\ t \in Int
        /\ j \in Int /\ g \in Int /\ o \in Int
    BY <1>1, <1>4, <1>6, <1>8 DEF S
  <2> QED BY <2>1, <2>2
<1> QED BY <1>9 DEF C, o, T, D, l, S, I

----------------------------------------------------------------------------
(* What GapIs needs of the facts stays true, step by step. *)

\* An accepted request moves euros between buckets, or in or out of one.
ShapeOf(e, buckets, spending) ==
  \/ e.kind = "expense" /\ e.from \in spending /\ e.to = External
  \/ e.kind = "income" /\ e.from = External /\ e.to \in buckets
  \/ e.kind = "reallocate" /\ e.amount = e.eur /\ e.from \in buckets /\ e.to \in buckets

LEMMA EntryShape ==
  ASSUME NEW r \in Requests, NEW m, Valid(r)
  PROVE  ShapeOf(Entry(r, m), Known, categories)
<1>1. r.kind \in {"expense", "income", "reallocate"}
  BY DEF ConstantsAssumption, Kinds
<1>2. /\ Entry(r, m).kind = r.kind /\ Entry(r, m).from = r.from /\ Entry(r, m).to = Into(r)
      /\ Entry(r, m).amount = r.amount /\ Entry(r, m).eur = Eur(r, m)
  BY DEF Entry
<1>3. CASE r.kind = "expense"
  <2>1. r.from \in Known \ {Unallocated} /\ r.to = External
    BY <1>3 DEF Valid
  <2>2. r.from \in categories
    BY <2>1 DEF Known
  <2>3. Into(r) = External
    BY <1>3, <2>1 DEF Into
  <2> QED BY <1>2, <1>3, <2>2, <2>3 DEF ShapeOf
<1>4. CASE r.kind = "income"
  <2>1. r.from = External /\ Into(r) \in Known
    BY <1>4 DEF Valid
  <2> QED BY <1>2, <1>4, <2>1 DEF ShapeOf
<1>5. CASE r.kind = "reallocate"
  <2>1. {r.from, r.to} \subseteq Known /\ r.currency = "EUR"
    BY <1>5 DEF Valid, InEuros
  <2>2. Into(r) = r.to /\ Eur(r, m) = r.amount
    BY <1>5, <2>1 DEF Into, Eur
  <2> QED BY <1>2, <1>5, <2>1, <2>2 DEF ShapeOf
<1> QED BY <1>1, <1>3, <1>4, <1>5

LEMMA ShapeGrows ==
  ASSUME NEW e, NEW B, NEW C, NEW S, NEW T, B \subseteq C, S \subseteq T, ShapeOf(e, B, S)
  PROVE  ShapeOf(e, C, T)
BY DEF ShapeOf

\* Known buckets stay known.
LEMMA KnownStays ==
  ASSUME TypeInv, TypeInv', [Next]_vars
  PROVE  categories \subseteq categories' /\ Known \subseteq Known'
<1>1. categories \subseteq categories' /\ (start # {} => start' = start)
  BY StepKeeps DEF Kept, KeptMonths
<1> QED BY <1>1 DEF Known

LEMMA ShapesStep == TypeInv /\ TypeInv' /\ Shapes /\ [Next]_vars => Shapes'
<1> SUFFICES ASSUME TypeInv, TypeInv', Shapes, [Next]_vars PROVE Shapes'
  OBVIOUS
<1>1. categories \subseteq categories' /\ Known \subseteq Known'
  BY KnownStays
<1>2. \A t \in DOMAIN txns : ShapeOf(txns[t], Known, categories)
  BY DEF Shapes, ShapeOf
<1>3. \A t \in DOMAIN txns : ShapeOf(txns[t], Known', categories')
  BY <1>1, <1>2, ShapeGrows
<1>4. Shapes' <=> \A t \in DOMAIN txns' : ShapeOf(txns'[t], Known', categories')
  BY DEF Shapes, ShapeOf
<1>5. ASSUME \A t \in DOMAIN txns' : t \in DOMAIN txns /\ txns'[t] = txns[t] PROVE Shapes'
  BY <1>3, <1>4, <1>5
<1>6. ASSUME NEW t, NEW r \in Requests, NEW m, Book(t, r, m) PROVE Shapes'
  <2>1. Valid(r) /\ txns' = [u \in DOMAIN txns \cup {t} |-> IF u = t THEN Entry(r, m) ELSE txns[u]]
    BY <1>6 DEF Book
  <2>2. ShapeOf(Entry(r, m), Known', categories')
    BY <1>1, <2>1, EntryShape, ShapeGrows
  <2> QED BY <1>3, <1>4, <2>1, <2>2
<1>7. ASSUME NEW t, Delete(t) PROVE Shapes'
  <2>1. txns' = Restrict(txns, DOMAIN txns \ {t})
    BY <1>7 DEF Delete
  <2>2. \A u \in DOMAIN txns' : u \in DOMAIN txns /\ txns'[u] = txns[u]
    BY <2>1 DEF Restrict
  <2> QED BY <1>5, <2>2
<1>8. ASSUME txns' = txns PROVE Shapes'
  BY <1>5, <1>8
<1> QED BY <1>6, <1>7, <1>8 DEF Next, vars, facts, Create, Edit, Reconcile, Activate, Read, SaveBudget,
           CancelBudget, CreateCategory, SaveIncome, Complete, Correct, Close, Tick

\* Only salary is for an expectation, and it is for one.
LEMMA BookedSalary ==
  ASSUME TypeInv, TypeInv', Salaries, NEW t \in TxnIds, NEW r \in Requests, NEW m \in Months, Book(t, r, m)
  PROVE  Salaries'
<1> DEFINE receipt == [treatment |-> Chosen(r),
                       expected |-> IF Chosen(r) = "salary" THEN Target(r, m) ELSE {}]
<1>1. receipts' = WithReceipt(t, r, m) /\ DOMAIN plan \subseteq DOMAIN plan'
  BY MaterialisedType DEF Book, TypeInv
<1>2. \A u \in DOMAIN receipts' : \/ u \in DOMAIN receipts /\ receipts'[u] = receipts[u]
                                  \/ receipts'[u] = receipt
  BY <1>1 DEF WithReceipt, Restrict
<1>3. \E k : Target(r, m) = {k}
  <2>1. \A x, y \in r.expected : x = y
    BY DEF ConstantsAssumption
  <2>2. CASE r.expected = {}
    BY <2>2 DEF Target
  <2>3. CASE r.expected # {}
    <3>1. PICK k : k \in r.expected
      BY <2>3
    <3>2. r.expected = {k}
      BY <2>1, <3>1
    <3> QED BY <2>3, <3>2 DEF Target
  <2> QED BY <2>2, <2>3
<1>4. \A u \in DOMAIN receipts' : receipts'[u].expected \subseteq DOMAIN plan'
  BY DEF TypeInv, FactsType, EntriesType
<1>5. receipt.treatment = Chosen(r) /\ (Chosen(r) = "salary" => receipt.expected = Target(r, m))
  OBVIOUS
<1> HIDE DEF receipt
<1>6. ASSUME NEW u \in DOMAIN receipts', receipts'[u].treatment = "salary"
      PROVE  \E k \in DOMAIN plan' : receipts'[u].expected = {k}
  <2>1. CASE u \in DOMAIN receipts /\ receipts'[u] = receipts[u]
    BY <1>1, <1>6, <2>1 DEF Salaries
  <2>2. CASE receipts'[u] = receipt
    BY <1>3, <1>4, <1>5, <1>6, <2>2
  <2> QED BY <1>2, <2>1, <2>2
<1> QED BY <1>6 DEF Salaries

LEMMA SalariesStep == TypeInv /\ TypeInv' /\ Salaries /\ [Next]_vars => Salaries'
<1> SUFFICES ASSUME TypeInv, TypeInv', Salaries, [Next]_vars PROVE Salaries'
  OBVIOUS
<1>1. DOMAIN plan \subseteq DOMAIN plan'
  BY StepKeeps DEF Kept, KeptPlan
<1>2. ASSUME receipts' = receipts PROVE Salaries'
  BY <1>1, <1>2 DEF Salaries
<1>3. ASSUME NEW t \in TxnIds, NEW r \in Requests, NEW m \in Months, Create(t, r, m) PROVE Salaries'
  BY <1>3, BookedSalary DEF Create
<1>4. ASSUME NEW t \in TxnIds, NEW r \in Requests, Edit(t, r) PROVE Salaries'
  <2>1. txns[t].month \in Months
    BY <1>4 DEF Edit, TypeInv, FactsType, EntriesType, Entries
  <2> QED BY <1>4, <2>1, BookedSalary DEF Edit
<1>5. CASE Activate
  BY <1>5 DEF Activate, Salaries
<1> QED BY <1>2, <1>3, <1>4, <1>5 DEF Next, vars, facts, Delete, Reconcile, Read, SaveBudget,
           CancelBudget, CreateCategory, SaveIncome, Complete, Correct, Close, Tick

----------------------------------------------------------------------------
LEMMA UnusedStep == TypeInv /\ TypeInv' /\ Unused /\ [Next]_vars => Unused'
<1> SUFFICES ASSUME TypeInv, TypeInv', Unused, [Next]_vars, NEW i \in Months, ~Started(i)'
             PROVE  corrections'[i][Unallocated] = 0
  BY DEF Unused
<1>1. Unallocated \in Buckets /\ Unallocated \notin Categories
  BY DEF Buckets, ConstantsAssumption
<1>2. CASE start' = {}
  <2>1. Unallocated \notin Known'
    BY <1>1, <1>2 DEF Known, TypeInv, FactsType, PlanType
  <2> QED BY <1>1, <2>1 DEF TypeInv, FactsType, CorrectionsType
<1>3. CASE Activate
  <2>1. start = {} /\ corrections' = corrections
    BY <1>3 DEF Activate
  <2>2. Unallocated \notin Known
    BY <1>1, <2>1 DEF Known, TypeInv, FactsType, PlanType
  <2> QED BY <1>1, <2>1, <2>2 DEF TypeInv, FactsType, CorrectionsType
<1>4. ASSUME start # {}, start' = start PROVE corrections'[i][Unallocated] = 0
  <2>1. ~Started(i)
    BY <1>4 DEF Started
  <2>2. corrections[i][Unallocated] = 0
    BY <2>1 DEF Unused
  <2>3. i # month
    BY <1>4, <2>1 DEF Started, TypeInv, FactsType, CalendarType
  <2>4. ASSUME NEW original, NEW deltas, Correct(original, deltas) PROVE corrections'[i] = corrections[i]
    BY <2>3, <2>4 DEF Correct
  <2>5. corrections'[i] = corrections[i]
    BY <2>4, <1>4 DEF Next, vars, facts, Create, Edit, Book, Delete, Reconcile, Activate, Read, SaveBudget,
         CancelBudget, CreateCategory, SaveIncome, Complete, Close, Tick
  <2> QED BY <2>2, <2>5
<1>5. Activate \/ start' = start
  BY DEF Next, vars, Create, Edit, Book, Delete, Reconcile, Read, SaveBudget,
     CancelBudget, CreateCategory, SaveIncome, Complete, Correct, Close, Tick
<1> QED BY <1>2, <1>3, <1>4, <1>5

\* How a step changes the plan.
LEMMA PlanGrows ==
  ASSUME TypeInv, [Next]_vars
  PROVE  \/ Activate
         \/ start' = start /\ plan' = plan
         \/ start' = start /\ month' = month /\ DOMAIN plan' = DOMAIN Materialised(plan)
<1>1. ASSUME NEW m, NEW money, SaveIncome(m, money)
      PROVE  start' = start /\ month' = month /\ DOMAIN plan' = DOMAIN Materialised(plan)
  BY <1>1 DEF SaveIncome
<1>2. ASSUME NEW k, Complete(k)
      PROVE  start' = start /\ month' = month /\ DOMAIN plan' = DOMAIN Materialised(plan)
  BY <1>2 DEF Complete
<1> QED BY <1>1, <1>2 DEF Next, vars, Create, Edit, Book, Delete, Reconcile, Read, SaveBudget,
           CancelBudget, CreateCategory, Correct, Close, Tick

LEMMA UnbrokenStep == TypeInv /\ TypeInv' /\ Unbroken /\ [Next]_vars => Unbroken'
<1> SUFFICES ASSUME TypeInv, TypeInv', Unbroken, [Next]_vars,
                    NEW k \in DOMAIN plan', NEW i \in Months, Started(i)', i <= k
             PROVE  i \in DOMAIN plan'
  BY DEF Unbroken
<1>1. CASE Activate
  <2>1. start' = {month} /\ DOMAIN plan' = {month} /\ month \in Months
    BY <1>1 DEF Activate, TypeInv, FactsType, CalendarType
  <2> QED BY <2>1 DEF Started, Months
<1>2. CASE start' = start /\ plan' = plan
  BY <1>2 DEF Unbroken, Started
<1>3. CASE start' = start /\ month' = month /\ DOMAIN plan' = DOMAIN Materialised(plan)
  <2>1. Started(i) /\ month \in Months /\ k \in Months /\ k <= month
    BY <1>3 DEF Started, TypeInv, FactsType, CalendarType, PlanType, IsTable
  <2>2. CASE i \in Closed
    BY <1>3, <2>1, <2>2, MaterialisedType DEF TypeInv, FactsType, CalendarType
  <2>3. CASE i \notin Closed
    <3>1. RequireOpen(i)
      BY <2>1, <2>3 DEF RequireOpen, FirstMonth, Months
    <3> QED BY <1>3, <2>1, <3>1, MaterialisedType DEF TypeInv
  <2> QED BY <2>2, <2>3
<1> QED BY <1>1, <1>2, <1>3, PlanGrows

LEMMA CompletedOnceStep == TypeInv /\ TypeInv' /\ CompletedOnce /\ [Next]_vars => CompletedOnce'
<1> SUFFICES ASSUME TypeInv, TypeInv', CompletedOnce, [Next]_vars, NEW k \in DOMAIN plan'
             PROVE  plan'[k].completed = {} \/ \E c \in Months : k <= c /\ plan'[k].completed = {c}
  BY DEF CompletedOnce
<1>1. CASE k \in DOMAIN plan /\ plan'[k].completed = plan[k].completed
  BY <1>1 DEF CompletedOnce
<1>2. CASE plan' = plan
  BY <1>2 DEF CompletedOnce
<1>3. CASE month' = month /\ plan'[k].completed \subseteq {month}
  <2>1. k <= month /\ month \in Months
    BY <1>3 DEF TypeInv, FactsType, CalendarType, PlanType
  <2> QED BY <1>3, <2>1
<1>4. \/ k \in DOMAIN plan /\ plan'[k].completed = plan[k].completed
      \/ plan'[k].completed \subseteq {month}
  BY StepKeeps DEF Kept, KeptPlan
<1>5. plan' = plan \/ month' = month
  BY PlanGrows DEF Activate
<1> QED BY <1>1, <1>2, <1>3, <1>4, <1>5

----------------------------------------------------------------------------
\* What members and the default expect is worth something in euros.
PlansWorth == \A money \in Plans \cup {DefaultPlan}, m \in Months : Eur(money, m) > 0

\* Settings are of the amounts members expect.
Priced == \A k \in DOMAIN settings : settings[k] \in Plans

LEMMA AmountWorth ==
  ASSUME PlansWorth, NEW money \in Plans \cup {DefaultPlan}, NEW m \in Months
  PROVE  money.amount > 0 /\ Eur(money, m) > 0
<1>1. money \in Money /\ Eur(money, m) > 0
  BY DEF PlansWorth, ConstantsAssumption
<1>2. money.amount \in Nat
  BY <1>1 DEF Money
<1>3. money.amount # 0
  <2> SUFFICES ASSUME money.amount = 0 PROVE FALSE
    OBVIOUS
  <2>1. HalfEven(0, UsdPerEur[m]) = 0
    <3>1. UsdPerEur[m] \in Nat \ {0}
      BY DEF ConstantsAssumption
    <3>2. 0 \div UsdPerEur[m] = 0 /\ 0 % UsdPerEur[m] = 0
      BY <3>1
    <3> QED BY <3>1, <3>2 DEF HalfEven
  <2>2. Eur(money, m) = 0
    BY <2>1 DEF Eur
  <2> QED BY <1>1, <2>2
<1> QED BY <1>1, <1>2, <1>3

LEMMA InstanceWorth ==
  ASSUME PlansWorth
  PROVE  IsTable(settings, Money) /\ Priced => \A m \in Months : Instance(m).amount > 0 /\ Instance(m).eur > 0
<1> SUFFICES ASSUME IsTable(settings, Money), Priced, NEW m \in Months
             PROVE  Instance(m).amount > 0 /\ Instance(m).eur > 0
  OBVIOUS
<1>1. Expected(m) \in Plans \cup {DefaultPlan}
  <2>1. CASE \E k \in DOMAIN settings : k <= m
    <3>1. PICK k \in DOMAIN settings : Applicable(settings, m) = settings[k]
      <4>1. DOMAIN settings \subseteq Months
        BY DEF IsTable
      <4> QED BY <2>1, <4>1, ApplicableRow
    <3> QED BY <2>1, <3>1 DEF Expected, Priced
  <2>2. CASE ~ \E k \in DOMAIN settings : k <= m
    BY <2>2 DEF Expected
  <2> QED BY <2>1, <2>2
<1>2. Expected(m).amount > 0 /\ Eur(Expected(m), m) > 0
  <2> DEFINE money == Expected(m)
  <2> HIDE DEF money
  <2>1. money \in Plans \cup {DefaultPlan}
    BY <1>1 DEF money
  <2>2. money.amount > 0 /\ Eur(money, m) > 0
    BY <2>1, AmountWorth
  <2> QED BY <2>2 DEF money
<1> QED BY <1>2 DEF Instance

LEMMA InstanceWorthNext ==
  ASSUME PlansWorth
  PROVE  IsTable(settings, Money)' /\ Priced' => (\A m \in Months : Instance(m).amount > 0 /\ Instance(m).eur > 0)'
<1>1. IsTable(settings, Money) /\ Priced => \A m \in Months : Instance(m).amount > 0 /\ Instance(m).eur > 0
  BY InstanceWorth
<1> QED BY <1>1, PTL

LEMMA PricedStep == TypeInv /\ Priced /\ [Next]_vars => Priced'
<1> SUFFICES ASSUME TypeInv, Priced, [Next]_vars PROVE Priced'
  OBVIOUS
<1>1. ASSUME NEW m, NEW money \in Plans, SaveIncome(m, money) PROVE Priced'
  <2>1. settings' = [k \in DOMAIN settings \cup {m} |-> IF k = m THEN money ELSE settings[k]]
    BY <1>1 DEF SaveIncome
  <2> QED BY <2>1 DEF Priced
<1>2. ASSUME settings' = settings PROVE Priced'
  BY <1>2 DEF Priced
<1> QED BY <1>1, <1>2 DEF Next, vars, facts, Create, Edit, Book, Delete, Reconcile, Activate, Read, SaveBudget,
           CancelBudget, CreateCategory, Complete, Correct, Close, Tick

LEMMA MaterialisedWorth ==
  ASSUME PlansWorth, FactsType, Priced, Worth, NEW k \in DOMAIN Materialised(plan)
  PROVE  Materialised(plan)[k].amount > 0 /\ Materialised(plan)[k].eur > 0
<1>1. CASE k \in DOMAIN plan
  BY <1>1, MaterialisedType DEF Worth
<1>2. CASE k \notin DOMAIN plan
  <2>1. k \in Months /\ Materialised(plan)[k] = Instance(k)
    BY <1>2, MaterialisedType
  <2>2. IsTable(settings, Money)
    BY DEF FactsType, PlanType
  <2> QED BY <2>1, <2>2, InstanceWorth
<1> QED BY <1>1, <1>2

\* No step materialises a month that expects nothing.
LEMMA WorthStep ==
  ASSUME PlansWorth, TypeInv, TypeInv', Priced, Worth, [Next]_vars
  PROVE  Worth'
<1>1. FactsType /\ Priced' /\ IsTable(settings, Money) /\ IsTable(settings, Money)' /\ DOMAIN plan' \subseteq Months
  BY PricedStep DEF TypeInv, FactsType, PlanType, IsTable
<1>2. ASSUME plan' = plan PROVE Worth'
  BY <1>2 DEF Worth
<1>3. ASSUME plan' = Materialised(plan) PROVE Worth'
  BY <1>1, <1>3, MaterialisedWorth DEF Worth
<1>4. CASE Activate
  <2>1. month \in Months /\ plan' = [m \in {month} |-> Instance(m)]
    BY <1>4 DEF Activate, TypeInv, FactsType, CalendarType
  <2>2. Instance(month).amount > 0 /\ Instance(month).eur > 0
    BY <1>1, <2>1, InstanceWorth
  <2> QED BY <2>1, <2>2 DEF Worth
<1>5. ASSUME NEW m, NEW money, SaveIncome(m, money) PROVE Worth'
  <2>1. plan' = [k \in DOMAIN Materialised(plan) |->
                   IF k \in DOMAIN plan THEN Repriced(m)[k] ELSE Instance(k)']
    BY <1>5 DEF SaveIncome
  <2>2. ASSUME NEW k \in DOMAIN plan' PROVE (plan'[k] = plan[k] /\ k \in DOMAIN plan) \/ plan'[k] = Instance(k)'
    BY <2>1, <2>2 DEF Repriced
  <2>3. \A k \in Months : Instance(k)'.amount > 0 /\ Instance(k)'.eur > 0
    BY <1>1, InstanceWorthNext
  <2> QED BY <1>1, <2>2, <2>3 DEF Worth
<1>6. ASSUME NEW k, Complete(k) PROVE Worth'
  <2> DEFINE synced == Materialised(plan)
  <2>1. /\ k \in DOMAIN synced
        /\ plan' = [synced EXCEPT ![k].completed = {month}, ![k].shortfall = Remainder(k, synced[k], month)]
    BY <1>6 DEF Complete
  <2>2. IsTable(synced, Instances)
    BY <1>1, MaterialisedType
  <2>3. \A j \in DOMAIN synced : synced[j].amount > 0 /\ synced[j].eur > 0
    BY <1>1, MaterialisedWorth
  <2> HIDE DEF synced
  <2>4. DOMAIN plan' = DOMAIN synced /\ \A j \in DOMAIN synced : j # k => plan'[j] = synced[j]
    BY <2>1, <2>2 DEF IsTable
  <2>5. plan'[k].amount = synced[k].amount /\ plan'[k].eur = synced[k].eur
    <3>1. synced[k] \in Instances
      BY <2>1, <2>2 DEF IsTable
    <3>2. plan'[k] = [synced[k] EXCEPT !.completed = {month}, !.shortfall = Remainder(k, synced[k], month)]
      BY <2>1, <2>2 DEF IsTable
    <3> QED BY <3>1, <3>2 DEF Instances
  <2> QED BY <2>3, <2>4, <2>5 DEF Worth
<1> QED BY <1>2, <1>3, <1>4, <1>5, <1>6 DEF Next, vars, Create, Edit, Book, Delete, Reconcile, Read, SaveBudget,
           CancelBudget, CreateCategory, Correct, Close, Tick

----------------------------------------------------------------------------
(* What the months before the start allocate stays as it is. *)

\* Month i allocates what it did, to the categories that were there.
SameAllocations(i) ==
  /\ categories \subseteq categories'
  /\ \A c \in categories : Allocation(c, i)' = Allocation(c, i)
  /\ \A c \in categories' \ categories : Allocation(c, i)' = 0

LEMMA TotalSame ==
  ASSUME TypeInv, TypeInv', NEW i \in Months, SameAllocations(i)
  PROVE  TotalAllocation(i)' = TotalAllocation(i)
<1> DEFINE f == [c \in categories |-> Allocation(c, i)]
<1>1. IsFiniteSet(categories') /\ categories \subseteq categories'
  BY FS_Subset DEF ConstantsAssumption, TypeInv, FactsType, PlanType, SameAllocations
<1>2. /\ DOMAIN f = categories /\ DOMAIN f' = categories'
      /\ \A c \in categories : f'[c] = f[c] /\ f[c] \in Int
      /\ \A c \in categories' \ categories : f'[c] = 0
  <2>1. \A c \in categories : Allocation(c, i) \in Int
    BY AllocationType DEF TypeInv
  <2> QED BY <1>1, <2>1 DEF SameAllocations
<1>3. TotalAllocation(i) = SumFunction(f) /\ TotalAllocation(i)' = SumFunction(f')
  BY DEF TotalAllocation
<1> HIDE DEF f
<1> QED BY <1>1, <1>2, <1>3, SumExtend

\* A new row of a category's amounts that agrees with the old one through month i.
SameThrough(f, g, i) ==
  \A k : /\ k \in DOMAIN f /\ k <= i <=> k \in DOMAIN g /\ k <= i
         /\ k \in DOMAIN g /\ k <= i => g[k] = f[k]

LEMMA RowSame ==
  ASSUME TypeInv, NEW c \in categories, NEW row, periods' = [periods EXCEPT ![c] = row],
         categories' = categories, NEW i \in Months, SameThrough(periods[c], row, i)
  PROVE  SameAllocations(i)
<1>1. /\ c \in DOMAIN periods /\ IsTable(periods[c], Nat) /\ FirstMonth \in DOMAIN periods[c]
  BY DEF TypeInv, FactsType, PlanType
<1>2. periods'[c] = row /\ \A d \in categories : d # c => periods'[d] = periods[d]
  BY <1>1
<1>3. Applicable(row, i) = Applicable(periods[c], i)
  <2>1. /\ \A k : k \in DOMAIN periods[c] /\ k <= i <=> k \in DOMAIN row /\ k <= i
        /\ \A k \in DOMAIN periods[c] : k <= i => row[k] = periods[c][k]
        /\ DOMAIN periods[c] \subseteq Months /\ \E k \in DOMAIN periods[c] : k <= i
    BY <1>1 DEF IsTable, FirstMonth, Months, SameThrough
  <2> QED BY <2>1, ApplicableLocal
<1>4. Allocation(c, i)' = Allocation(c, i)
  <2>1. Allocation(c, i)' = Applicable(periods'[c], i)
    BY DEF Allocation, Applicable
  <2> QED BY <1>2, <1>3, <2>1 DEF Allocation
<1>5. \A d \in categories : Allocation(d, i)' = Allocation(d, i)
  BY <1>2, <1>4, AllocationSame
<1> QED BY <1>5 DEF SameAllocations

LEMMA SaveBudgetSame ==
  ASSUME TypeInv, NEW c \in Categories, NEW m \in Months, NEW amount, SaveBudget(c, m, amount),
         NEW i \in Months, i < month
  PROVE  SameAllocations(i)
<1> DEFINE row == [k \in DOMAIN periods[c] \cup {m} |-> IF k = m THEN amount ELSE periods[c][k]]
<1>1. c \in categories /\ categories' = categories /\ periods' = [periods EXCEPT ![c] = row] /\ month <= m
  BY DEF SaveBudget
<1>2. month \in Months
  BY DEF TypeInv, FactsType, CalendarType
<1>3. \A k : k <= i => k # m
  BY <1>1, <1>2 DEF Months
<1>4. SameThrough(periods[c], row, i)
  BY <1>3 DEF SameThrough
<1> HIDE DEF row
<1> QED BY <1>1, <1>4, RowSame

LEMMA CancelBudgetSame ==
  ASSUME TypeInv, NEW c \in Categories, NEW m \in Months, CancelBudget(c, m), NEW i \in Months, i < month
  PROVE  SameAllocations(i)
<1> DEFINE row == Restrict(periods[c], DOMAIN periods[c] \ {m})
<1>1. c \in categories /\ categories' = categories /\ periods' = [periods EXCEPT ![c] = row] /\ month < m
  BY DEF CancelBudget
<1>2. month \in Months
  BY DEF TypeInv, FactsType, CalendarType
<1>3. \A k : k <= i => k # m
  BY <1>1, <1>2 DEF Months
<1>4. SameThrough(periods[c], row, i)
  BY <1>3 DEF Restrict, SameThrough
<1> HIDE DEF row
<1> QED BY <1>1, <1>4, RowSame

LEMMA CreateCategorySame ==
  ASSUME TypeInv, NEW c \in Categories, NEW amount, CreateCategory(c, amount), NEW i \in Months, i < month
  PROVE  SameAllocations(i)
<1> DEFINE row == [m \in {FirstMonth, month} |-> IF m = month THEN amount ELSE 0]
<1>1. /\ c \notin categories /\ categories' = categories \cup {c} /\ periods' = [periods EXCEPT ![c] = row]
  BY DEF CreateCategory
<1>2. periods'[c] = row /\ \A d \in categories : periods'[d] = periods[d]
  BY <1>1 DEF TypeInv, FactsType, PlanType
<1>3. Allocation(c, i)' = 0
  <2>1. month \in Months
    BY DEF TypeInv, FactsType, CalendarType
  <2>2. /\ DOMAIN row \subseteq Months /\ FirstMonth \in DOMAIN row /\ FirstMonth <= i
        /\ \A k \in DOMAIN row : k <= i => row[k] = 0
    BY <2>1 DEF FirstMonth, Months
  <2>3. PICK k \in DOMAIN row : k <= i /\ Applicable(row, i) = row[k]
    <3> HIDE DEF row
    <3> QED BY <2>2, ApplicableRow
  <2>4. Allocation(c, i)' = Applicable(periods'[c], i)
    BY DEF Allocation, Applicable
  <2> HIDE DEF row
  <2> QED BY <1>2, <2>2, <2>3, <2>4
<1>4. \A d \in categories : Allocation(d, i)' = Allocation(d, i)
  BY <1>2, AllocationSame
<1> QED BY <1>1, <1>3, <1>4 DEF SameAllocations

LEMMA AllocationsSame ==
  ASSUME TypeInv, TypeInv', [Next]_vars, NEW i \in Months, i < month
  PROVE  TotalAllocation(i)' = TotalAllocation(i)
<1>1. ASSUME UNCHANGED <<categories, periods>> PROVE SameAllocations(i)
  BY <1>1, AllocationSame DEF SameAllocations
<1>2. SameAllocations(i)
  <2>1. ASSUME NEW c \in Categories, NEW m \in Months, NEW amount, SaveBudget(c, m, amount)
        PROVE  SameAllocations(i)
    BY <2>1, SaveBudgetSame
  <2>2. ASSUME NEW c \in Categories, NEW m \in Months, CancelBudget(c, m) PROVE SameAllocations(i)
    BY <2>2, CancelBudgetSame
  <2>3. ASSUME NEW c \in Categories, NEW amount, CreateCategory(c, amount) PROVE SameAllocations(i)
    BY <2>3, CreateCategorySame
  <2> QED BY <1>1, <2>1, <2>2, <2>3 DEF Next, vars, facts, Create, Edit, Book, Delete, Reconcile, Activate, Read,
             SaveIncome, Complete, Correct, Close, Tick
<1> QED BY <1>2, TotalSame

\* From the activation on the opening holds what the months before the start allocate,
\* and the drift there was, to the cent.
Held == start # {} => opening + Spare - drift \in -1..1

\* After the start, its months, opening and drift are for good.
LEMMA StartStays ==
  ASSUME [Next]_vars, start # {}
  PROVE  UNCHANGED <<start, opening, drift>>
BY DEF Next, vars, Create, Edit, Book, Delete, Reconcile, Activate, Read, SaveBudget, CancelBudget, CreateCategory,
   SaveIncome, Complete, Correct, Close, Tick

LEMMA SpareStays ==
  ASSUME TypeInv, TypeInv', [Next]_vars, start # {}
  PROVE  Spare' = Spare
<1>1. start' = start
  BY StartStays
<1> DEFINE U == Unstarted
           f == Allocated
           g == [i \in Months |-> TotalAllocation(i)']
<1>2. Unstarted' = U /\ Allocated' = g
  BY <1>1 DEF Unstarted, Started, Allocated
<1>3. \A i \in U : i \in Months /\ i < month
  BY DEF Unstarted, Started, TypeInv, FactsType, CalendarType, Months
<1>4. IsFiniteSet(U)
  <2>1. U \subseteq 1..month /\ IsFiniteSet(1..month)
    <3>1. month \in Int
      BY DEF TypeInv, FactsType, CalendarType, Months
    <3> HIDE DEF U
    <3> QED BY <1>3, <3>1, FiniteTables DEF TypeInv, Months
  <2> QED BY <2>1, FS_Subset
<1>5. \A i \in U : g[i] = f[i]
  BY <1>3, AllocationsSame DEF Allocated
<1>6. Spare' = SumFunctionOnSet(Allocated', Unstarted')
  BY DEF Spare
<1>7. Spare' = SumFunctionOnSet(g, U)
  BY <1>2, <1>6
<1> HIDE DEF U, f, g
<1>8. SumFunctionOnSet(g, U) = SumFunctionOnSet(f, U)
  BY <1>4, <1>5, SumAgree
<1> QED BY <1>7, <1>8 DEF Spare, U, f

\* Nothing after the activation changes that.
LEMMA HeldStays ==
  ASSUME TypeInv, TypeInv', Held, [Next]_vars, start # {}
  PROVE  Held'
<1>1. UNCHANGED <<start, opening, drift>> /\ Spare' = Spare
  BY StartStays, SpareStays
<1> QED BY <1>1 DEF Held

----------------------------------------------------------------------------
(* The opening: what the activation finds makes it hold. *)

\* Balances computed from the frozen statements are those computed from the movements.
LEMMA ShownReplayed ==
  TypeInv /\ FrozenInv => \A m \in 0..month, c \in Known : Shown[m][c] = Replayed[m][c]
<1> SUFFICES ASSUME TypeInv, FrozenInv PROVE \A m \in 0..month, c \in Known : Shown[m][c] = Replayed[m][c]
  OBVIOUS
<1>1. month \in Nat
  BY DEF TypeInv, FactsType, CalendarType, Months
<1>2. Fits(frozen)
  <2>1. DOMAIN frozen \subseteq 1..month /\ \A m \in DOMAIN frozen : 1..m \subseteq DOMAIN frozen
    BY <1>1 DEF TypeInv, FactsType, CalendarType, Closed
  <2>2. ASSUME NEW m \in DOMAIN frozen
        PROVE  /\ \A c \in DOMAIN frozen[m].balances : Replayed[m][c] = frozen[m].balances[c]
               /\ \A c \in Known \ DOMAIN frozen[m].balances : c # Unallocated => Replayed[m][c] = 0
               /\ Unallocated \in DOMAIN frozen[m].balances <=> Started(m)
               /\ \A k \in DOMAIN frozen : k <= m => DOMAIN frozen[k].balances \subseteq DOMAIN frozen[m].balances
    BY DEF FrozenInv, FrozenAs, Closed, TypeInv, IsSnapshots
  <2> QED BY <2>1, <2>2 DEF Fits
<1> QED BY <1>1, <1>2, ReadOrReplayed DEF Shown

LEMMA ShownReplayedNext ==
  TypeInv' /\ FrozenInv' => (\A m \in 0..month, c \in Known : Shown[m][c] = Replayed[m][c])'
BY ShownReplayed, PTL

\* Until the start Unallocated stands at its opening.
LEMMA OpeningStands ==
  ASSUME TypeInv, start # {}, NEW m \in 0..month, \A i \in 1..m : ~Started(i)
  PROVE  Replayed[m][Unallocated] = opening
<1> DEFINE B == {n \in 0..m : Replayed[n][Unallocated] # opening}
<1>1. month \in Nat /\ m \in Nat /\ Unallocated \in Known
  BY DEF TypeInv, FactsType, CalendarType, Months, Known
<1> SUFFICES ASSUME B # {} PROVE FALSE
  BY <1>1
<1>2. PICK n \in B : \A k \in B : n <= k
  <2>1. B \subseteq Nat
    BY <1>1
  <2> HIDE DEF B
  <2> QED BY <2>1, LeastNat
<1>3. n \in 0..m /\ Replayed[n][Unallocated] # opening /\ n \in 0..month
  BY <1>1, <1>2
<1>4. Replayed[n][Unallocated] =
        IF n = 0 THEN opening
        ELSE IF Started(n) THEN Replayed[n - 1][Unallocated] + UnallocatedChange(n)
        ELSE Replayed[n - 1][Unallocated]
  BY <1>1, <1>3, ReplayedRow
<1>5. n # 0 /\ n - 1 \in 0..m /\ ~(n <= n - 1) /\ ~Started(n)
  BY <1>1, <1>3, <1>4
<1>6. n - 1 \notin B
  <2> HIDE DEF B
  <2> QED BY <1>2, <1>5
<1>7. Replayed[n - 1][Unallocated] = opening
  BY <1>5, <1>6
<1> QED BY <1>3, <1>4, <1>5, <1>7

\* Nothing involves Unallocated yet, and income from before the start is legacy.
Untouched(m) ==
  /\ \A t \in DOMAIN txns : txns[t].from # Unallocated /\ txns[t].to # Unallocated
  /\ \A t \in DOMAIN txns : txns[t].kind = "income" => Treatment(t) = "legacy"
  /\ \A k \in DOMAIN plan : plan[k].completed = {}
  /\ corrections[m][Unallocated] = 0

LEMMA AskedAtStart ==
  ASSUME TypeInv, NEW m \in DOMAIN plan, Untouched(m)
  PROVE  Asked(Unallocated, OtherKinds, m) = 0
<1> DEFINE T == SourcesOf(Unallocated, OtherKinds, m)
           g == [k \in T |-> Wanted(m, k)]
<1>1. \A k : Excess(k, m) = 0
  <2> TAKE k
  <2>1. {u \in MatchedReceipts(k, month) : txns[u].month = m /\ receipts[u].treatment # "legacy"} = {}
    BY DEF Untouched, Treatment, MatchedReceipts
  <2> DEFINE h == [t \in {} |-> txns[t].eur - CoveredBy(k, t)]
  <2>2. Excess(k, m) = SumFunction(h)
    BY <2>1 DEF Excess
  <2>3. DOMAIN h = {}
    OBVIOUS
  <2> HIDE DEF h
  <2> QED BY <2>2, <2>3, SumIsOnDomain, SumEmpty
<1>2. ASSUME NEW key \in T PROVE Wanted(m, key) = 0
  <2>1. key \in Sources(m) /\ key[1] = Unallocated /\ key[2] \in OtherKinds
    BY DEF SourcesOf
  <2> HIDE DEF T
  <2>2. CASE key = <<Unallocated, "correction", m>>
    <3>1. Wanted(m, key) = -corrections[m][Unallocated] /\ corrections[m][Unallocated] = 0
      BY <2>2 DEF Wanted, Untouched
    <3>2. \A x \in Int : -x = 0 - x
      OBVIOUS
    <3>3. corrections[m][Unallocated] \in Int /\ 0 - corrections[m][Unallocated] = 0
      BY <3>1
    <3>4. -corrections[m][Unallocated] = 0
      BY <3>2, <3>3, Zenon
    <3> QED BY <3>1, <3>4, Zenon
  <2>3. CASE \E k \in DOMAIN plan : key = <<Unallocated, "excess", k>> \/ key = <<Unallocated, "settlement", k>>
    <3>1. PICK k \in DOMAIN plan : key = <<Unallocated, "excess", k>> \/ key = <<Unallocated, "settlement", k>>
      BY <2>3
    <3>2. plan[k].completed # {m}
      BY DEF Untouched
    <3> QED BY <1>1, <3>1, <3>2 DEF Wanted
  <2>4. CASE \E t \in EntriesOf(m) : key = <<Unallocated, "spending", t>> \/ key = <<Unallocated, "reallocation", t>>
    <3>1. PICK t \in EntriesOf(m) : key = <<Unallocated, "spending", t>> \/ key = <<Unallocated, "reallocation", t>>
      BY <2>4
    <3>2. \A amount : Sides(t, Unallocated, amount) = 0
      BY DEF Untouched, Sides, EntriesOf
    <3> QED BY <3>1, <3>2 DEF Wanted
  <2>5. CASE \E t \in EntriesOf(m) : key = <<Unallocated, "income", t>>
    <3>1. PICK t \in EntriesOf(m) : key = <<Unallocated, "income", t>>
      BY <2>5
    <3>2. ~Unplanned(t)
      BY DEF Untouched, Unplanned, EntriesOf
    <3> QED BY <3>1, <3>2 DEF Wanted
  <2>6. \/ key = <<Unallocated, "correction", m>>
        \/ \E k \in DOMAIN plan : key = <<Unallocated, "excess", k>> \/ key = <<Unallocated, "settlement", k>>
        \/ \E t \in EntriesOf(m) : key = <<Unallocated, "spending", t>> \/ key = <<Unallocated, "reallocation", t>>
        \/ \E t \in EntriesOf(m) : key = <<Unallocated, "income", t>>
    BY <2>1 DEF Sources, OtherKinds
  <2> QED BY <2>2, <2>3, <2>4, <2>5, <2>6
<1>3. IsFiniteSet(T)
  <2>1. IsFiniteSet(MovementKeys(m)) /\ Sources(m) \subseteq MovementKeys(m)
    BY MovementsFinite, SourcesAreKeys DEF TypeInv, FactsType, PlanType, IsTable
  <2>2. T \subseteq Sources(m)
    BY DEF SourcesOf
  <2> HIDE DEF T
  <2> QED BY <2>1, <2>2, FS_Subset
<1>4. DOMAIN g = T /\ \A key \in T : g[key] = 0
  BY <1>2
<1>5. SumFunction(g) = 0
  <2> HIDE DEF g, T
  <2> QED BY <1>3, <1>4, SumIsOnDomain, SumZero
<1> QED BY <1>5 DEF Asked

\* The state right after the activation.
Activated ==
  /\ start = {month} /\ DOMAIN plan = {month} /\ Untouched(month)
  /\ plan[month].eur = Eur(Expected(month), month)
  /\ drift = Drift(month)
  /\ opening = Cash(month) - SumFunctionOnSet(Replayed[month], categories) + Outstanding(month, month)
                 - (Eur(Expected(month), month) - TotalAllocation(month))

\* What is shown of all of them at the activation.
LEMMA StartTotal ==
  ASSUME TypeInv, PlanAgrees, PlanFacts, Activated
  PROVE  /\ Total(month) = SumFunctionOnSet(Replayed[month], categories) + opening
                             + (Eur(Expected(month), month) - TotalAllocation(month))
         /\ SumFunctionOnSet(Replayed[month], categories) \in Int
         /\ Eur(Expected(month), month) \in Int /\ TotalAllocation(month) \in Int
<1> DEFINE h == Replayed[month]
           u == Unallocated
<1>1. /\ month \in Nat /\ month \in Months /\ month \in DOMAIN plan /\ start # {} /\ month # 0
      /\ month - 1 \in 0..month /\ month \in 0..month
      /\ \A i \in 1..(month - 1) : ~Started(i)
      /\ Started(month) /\ opening \in Int /\ FactsType /\ LedgerType
  BY DEF Activated, TypeInv, FactsType, CalendarType, Months, Started
<1>2. u \in Known /\ Known = categories \cup {u} /\ u \notin categories /\ IsFiniteSet(Known)
  BY <1>1, KnownParts, FiniteTables
<1>3. DOMAIN h = Known /\ \A c \in Known : h[c] \in Int
  <2>1. DOMAIN h = Known
    BY <1>1, HistoryRow DEF Replayed
  <2>2. HasAmounts(Empty)
    BY DEF HasAmounts, Empty
  <2> QED BY <1>1, <2>1, <2>2, HistoryType DEF Replayed
<1>4. h[u] = opening + UnallocatedChange(month)
  <2>1. h[u] = Replayed[month - 1][u] + UnallocatedChange(month)
    BY <1>1, <1>2, ReplayedRow
  <2>2. Replayed[month - 1][u] = opening
    BY <1>1, OpeningStands
  <2> QED BY <2>1, <2>2
<1>5. /\ UnallocatedChange(month) = Asked(Unallocated, OtherKinds, month) + plan[month].eur - TotalAllocation(month)
      /\ plan[month].eur \in Int /\ TotalAllocation(month) \in Int
  <2>1. Agree(month) /\ plan[month].eur > 0
    BY <1>1 DEF PlanAgrees, PlanFacts, Worth
  <2> QED BY <1>1, <2>1, UnallocatedAsked
<1>6. Asked(Unallocated, OtherKinds, month) = 0 /\ plan[month].eur = Eur(Expected(month), month)
  BY <1>1, AskedAtStart DEF Activated
<1>7. SumFunctionOnSet(h, Known) = SumFunctionOnSet(h, categories) + h[u] /\ SumFunctionOnSet(h, categories) \in Int
  <2>1. SumFunctionOnSet(h, Known) = SumFunctionOnSet(h, DOMAIN h \ {u}) + h[u]
    <3> HIDE DEF h
    <3> QED BY <1>1, <1>3, TotalParts
  <2>2. DOMAIN h \ {u} = categories
    BY <1>2, <1>3
  <2>3. IsFiniteSet(categories) /\ \A c \in categories : h[c] \in Int
    BY <1>1, <1>2, <1>3, FiniteTables
  <2> HIDE DEF h
  <2>4. SumFunctionOnSet(h, categories) \in Int
    BY <2>3, SumType
  <2>5. SumFunctionOnSet(h, DOMAIN h \ {u}) = SumFunctionOnSet(h, categories)
    BY <2>2
  <2> QED BY <2>1, <2>4, <2>5
<1>8. Total(month) = SumFunctionOnSet(h, Known)
  BY DEF Total
<1> DEFINE e == Eur(Expected(month), month)
           a == TotalAllocation(month)
           s == SumFunctionOnSet(h, categories)
           U == UnallocatedChange(month)
<1>9. /\ U = 0 + e - a /\ e \in Int /\ a \in Int /\ s \in Int
      /\ h[u] = opening + U /\ Total(month) = s + h[u]
  BY <1>4, <1>5, <1>6, <1>7, <1>8
<1> HIDE DEF e, a, s, U, h
<1>10. Total(month) = s + opening + (e - a)
  BY <1>1, <1>9
<1> QED BY <1>9, <1>10 DEF e, a, s, h

\* The activation takes the opening so that it holds.
LEMMA StartHeld ==
  TypeInv /\ PlanAgrees /\ PlanFacts /\ Activated => Held
<1> SUFFICES ASSUME TypeInv, PlanAgrees, PlanFacts, Activated PROVE opening + Spare - drift \in -1..1
  BY DEF Held
<1>1. /\ month \in Int /\ month \in Months /\ DOMAIN plan = {month} /\ month \in DOMAIN plan /\ FactsType
      /\ opening \in Int /\ drift \in Int /\ plan[month].amount > 0
  BY DEF Activated, TypeInv, FactsType, CalendarType, Months, PlanFacts, Worth
<1>2. PlannedTo(month) = {month}
  BY <1>1 DEF PlannedTo
<1>3. ~CompletedBy(month, month)
  BY <1>1 DEF Activated, Untouched, CompletedBy
<1>4. Rounding(month, month) \in -1..1
  BY <1>1, RoundingNear
<1>5. SumFunctionOnSet(Outstandings(month), PlannedTo(month)) = Outstanding(month, month)
      /\ Outstanding(month, month) \in Int
  <2> DEFINE f == Outstandings(month)
  <2>1. f[month] = Outstanding(month, month) /\ f[month] \in Int
    BY <1>1, OutstandingType DEF Outstandings
  <2> HIDE DEF f
  <2>2. SumFunctionOnSet(f, {month}) = f[month]
    BY <2>1, SumSingle
  <2>3. SumFunctionOnSet(f, PlannedTo(month)) = f[month]
    BY <1>2, <2>2
  <2> QED BY <2>1, <2>3 DEF f
<1>6. SumFunctionOnSet(Lefts(month), PlannedTo(month)) = Rounding(month, month)
  <2> DEFINE f == Lefts(month)
  <2>1. f[month] = Rounding(month, month) /\ f[month] \in Int
    BY <1>1, <1>3, <1>4 DEF Lefts, Left
  <2> HIDE DEF f
  <2>2. SumFunctionOnSet(f, {month}) = f[month]
    BY <2>1, SumSingle
  <2>3. SumFunctionOnSet(f, PlannedTo(month)) = f[month]
    BY <1>2, <2>2
  <2> QED BY <2>1, <2>3 DEF f
<1>7. Cash(month) + SumFunctionOnSet(Outstandings(month), PlannedTo(month)) - Total(month) - Drift(month)
        = SumFunctionOnSet(Lefts(month), PlannedTo(month)) - opening - Spare
  BY <1>1, GapIs
<1>8. Cash(month) \in Int /\ Spare \in Int
  BY <1>1, CashType, AddedThrough
<1> DEFINE C == Cash(month)
           O == Outstanding(month, month)
           T == Total(month)
           R == Rounding(month, month)
           S == Spare
           r == SumFunctionOnSet(Replayed[month], categories)
           e == Eur(Expected(month), month)
           a == TotalAllocation(month)
<1>9. C + O - T - drift = R - opening - S
  BY <1>5, <1>6, <1>7 DEF Activated
<1>10. opening = C - r + O - (e - a)
  BY DEF Activated
<1>11. T = r + opening + (e - a) /\ r \in Int /\ e \in Int /\ a \in Int
  BY StartTotal
<1>12. C \in Int /\ O \in Int /\ R \in -1..1 /\ S \in Int /\ drift \in Int
  BY <1>1, <1>4, <1>5, <1>8
<1> HIDE DEF C, O, T, R, S, r, e, a
<1>13. opening + S - drift = R
  BY <1>1, <1>9, <1>10, <1>11, <1>12
<1>14. opening + S - drift \in -1..1
  BY <1>12, <1>13
<1> QED BY <1>14 DEF S

LEMMA StartHeldNext ==
  TypeInv' /\ PlanAgrees' /\ PlanFacts' /\ Activated' => Held'
BY StartHeld, PTL

----------------------------------------------------------------------------
\* What the categories show is what they are computed to have, before and after.
LEMMA ActivateRemains ==
  ASSUME TypeInv, TypeInv', FrozenInv, FrozenInv', Activate
  PROVE  SumFunctionOnSet(Replayed[month], categories)' = SumFunctionOnSet(Shown[month], categories)
<1>1. UNCHANGED <<month, frozen, categories>> /\ month \in Nat /\ month \in 0..month /\ month' \in 0..month'
  BY DEF Activate, TypeInv, FactsType, CalendarType, Months
<1> DEFINE f == Shown[month]
           g == Replayed'[month']
           C == categories
<1>2. IsFiniteSet(C)
  BY FiniteTables DEF TypeInv
<1>3. \A c \in C : g[c] = f[c]
  <2> TAKE c \in C
  <2>1. c \in Known'
    BY <1>1 DEF Known
  <2>2. \A m \in 0..month : Shown'[m][c] = Replayed'[m][c]
    BY <1>1, <2>1, ShownReplayedNext
  <2>3. \A m \in 0..month : Shown'[m][c] = Shown[m][c]
    BY ActivateShows
  <2>4. Replayed'[month][c] = Shown[month][c]
    BY <1>1, <2>2, <2>3
  <2> QED BY <1>1, <2>4
<1>4. SumFunctionOnSet(Replayed[month], categories)' = SumFunctionOnSet(g, C)
  BY <1>1
<1> HIDE DEF f, g, C
<1>5. SumFunctionOnSet(g, C) = SumFunctionOnSet(f, C)
  BY <1>2, <1>3, SumAgree
<1> QED BY <1>4, <1>5 DEF f, C

LEMMA CashSame ==
  ASSUME UNCHANGED <<txns, adjusted, month>>
  PROVE  Cash(month)' = Cash(month)
BY DEF Cash, CashChange

LEMMA AmountsAtStart ==
  ASSUME UNCHANGED <<categories, periods, settings, month>>
  PROVE  TotalAllocation(month)' = TotalAllocation(month) /\ Eur(Expected(month), month)' = Eur(Expected(month), month)
BY DEF TotalAllocation, Allocation, Applicable, Expected, Eur, HalfEven

LEMMA ActivateUntouched ==
  ASSUME TypeInv, Activate
  PROVE  Untouched(month)'
<1>1. /\ start = {} /\ UNCHANGED <<month, txns, corrections>> /\ month \in Months
      /\ receipts' = [t \in {u \in DOMAIN txns : txns[u].kind = "income"} |->
                        [treatment |-> "legacy",
                         expected |-> IF txns[t].month = month THEN {month} ELSE {}]]
      /\ plan' = [m \in {month} |-> Instance(m)]
  BY DEF Activate, TypeInv, FactsType, CalendarType
<1>2. Unallocated \notin Known \cup {External} /\ Unallocated \in Buckets
  BY <1>1 DEF Known, TypeInv, FactsType, PlanType, ConstantsAssumption, Buckets
<1>3. \A t \in DOMAIN txns' : txns'[t].from # Unallocated /\ txns'[t].to # Unallocated
  BY <1>1, <1>2 DEF TypeInv, FactsType, EntriesType
<1>4. \A t \in DOMAIN txns' : txns'[t].kind = "income" => Treatment(t)' = "legacy"
  BY <1>1 DEF Treatment
<1>5. \A k \in DOMAIN plan' : plan'[k].completed = {}
  BY <1>1 DEF Instance
<1>6. corrections'[month'][Unallocated] = 0
  BY <1>1, <1>2 DEF TypeInv, FactsType, CorrectionsType
<1> QED BY <1>3, <1>4, <1>5, <1>6 DEF Untouched

LEMMA ActivateActivated ==
  ASSUME TypeInv, TypeInv', FrozenInv, FrozenInv', Activate
  PROVE  Activated'
<1>1. /\ start' = {month} /\ UNCHANGED <<month, categories, periods, settings, txns, adjusted>>
      /\ plan' = [m \in {month} |-> Instance(m)] /\ drift' = Drift(month)'
      /\ opening' = Cash(month) - SumFunctionOnSet(Shown[month], categories) + Outstanding(month, month)'
                      - (Eur(Expected(month), month) - TotalAllocation(month))
  BY DEF Activate
<1>2. start' = {month'} /\ DOMAIN plan' = {month'}
  BY <1>1
<1>3. plan'[month'].eur = Eur(Expected(month), month)'
  <2>1. plan'[month'].eur = Eur(Expected(month), month)
    BY <1>1 DEF Instance
  <2> QED BY <1>1, <2>1, AmountsAtStart
<1>4. opening' = Cash(month)' - SumFunctionOnSet(Replayed[month], categories)' + Outstanding(month, month)'
                   - (Eur(Expected(month), month)' - TotalAllocation(month)')
  <2>1. Cash(month)' = Cash(month)
    BY <1>1, CashSame
  <2>2. TotalAllocation(month)' = TotalAllocation(month) /\ Eur(Expected(month), month)' = Eur(Expected(month), month)
    BY <1>1, AmountsAtStart
  <2>3. SumFunctionOnSet(Replayed[month], categories)' = SumFunctionOnSet(Shown[month], categories)
    BY ActivateRemains
  <2> QED BY <1>1, <2>1, <2>2, <2>3
<1>5. Untouched(month)'
  BY ActivateUntouched
<1> QED BY <1>1, <1>2, <1>3, <1>4, <1>5 DEF Activated

----------------------------------------------------------------------------
\* The inductive invariant of the accounting.
BackedInv == PlanFacts /\ Priced /\ Held

LEMMA BackedInit == Init => BackedInv
<1> SUFFICES ASSUME Init PROVE BackedInv
  OBVIOUS
<1>1. /\ DOMAIN plan = {} /\ DOMAIN txns = {} /\ DOMAIN receipts = {} /\ DOMAIN settings = {} /\ start = {}
      /\ \A i \in Months : corrections[i][Unallocated] = 0
  BY DEF Init, Empty, Buckets
<1> QED BY <1>1 DEF BackedInv, PlanFacts, Shapes, Salaries, Unused, Unbroken, CompletedOnce, Worth, Priced, Held

LEMMA BackedStep ==
  ASSUME PlansWorth, TypeInv, TypeInv', OpenInv, OpenInv', FrozenInv, FrozenInv', BackedInv, [Next]_vars
  PROVE  BackedInv'
<1>1. PlanFacts' /\ Priced'
  BY ShapesStep, SalariesStep, UnusedStep, UnbrokenStep, CompletedOnceStep, WorthStep, PricedStep
  DEF BackedInv, PlanFacts
<1>2. Held'
  <2>1. CASE start # {}
    BY <2>1, HeldStays DEF BackedInv
  <2>2. CASE Activate
    BY <1>1, <2>2, ActivateActivated, StartHeldNext DEF OpenInv
  <2>3. CASE start = {} /\ ~Activate
    <3>1. start' = {}
      BY <2>3 DEF Next, vars, Create, Edit, Book, Delete, Reconcile, Read, SaveBudget, CancelBudget,
         CreateCategory, SaveIncome, Complete, Correct, Close, Tick
    <3> QED BY <3>1 DEF Held
  <2> QED BY <2>1, <2>2, <2>3
<1> QED BY <1>1, <1>2 DEF BackedInv

----------------------------------------------------------------------------
\* What a month shows of all categories and Unallocated is what is computed to be there.
LEMMA ShownTotal ==
  ASSUME TypeInv, FrozenInv, start # {}, NEW m \in 0..month
  PROVE  /\ DOMAIN Shown[m] = Known /\ \A c \in Known : Shown[m][c] \in Int
         /\ SumFunctionOnSet(Shown[m], Known) = Total(m)
<1>1. month \in Nat
  BY DEF TypeInv, FactsType, CalendarType, Months
<1>2. DOMAIN Shown[m] = Known
  BY <1>1, HistoryRow DEF Shown
<1>3. \A c \in Known : Shown[m][c] \in Int
  <2>1. HasAmounts(frozen)
    BY DEF TypeInv, IsSnapshots, HasAmounts
  <2> QED BY <2>1, HistoryType DEF TypeInv, Shown
<1>4. SumFunctionOnSet(Shown[m], Known) = SumFunctionOnSet(Replayed[m], Known)
  <2> DEFINE f == Shown[m]
             g == Replayed[m]
             K == Known
  <2>1. IsFiniteSet(K)
    BY FiniteTables DEF TypeInv
  <2>2. \A c \in K : f[c] = g[c]
    BY ShownReplayed
  <2> HIDE DEF f, g, K
  <2>3. SumFunctionOnSet(f, K) = SumFunctionOnSet(g, K)
    BY <2>1, <2>2, SumAgree
  <2> QED BY <2>3 DEF f, g, K
<1> QED BY <1>2, <1>3, <1>4 DEF Total

\* The months not yet complete are a cent off each, at most.
LEMMA LeftsNear ==
  ASSUME TypeInv, PlanFacts, NEW m \in DOMAIN plan
  PROVE  LET n == Cardinality({k \in DOMAIN plan : k <= m /\ ~CompletedBy(k, m)})
         IN  n \in Nat /\ SumFunctionOnSet(Lefts(m), PlannedTo(m)) \in -n..n
<1> DEFINE I == PlannedTo(m)
           N == {k \in DOMAIN plan : k <= m /\ ~CompletedBy(k, m)}
           f == Lefts(m)
<1>1. IsFiniteSet(I) /\ m \in Int /\ m <= month
  BY MonthsParted DEF TypeInv, PlanFacts, Months
<1>2. N \subseteq I /\ I \subseteq DOMAIN plan
  BY DEF PlannedTo
<1>3. \A k \in N : f[k] \in -1..1
  <2> TAKE k \in N
  <2>1. k \in DOMAIN plan /\ plan[k].amount > 0 /\ FactsType
    BY DEF PlanFacts, Worth, TypeInv
  <2>2. Rounding(k, m) \in -1..1
    BY <1>1, <2>1, RoundingNear
  <2>3. f[k] = Rounding(k, m)
    BY <2>1 DEF Lefts, Left
  <2> QED BY <2>2, <2>3
<1>4. \A k \in I \ N : f[k] = 0
  BY DEF Lefts, Left, PlannedTo
<1>5. IsFiniteSet(N)
  BY <1>1, <1>2, FS_Subset
<1> HIDE DEF I, N, f
<1>6. SumFunctionOnSet(f, I) = SumFunctionOnSet(f, N)
  <2> DEFINE Z == I \ N
  <2>1. IsFiniteSet(Z) /\ N \cap Z = {} /\ N \cup Z = I
    BY <1>1, <1>2, FS_Subset
  <2>2. (\A x \in N \cup Z : f[x] \in Int) /\ \A x \in Z : f[x] = 0
    BY <1>3, <1>4
  <2> HIDE DEF Z
  <2>3. SumFunctionOnSet(f, N \cup Z) = SumFunctionOnSet(f, N) + SumFunctionOnSet(f, Z)
    BY <1>5, <2>1, <2>2, SumUnion
  <2>4. SumFunctionOnSet(f, Z) = 0
    BY <2>1, <2>2, SumZero
  <2>5. SumFunctionOnSet(f, N) \in Int
    BY <1>5, <2>2, SumType
  <2>6. SumFunctionOnSet(f, N \cup Z) = SumFunctionOnSet(f, N)
    BY <2>3, <2>4, <2>5
  <2> QED BY <2>1, <2>6
<1>7. SumFunctionOnSet(f, N) \in -Cardinality(N)..Cardinality(N) /\ Cardinality(N) \in Nat
  BY <1>3, <1>5, SumBounded, FS_CardinalityType
<1>8. SumFunctionOnSet(f, I) \in -Cardinality(N)..Cardinality(N)
  BY <1>6, <1>7
<1> QED BY <1>7, <1>8 DEF I, N, f

\* The inductive invariant backs the plan.
LEMMA BackedEnough ==
  TypeInv /\ OpenInv /\ FrozenInv /\ BackedInv => PlanBacked
<1> SUFFICES ASSUME TypeInv, OpenInv, FrozenInv, BackedInv,
                    NEW m \in {k \in Months : Started(k) /\ k <= month /\ k \in DOMAIN plan}
             PROVE  LET c == Coverage(m, Shown[m])
                        gap == c.cash + c.outstanding - c.assigned - c.unallocated - (Drift(m) - drift)
                        cents == 1 + Cardinality({k \in DOMAIN plan : k <= m /\ ~CompletedBy(k, m)})
                    IN  gap \in -cents..cents
  BY DEF PlanBacked
<1>1. /\ m \in Months /\ m \in DOMAIN plan /\ m \in 0..month /\ start # {}
      /\ FactsType /\ PlanFacts /\ PlanAgrees /\ Unbroken
  BY DEF TypeInv, BackedInv, OpenInv, PlanFacts, Started, FactsType, CalendarType, Months
<1> DEFINE C == Cash(m)
           O == SumFunctionOnSet(Outstandings(m), PlannedTo(m))
           T == Total(m)
           D == Drift(m)
           L == SumFunctionOnSet(Lefts(m), PlannedTo(m))
           S == Spare
           c == Coverage(m, Shown[m])
           n == Cardinality({k \in DOMAIN plan : k <= m /\ ~CompletedBy(k, m)})
           A == SumFunctionOnSet(Shown[m], DOMAIN Shown[m] \ {Unallocated})
           U == Shown[m][Unallocated]
<1>2. c.cash = C /\ c.assigned = A /\ c.unallocated = U /\ c.outstanding = O
  BY <1>1, OutstandingIs DEF Coverage
<1>3. A + U = T /\ U \in Int /\ A \in Int
  <2> DEFINE h == Shown[m]
             K == Known
  <2>1. DOMAIN h = Known /\ (\A k \in Known : h[k] \in Int) /\ SumFunctionOnSet(h, Known) = T
    BY <1>1, ShownTotal
  <2>2. IsFiniteSet(Known) /\ Unallocated \in Known
    BY <1>1, FiniteTables, KnownParts
  <2> HIDE DEF h
  <2>3. SumFunctionOnSet(h, Known) = SumFunctionOnSet(h, DOMAIN h \ {Unallocated}) + h[Unallocated]
    BY <1>1, <2>1, TotalParts
  <2>4. SumFunctionOnSet(h, DOMAIN h \ {Unallocated}) \in Int
    <3> DEFINE R == DOMAIN h \ {Unallocated}
    <3>1. IsFiniteSet(R) /\ \A k \in R : h[k] \in Int
      BY <2>1, <2>2, FS_Subset
    <3> HIDE DEF R
    <3>2. SumFunctionOnSet(h, R) \in Int
      BY <3>1, SumType
    <3> QED BY <3>2 DEF R
  <2>5. h[Unallocated] \in Int
    BY <2>1, <2>2
  <2> HIDE DEF T
  <2> DEFINE a == SumFunctionOnSet(h, DOMAIN h \ {Unallocated})
  <2>6. a + h[Unallocated] = T /\ a \in Int /\ h[Unallocated] \in Int
    BY <2>1, <2>3, <2>4, <2>5
  <2>7. a = A /\ h[Unallocated] = U
    BY DEF h
  <2> HIDE DEF a, h
  <2> QED BY <2>6, <2>7
<1>4. C + O - T - D = L - opening - S
  BY <1>1, GapIs
<1>5. C \in Int /\ D \in Int /\ S \in Int /\ opening \in Int /\ drift \in Int
  BY <1>1, CashType, DriftType, AddedThrough DEF TypeInv
<1>6. n \in Nat /\ L \in -n..n
  BY <1>1, LeftsNear
<1>7. opening + S - drift \in -1..1
  BY <1>1 DEF BackedInv, Held
<1>8. O \in Int
  <2> DEFINE f == Outstandings(m)
             I == PlannedTo(m)
  <2>1. IsFiniteSet(I) /\ \A k \in I : f[k] \in Int
    BY <1>1, MonthsParted, OutstandingType DEF Outstandings, PlannedTo
  <2> HIDE DEF f, I
  <2>2. SumFunctionOnSet(f, I) \in Int
    BY <2>1, SumType
  <2> QED BY <2>2 DEF f, I
<1> HIDE DEF C, O, T, D, L, S, n, A, U
<1>9. C + O - A - U - (D - drift) = L - (opening + S - drift)
  BY <1>3, <1>4, <1>5, <1>6, <1>8
<1>10. C + O - A - U - (D - drift) \in -(1 + n)..(1 + n)
  BY <1>5, <1>6, <1>7, <1>9
<1> HIDE DEF c
<1>11. c.cash + c.outstanding - c.assigned - c.unallocated - (D - drift) \in -(1 + n)..(1 + n)
  BY <1>2, <1>10
<1> QED BY <1>11 DEF c, n, D

\* The tables keep their shape, every expectation is worth something and the opening
\* holds, whatever members do: the invariant from which the accounting follows.
THEOREM BackedKept ==
  ASSUME PlansWorth
  PROVE  Spec => []BackedInv
<1>1. Init => BackedInv
  BY BackedInit
<1>2. ASSUME TypeInv, TypeInv', OpenInv, OpenInv', FrozenInv, FrozenInv', BackedInv, [Next]_vars
      PROVE  BackedInv'
  BY <1>2, BackedStep
<1> DEFINE Around == TypeInv /\ OpenInv /\ FrozenInv
<1>3. Around /\ Around' /\ BackedInv /\ [Next]_vars => BackedInv'
  BY <1>2
<1> QED BY <1>1, <1>3, TypesKept, OpenBooksKept, FrozenKeptRight, PTL DEF Spec

\* From the activation on cash and what is still expected back the categories and
\* Unallocated together, to a cent for the opening and one for each expectation not yet
\* complete. An expectation of nothing is excluded: its month has no funding movement,
\* and is then taken for one that is not in the plan.
THEOREM PlanStaysBacked ==
  ASSUME PlansWorth
  PROVE  Spec => []PlanBacked
<1> QED BY BackedKept, BackedEnough, TypesKept, OpenBooksKept, FrozenKeptRight, PTL
====
