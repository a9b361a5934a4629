------------------------- MODULE FinanceLedgerProofs -------------------------
(* Theorems about FinanceLedger, for every value of its constants. *)
EXTENDS FinanceLedger, FiniteSums, SequenceTheorems, WellFoundedInduction, TLAPS

(* Appending to the operation log. *)

\* Appending a receipt adds it to the range of the log and keeps the others.
LEMMA LogAppend ==
  ASSUME NEW s, s \in Seq(Range(s)), NEW x
  PROVE  /\ Append(s, x) \in Seq(Range(Append(s, x)))
         /\ Range(Append(s, x)) = Range(s) \cup {x}
         /\ Len(s) \in Nat /\ DOMAIN s = 1..Len(s)
         /\ DOMAIN Append(s, x) = 1..(Len(s) + 1)
         /\ \A i \in DOMAIN s : Append(s, x)[i] = s[i]
         /\ Append(s, x)[Len(s) + 1] = x
<1> DEFINE S == Range(s) \cup {x}
<1>1. s \in Seq(S)
  BY SMT
<1>2. /\ Append(s, x) \in Seq(S)
      /\ Len(Append(s, x)) = Len(s) + 1
      /\ \A i \in 1..Len(s) : Append(s, x)[i] = s[i]
      /\ Append(s, x)[Len(s) + 1] = x
  BY <1>1, AppendProperties, x \in S
<1>3. Len(s) \in Nat /\ DOMAIN s = 1..Len(s)
  BY <1>1
<1>4. DOMAIN Append(s, x) = 1..(Len(s) + 1)
  BY <1>2, <1>3
<1>5. Range(Append(s, x)) = S
  BY <1>2, <1>3, <1>4 DEF Range
<1> QED
  BY <1>2, <1>3, <1>4, <1>5

----------------------------------------------------------------------------
(* Type correctness. *)

\* What a committed operation does to the log and the reply.
LEMMA CommitLog ==
  ASSUME TypeOK, NEW x, Commit(x)
  PROVE  /\ log' \in Seq(Range(log')) /\ Range(log') = Range(log) \cup {x}
         /\ Logged' = Logged \cup {x.op}
         /\ \A y \in reply' : y.answer \in Range(log')
<1>1. log' = Append(log, x) /\ reply' = {Answer(x.actor, x.request, x)}
  BY DEF Commit
<1>2. log' \in Seq(Range(log')) /\ Range(log') = Range(log) \cup {x}
  BY <1>1, LogAppend DEF TypeOK
<1> QED
  BY <1>1, <1>2 DEF Logged, Answer

\* What was well formed stays so as the calendar and the log grow.
LEMMA FormKept ==
  ASSUME today \in Nat, today' \in Nat, today <= today', Logged \subseteq Logged'
  PROVE  /\ \A e : IsEntry(e) => IsEntry(e)'
         /\ \A r : IsRow(r) => IsRow(r)'
         /\ \A x : IsReceipt(x) => IsReceipt(x)'
         /\ \A b : IsBatch(b) => IsBatch(b)'
<1>1. ASSUME NEW e, IsEntry(e)
      PROVE  IsEntry(e)'
  BY <1>1 DEF IsEntry
<1>2. ASSUME NEW r, IsRow(r)
      PROVE  IsRow(r)'
  BY <1>1, <1>2 DEF IsRow
<1>3. ASSUME NEW x, IsReceipt(x)
      PROVE  IsReceipt(x)'
  BY <1>1, <1>2, <1>3 DEF IsReceipt
<1>4. ASSUME NEW b, IsBatch(b)
      PROVE  IsBatch(b)'
  BY <1>4 DEF IsBatch
<1> QED
  BY <1>1, <1>2, <1>3, <1>4

\* A committed operation whose receipt is well formed keeps the tables it does
\* not write, and the log, well formed.
LEMMA CommitType ==
  ASSUME TypeOK, NEW x, Commit(x), today' = today,
         x.op \in OpIds, x.actor \in Subjects,
         DOMAIN x.accounts \subseteq Accounts, DOMAIN Expected(x.request) \subseteq Accounts,
         \A d \in x.deleted : IsEntry(d.entry) /\ \A r \in d.audit : IsRow(r)
  PROVE  /\ today' \in Months \ {0}
         /\ \A e : IsEntry(e) => IsEntry(e)'
         /\ \A r : IsRow(r) => IsRow(r)'
         /\ \A b : IsBatch(b) => IsBatch(b)'
         /\ Logged' = Logged \cup {x.op}
         /\ log' \in Seq(Range(log')) /\ \A y \in Range(log') : IsReceipt(y)'
         /\ \A y \in reply' : y.answer \in Range(log')
<1>1. today \in Nat
  BY ConstantsAssumption DEF TypeOK, Months
<1>2. /\ log' \in Seq(Range(log')) /\ Range(log') = Range(log) \cup {x}
      /\ Logged' = Logged \cup {x.op}
      /\ \A y \in reply' : y.answer \in Range(log')
  BY CommitLog
<1>3. /\ \A e : IsEntry(e) => IsEntry(e)'
      /\ \A r : IsRow(r) => IsRow(r)'
      /\ \A y : IsReceipt(y) => IsReceipt(y)'
      /\ \A b : IsBatch(b) => IsBatch(b)'
  BY <1>1, <1>2, FormKept
<1>4. IsReceipt(x)
  BY DEF IsReceipt
<1> QED
  BY <1>2, <1>3, <1>4 DEF TypeOK

\* What a create or edit stores is an entry of today or before.
LEMMA EntryPosted ==
  ASSUME NEW w \in Writes, w.month <= today, NEW r \in Nat, today \in Nat
  PROVE  IsEntry(Posted(w, r))
<1>1. /\ w.kind \in EditableKinds /\ w.month \in Months
      /\ w.from \in Accounts \cup {External} /\ w.to \in Accounts \cup {External}
      /\ w.corrects \subseteq TxnIds \cup Imported
  BY DEF Writes
<1> QED
  BY <1>1, ConstantsAssumption DEF IsEntry, Posted, Months, AllTxns

\* No row counts as an entry.
LEMMA AbsentEntry ==
  ASSUME today \in Nat
  PROVE  IsEntry(Absent)
BY DEF IsEntry, Absent

\* Posting deltas keeps a balance and a natural revision per account.
LEMMA PostDeltasType ==
  ASSUME TypeOK, NEW d, PostDeltas(d)
  PROVE  DOMAIN balance' = Accounts /\ ledgerRevision' \in [Accounts -> Nat]
BY DEF TypeOK, PostDeltas

\* A committed operation keeps every table well formed if what it adds is.
LEMMA WriteType ==
  ASSUME TypeOK, NEW x, Commit(x), today' = today,
         x.op \in OpIds, x.actor \in Subjects,
         DOMAIN x.accounts \subseteq Accounts, DOMAIN Expected(x.request) \subseteq Accounts,
         \A d \in x.deleted : IsEntry(d.entry) /\ \A r \in d.audit : IsRow(r),
         DOMAIN txns' = AllTxns, \A t \in AllTxns : \E e : IsEntry(e) /\ txns'[t] = e,
         \A r \in revisions' :
           r \in revisions \/ (r.txn \in AllTxns /\ r.op = x.op /\ IsEntry(r.entry)),
         DOMAIN balance' = Accounts, ledgerRevision' \in [Accounts -> Nat],
         \A b \in batches' :
           b \in batches \/ (b.op = x.op /\ b.month \in 0..today /\ DOMAIN b.items \subseteq Accounts),
         \A c \in corrections' :
           c \in corrections \/ (c.op = x.op /\ c.txn \in AllTxns /\ c.applied = today),
         \A c \in closures' :
           c \in closures \/ (c.op = x.op /\ c.month \in 0..(today - 1))
  PROVE  TypeOK'
<1>1. /\ today' \in Months \ {0}
      /\ \A e : IsEntry(e) => IsEntry(e)'
      /\ \A r : IsRow(r) => IsRow(r)'
      /\ \A b : IsBatch(b) => IsBatch(b)'
      /\ Logged' = Logged \cup {x.op}
      /\ log' \in Seq(Range(log')) /\ \A y \in Range(log') : IsReceipt(y)'
      /\ \A y \in reply' : y.answer \in Range(log')
  BY CommitType
<1>2. (\A t \in AllTxns : IsEntry(txns[t]))'
  BY <1>1
<1>3. (\A r \in revisions : IsRow(r))'
  BY <1>1 DEF TypeOK, IsRow
<1>4. (\A b \in batches : IsBatch(b))'
  BY <1>1 DEF TypeOK, IsBatch
<1>5. /\ \A c \in corrections' : c.op \in Logged' /\ c.txn \in AllTxns /\ c.applied \in 1..today'
      /\ \A c \in closures' : c.op \in Logged' /\ c.month \in 0..(today' - 1)
  BY <1>1, ConstantsAssumption DEF TypeOK, Months
<1> QED
  BY <1>1, <1>2, <1>3, <1>4, <1>5 DEF TypeOK

\* The current month is a canonical one.
LEMMA TodayNat == ASSUME TypeOK PROVE today \in Nat /\ today > 0
BY ConstantsAssumption DEF TypeOK, Months

\* A create keeps the tables well formed.
LEMMA CreateType ==
  ASSUME TypeOK, NEW o \in OpIds, NEW s \in Subjects, NEW t \in TxnIds, NEW w \in Writes,
         Create(o, s, t, w)
  PROVE  TypeOK'
<1> DEFINE new == Posted(w, 1)
           delta == [a \in Accounts |-> Effect(new, a)]
<1>1. PICK x : x = Receipt(o, s, [type |-> "create", txn |-> t, write |-> w],
                           Report(Touched(delta)), {})
  OBVIOUS
<1>2. Commit(x) /\ UNCHANGED <<today, batches, corrections, closures>>
  BY <1>1 DEF Create
<1>3. /\ x.op = o /\ x.actor = s /\ x.deleted = {}
      /\ DOMAIN x.accounts \subseteq Accounts /\ DOMAIN Expected(x.request) \subseteq Accounts
  BY <1>1 DEF Receipt, Report, Touched, Expected
<1>4. IsEntry(new) /\ t \in AllTxns
  BY EntryPosted, TodayNat DEF Create, RequireOpen, AllTxns
<1>5. DOMAIN txns' = AllTxns /\ \A u \in AllTxns : \E e : IsEntry(e) /\ txns'[u] = e
  BY <1>4 DEF Create, TypeOK
<1>6. revisions' = revisions \cup {[txn |-> t, op |-> o, entry |-> new]}
  BY DEF Create
<1>7. DOMAIN balance' = Accounts /\ ledgerRevision' \in [Accounts -> Nat]
  BY PostDeltasType DEF Create
<1> QED
  BY <1>2, <1>3, <1>4, <1>5, <1>6, <1>7, WriteType

\* An edit keeps the tables well formed.
LEMMA EditType ==
  ASSUME TypeOK, NEW o \in OpIds, NEW s \in Subjects, NEW t \in AllTxns, NEW w \in Writes,
         NEW r, NEW e, Edit(o, s, t, w, r, e)
  PROVE  TypeOK'
<1> DEFINE old == txns[t]
           new == Posted(w, old.revision + 1)
           delta == [a \in Accounts |-> Effect(new, a) - Effect(old, a)]
<1>1. PICK x : x = Receipt(o, s, [type |-> "edit", txn |-> t, write |-> w,
                                  revision |-> r, expected |-> e],
                           Report(Touched(delta)), {})
  OBVIOUS
<1>2. Commit(x) /\ UNCHANGED <<today, batches, corrections, closures>>
  BY <1>1 DEF Edit
<1>3. /\ x.op = o /\ x.actor = s /\ x.deleted = {}
      /\ DOMAIN x.accounts \subseteq Accounts /\ DOMAIN Expected(x.request) \subseteq Accounts
  BY <1>1 DEF Edit, Receipt, Report, Touched, Expected, Involved
<1>4. IsEntry(new)
  <2>1. old.revision + 1 \in Nat /\ w.month <= today
    BY DEF Edit, RequireOpen, TypeOK, IsEntry
  <2> QED
    BY <2>1, EntryPosted, TodayNat
<1>5. DOMAIN txns' = AllTxns /\ \A u \in AllTxns : \E f : IsEntry(f) /\ txns'[u] = f
  BY <1>4 DEF Edit, TypeOK
<1>6. revisions' = revisions \cup {[txn |-> t, op |-> o, entry |-> new]}
  BY DEF Edit
<1>7. DOMAIN balance' = Accounts /\ ledgerRevision' \in [Accounts -> Nat]
  BY PostDeltasType DEF Edit
<1> QED
  BY <1>2, <1>3, <1>4, <1>5, <1>6, <1>7, WriteType

\* A deletion keeps the tables well formed.
LEMMA DeleteType ==
  ASSUME TypeOK, NEW o \in OpIds, NEW s \in Subjects, NEW t \in AllTxns,
         NEW r, NEW e, Delete(o, s, t, r, e)
  PROVE  TypeOK'
<1> DEFINE old == txns[t]
           delta == [a \in Accounts |-> -Effect(old, a)]
           gone == [txn |-> t, entry |-> old, audit |-> RowsOf(t)]
<1>1. PICK x : x = Receipt(o, s, [type |-> "delete", txn |-> t, revision |-> r, expected |-> e],
                           Report(Touched(delta)), {gone})
  OBVIOUS
<1>2. Commit(x) /\ UNCHANGED <<today, batches, corrections, closures>>
  BY <1>1 DEF Delete
<1>3. /\ x.op = o /\ x.actor = s /\ x.deleted = {gone}
      /\ DOMAIN x.accounts \subseteq Accounts /\ DOMAIN Expected(x.request) \subseteq Accounts
  BY <1>1 DEF Delete, Receipt, Report, Touched, Expected, Involved
<1>4. IsEntry(gone.entry) /\ \A row \in gone.audit : IsRow(row)
  BY DEF TypeOK, RowsOf
<1>5. DOMAIN txns' = AllTxns /\ \A u \in AllTxns : \E f : IsEntry(f) /\ txns'[u] = f
  BY AbsentEntry, TodayNat DEF Delete, TypeOK
<1>6. revisions' \subseteq revisions
  BY DEF Delete
<1>7. DOMAIN balance' = Accounts /\ ledgerRevision' \in [Accounts -> Nat]
  BY PostDeltasType DEF Delete
<1> QED
  BY <1>2, <1>3, <1>4, <1>5, <1>6, <1>7, WriteType

\* A reconciliation keeps the tables well formed.
LEMMA ReconcileType ==
  ASSUME TypeOK, NEW o \in OpIds, NEW s \in Subjects, NEW m \in Months,
         NEW observed \in BOOLEAN, NEW after, NEW actual, NEW e,
         Reconcile(o, s, m, observed, after, actual, e)
  PROVE  TypeOK'
<1> DEFINE A == DOMAIN actual
           ids == {AdjustmentId(a, m) : a \in A}
           target == [a \in A |-> actual[a] + Total(a, after)]
           closing == [a \in A |-> IF observed THEN actual[a] - Total(a, Later(m) \ after)
                                               ELSE actual[a]]
           change == [a \in A |-> BaseBalance(a, m) - target[a]]
           adjusted == [a \in A |-> Adjusted(a, m, change[a])]
<1> A \subseteq Accounts
  BY DEF Reconcile
<1>1. PICK x : x = Receipt(o, s, [type |-> "reconcile", month |-> m, observed |-> observed,
                                  actual |-> actual, expected |-> e],
                           [a \in A |-> [balance |-> actual[a], revision |-> ledgerRevision'[a]]],
                           {})
  OBVIOUS
<1>2. Commit(x) /\ UNCHANGED <<today, corrections, closures>>
  BY <1>1 DEF Reconcile
<1>3. /\ x.op = o /\ x.actor = s /\ x.deleted = {}
      /\ DOMAIN x.accounts \subseteq Accounts /\ DOMAIN Expected(x.request) \subseteq Accounts
  BY <1>1 DEF Reconcile, Receipt, Expected
<1>4. m \in 0..today
  BY TodayNat, ConstantsAssumption DEF Reconcile, ReconcilablePeriod, Months
<1>5. \A a \in A : AdjustmentId(a, m) \in AllTxns /\ AdjustmentId(a, m)[1] = a
  BY DEF AdjustmentId, AllTxns
<1>6. \A a \in A : IsEntry(adjusted[a])
  BY <1>4, <1>5, TodayNat DEF Adjusted, IsEntry, TypeOK
<1>7. DOMAIN txns' = AllTxns /\ \A t \in AllTxns : \E f : IsEntry(f) /\ txns'[t] = f
  <2>1. txns' = [t \in AllTxns |-> IF t \in ids THEN adjusted[t[1]] ELSE txns[t]]
    BY DEF Reconcile
  <2> QED
    BY <2>1, <1>5, <1>6 DEF TypeOK
<1>8. revisions' = revisions \cup
        {[txn |-> AdjustmentId(a, m), op |-> o, entry |-> adjusted[a]] : a \in A}
  BY DEF Reconcile
<1>9. \A r \in revisions' :
        r \in revisions \/ (r.txn \in AllTxns /\ r.op = x.op /\ IsEntry(r.entry))
  BY <1>3, <1>5, <1>6, <1>8
<1>10. DOMAIN balance' = Accounts /\ ledgerRevision' \in [Accounts -> Nat]
  BY DEF Reconcile, TypeOK
<1>11. \A b \in batches' :
         b \in batches \/ (b.op = x.op /\ b.month \in 0..today /\ DOMAIN b.items \subseteq Accounts)
  BY <1>3, <1>4 DEF Reconcile
<1> QED
  BY <1>2, <1>3, <1>7, <1>9, <1>10, <1>11, WriteType

\* A category correction keeps the tables well formed.
LEMMA CorrectType ==
  ASSUME TypeOK, NEW o \in OpIds, NEW s \in Subjects, NEW t \in AllTxns, Correct(o, s, t)
  PROVE  TypeOK'
<1> DEFINE x == Receipt(o, s, [type |-> "correct", txn |-> t], << >>, {})
<1>1. /\ Commit(x)
      /\ UNCHANGED <<today, txns, revisions, balance, ledgerRevision, batches, closures>>
      /\ corrections' = corrections \cup {[op |-> o, txn |-> t, applied |-> today]}
  BY DEF Correct
<1>2. /\ x.op = o /\ x.actor = s /\ x.deleted = {}
      /\ DOMAIN x.accounts \subseteq Accounts /\ DOMAIN Expected(x.request) \subseteq Accounts
  BY DEF Receipt, Expected
<1> HIDE DEF x
<1> QED
  BY <1>1, <1>2, WriteType DEF TypeOK

\* A close keeps the tables well formed: its month is over.
LEMMA CloseType ==
  ASSUME TypeOK, NEW o \in OpIds, NEW s \in Subjects, NEW m \in Months, Close(o, s, m)
  PROVE  TypeOK'
<1> DEFINE x == Receipt(o, s, [type |-> "close", month |-> m], << >>, {})
<1>1. /\ Commit(x)
      /\ UNCHANGED <<today, txns, revisions, balance, ledgerRevision, batches, corrections>>
      /\ closures' = closures \cup {[month |-> m, op |-> o]}
  BY DEF Close
<1>2. /\ x.op = o /\ x.actor = s /\ x.deleted = {}
      /\ DOMAIN x.accounts \subseteq Accounts /\ DOMAIN Expected(x.request) \subseteq Accounts
  BY DEF Receipt, Expected
<1>3. m \in 0..(today - 1)
  BY TodayNat, ConstantsAssumption DEF Close, Months
<1> HIDE DEF x
<1> QED
  BY <1>1, <1>2, <1>3, WriteType DEF TypeOK

\* A retry changes no table.
LEMMA RetryType ==
  ASSUME TypeOK, NEW o, NEW s, NEW q, Retry(o, s, q)
  PROVE  TypeOK'
<1>1. log[RowId(o)] \in Range(log)
  <2>1. \E i \in DOMAIN log : log[i].op = o
    BY DEF Retry, Logged, Range
  <2> QED
    BY <2>1 DEF RowId, Range
<1>2. reply' = {Answer(s, q, log[RowId(o)])}
  BY DEF Retry
<1>3. UNCHANGED <<today, txns, revisions, balance, ledgerRevision, log, batches,
                  corrections, closures>>
  BY DEF Retry
<1>4. Logged' = Logged /\ Range(log') = Range(log)
  BY <1>3 DEF Logged
<1>5. /\ \A e : IsEntry(e) => IsEntry(e)'
      /\ \A r : IsRow(r) => IsRow(r)'
      /\ \A x : IsReceipt(x) => IsReceipt(x)'
      /\ \A b : IsBatch(b) => IsBatch(b)'
  BY <1>3, <1>4, TodayNat, FormKept
<1> QED
  BY <1>1, <1>2, <1>3, <1>4, <1>5 DEF TypeOK, Answer

\* The calendar moves on and every date stays in the past.
LEMMA NextMonthType ==
  ASSUME TypeOK, NextMonth
  PROVE  TypeOK'
<1>1. today' = today + 1 /\ today' \in Months \ {0} /\ today' \in Nat
  BY TodayNat, ConstantsAssumption DEF NextMonth, Months
<1>2. UNCHANGED <<txns, revisions, balance, ledgerRevision, log, batches,
                  corrections, closures, reply>>
  BY DEF NextMonth
<1>3. Logged' = Logged
  BY <1>2 DEF Logged
<1>4. /\ \A e : IsEntry(e) => IsEntry(e)'
      /\ \A r : IsRow(r) => IsRow(r)'
      /\ \A x : IsReceipt(x) => IsReceipt(x)'
      /\ \A b : IsBatch(b) => IsBatch(b)'
  BY <1>1, <1>3, TodayNat, FormKept
<1>5. /\ \A c \in corrections' : c.op \in Logged' /\ c.txn \in AllTxns /\ c.applied \in 1..today'
      /\ \A c \in closures' : c.op \in Logged' /\ c.month \in 0..(today' - 1)
  BY <1>1, <1>2, <1>3, TodayNat DEF TypeOK
<1> QED
  BY <1>1, <1>2, <1>3, <1>4, <1>5 DEF TypeOK

\* Nothing happens to the tables when nothing happens.
LEMMA StutterType ==
  ASSUME TypeOK, UNCHANGED vars
  PROVE  TypeOK'
BY DEF vars, TypeOK, IsEntry, IsRow, IsReceipt, IsBatch, Logged

\* The imported ledger is well formed.
LEMMA InitType == Init => TypeOK
<1> SUFFICES ASSUME Init PROVE TypeOK
  OBVIOUS
<1>1. today = 1 /\ today \in Months \ {0}
  <2>1. today = 1
    BY DEF Init, FirstMonth
  <2> QED
    BY <2>1, ConstantsAssumption DEF Months
<1>2. DOMAIN txns = AllTxns /\ \A t \in AllTxns : IsEntry(txns[t])
  <2>1. PICK m \in [Imported -> 0..FirstMonth], a \in [Imported -> Accounts] :
          txns = [t \in AllTxns |->
                    IF t \in Imported
                    THEN [Absent EXCEPT !.kind = "expense", !.month = m[t], !.from = a[t],
                                        !.amount = 1, !.revision = 1]
                    ELSE Absent]
    BY DEF Init
  <2>2. \A t \in Imported : m[t] \in 0..1 /\ a[t] \in Accounts
    BY DEF FirstMonth
  <2>3. ASSUME NEW t \in Imported
        PROVE  IsEntry([Absent EXCEPT !.kind = "expense", !.month = m[t], !.from = a[t],
                                      !.amount = 1, !.revision = 1])
    BY <1>1, <2>2 DEF IsEntry, Absent, EditableKinds
  <2>4. IsEntry(Absent)
    BY <1>1, AbsentEntry
  <2> QED
    BY <2>1, <2>3, <2>4
<1>3. DOMAIN balance = Accounts /\ ledgerRevision \in [Accounts -> Nat]
  BY DEF Init
<1>4. log \in Seq(Range(log)) /\ Range(log) = {}
  <2>1. log = << >>
    BY DEF Init
  <2>2. Range(log) = {}
    BY <2>1 DEF Range
  <2> QED
    BY <2>1, <2>2
<1>5. revisions = {} /\ batches = {} /\ corrections = {} /\ closures = {} /\ reply = {}
  BY DEF Init
<1> QED
  BY <1>1, <1>2, <1>3, <1>4, <1>5 DEF TypeOK

\* The tables stay well formed in every behaviour of the server: no entry beyond
\* today, no close of a month still running, no audit row, batch, correction or
\* close without its receipt.
THEOREM TypeCorrect == Spec => []TypeOK
<1>1. Init => TypeOK
  BY InitType
<1>2. TypeOK /\ [Next]_vars => TypeOK'
  <2> SUFFICES ASSUME TypeOK, [Next]_vars PROVE TypeOK'
    OBVIOUS
  <2>1. ASSUME NEW o \in OpIds \ Logged, NEW s \in Subjects, Write(o, s)
        PROVE  TypeOK'
    <3>1. CASE \E t \in TxnIds, w \in Writes : Create(o, s, t, w)
      BY <3>1, CreateType
    <3>2. ASSUME NEW t \in AllTxns, NEW w \in Writes, NEW r, NEW e, Edit(o, s, t, w, r, e)
          PROVE  TypeOK'
      BY <3>2, EditType
    <3>3. ASSUME NEW t \in AllTxns, NEW r, NEW e, Delete(o, s, t, r, e)
          PROVE  TypeOK'
      BY <3>3, DeleteType
    <3>4. ASSUME NEW m \in Months, NEW observed \in BOOLEAN,
                 NEW after, NEW actual, NEW e, Reconcile(o, s, m, observed, after, actual, e)
          PROVE  TypeOK'
      BY <3>4, ReconcileType
    <3>5. CASE \E t \in AllTxns : Correct(o, s, t)
      BY <3>5, CorrectType
    <3>6. CASE \E m \in Months : Close(o, s, m)
      BY <3>6, CloseType
    <3> QED
      BY <2>1, <3>1, <3>2, <3>3, <3>4, <3>5, <3>6 DEF Write
  <2>2. ASSUME NEW o \in Logged, NEW s \in Subjects, NEW i \in DOMAIN log,
               Retry(o, s, log[i].request)
        PROVE  TypeOK'
    BY <2>2, RetryType
  <2>3. CASE NextMonth
    BY <2>3, NextMonthType
  <2>4. CASE UNCHANGED vars
    BY <2>4, StutterType
  <2> QED
    BY <2>1, <2>2, <2>3, <2>4 DEF Next
<1> QED
  BY <1>1, <1>2, PTL DEF Spec

----------------------------------------------------------------------------
(* The ledger implements OperationReceipts. *)

\* A committed operation that was computed from the current revisions of the
\* accounts it names, and moves the revision of every account it moves, is a
\* step Apply of the abstract specification.
LEMMA CommitApplies ==
  ASSUME TypeOK, NEW x, Commit(x), NEW T, DOMAIN x.accounts = T,
         \A a \in DOMAIN Expected(x.request) : Expected(x.request)[a] = ledgerRevision[a],
         ledgerRevision' = [a \in Accounts |-> IF a \in T THEN ledgerRevision[a] + 1
                                                          ELSE ledgerRevision[a]],
         \A a \in T : x.accounts[a].revision = ledgerRevision'[a],
         \A a \in Accounts \ T : balance'[a] = balance[a]
  PROVE  Abstract!Next
<1>1. /\ log' = Append(log, x) /\ reply' = {Answer(x.actor, x.request, x)}
      /\ x.op \notin Logged
  BY DEF Commit
<1>2. log'[Len(log')] = x
  <2>1. Len(log) \in Nat /\ Append(log, x)[Len(log) + 1] = x
    BY LogAppend DEF TypeOK
  <2>2. Len(log') = Len(log) + 1
    BY <1>1 DEF TypeOK
  <2> QED
    BY <1>1, <2>1, <2>2
<1>3. Abstract!BasedOn(x) = Expected(x.request)
  BY DEF Abstract!BasedOn, Expected
<1>4. ledgerRevision' = [a \in Accounts |->
                          ledgerRevision[a] + (IF a \in DOMAIN x.accounts THEN 1 ELSE 0)]
  BY DEF TypeOK
<1>5. reply' = Abstract!AnswerTo(x)
  BY <1>1 DEF Abstract!AnswerTo, Answer
<1>6. Abstract!Apply(x)
  BY <1>1, <1>3, <1>4, <1>5 DEF Abstract!Apply, Logged, Range, Abstract!Range
<1>7. log' # << >>
  BY <1>1 DEF TypeOK
<1> QED
  BY <1>2, <1>6, <1>7 DEF Abstract!Next

\* A create is an abstract Apply: it states no revisions.
LEMMA CreateApplies ==
  ASSUME TypeOK, NEW o, NEW s, NEW t, NEW w, Create(o, s, t, w)
  PROVE  Abstract!Next
<1> DEFINE delta == [a \in Accounts |-> Effect(Posted(w, 1), a)]
           T == Touched(delta)
<1>1. PICK x : x = Receipt(o, s, [type |-> "create", txn |-> t, write |-> w], Report(T), {})
  OBVIOUS
<1>2. Commit(x) /\ PostDeltas(delta)
  BY <1>1 DEF Create
<1>3. /\ DOMAIN x.accounts = T /\ DOMAIN Expected(x.request) = {}
      /\ \A a \in T : x.accounts[a].revision = ledgerRevision'[a]
  BY <1>1 DEF Receipt, Report, Expected
<1>4. /\ ledgerRevision' = [a \in Accounts |-> IF a \in T THEN ledgerRevision[a] + 1
                                                        ELSE ledgerRevision[a]]
      /\ \A a \in Accounts \ T : balance'[a] = balance[a]
  BY <1>2 DEF PostDeltas
<1> HIDE DEF T
<1> QED
  BY <1>2, <1>3, <1>4, CommitApplies

\* An edit is an abstract Apply on the revisions it states.
LEMMA EditApplies ==
  ASSUME TypeOK, NEW o, NEW s, NEW t, NEW w, NEW r, NEW e, Edit(o, s, t, w, r, e)
  PROVE  Abstract!Next
<1> DEFINE delta == [a \in Accounts |-> Effect(Posted(w, txns[t].revision + 1), a)
                                       - Effect(txns[t], a)]
           T == Touched(delta)
<1>1. PICK x : x = Receipt(o, s, [type |-> "edit", txn |-> t, write |-> w,
                                  revision |-> r, expected |-> e], Report(T), {})
  OBVIOUS
<1>2. Commit(x) /\ PostDeltas(delta) /\ AccountsUnchanged(e)
  BY <1>1 DEF Edit
<1>3. /\ DOMAIN x.accounts = T /\ Expected(x.request) = e
      /\ \A a \in T : x.accounts[a].revision = ledgerRevision'[a]
  BY <1>1 DEF Receipt, Report, Expected
<1>4. /\ ledgerRevision' = [a \in Accounts |-> IF a \in T THEN ledgerRevision[a] + 1
                                                        ELSE ledgerRevision[a]]
      /\ \A a \in Accounts \ T : balance'[a] = balance[a]
  BY <1>2 DEF PostDeltas
<1>5. \A a \in DOMAIN e : e[a] = ledgerRevision[a]
  BY <1>2 DEF AccountsUnchanged
<1> HIDE DEF T
<1> QED
  BY <1>2, <1>3, <1>4, <1>5, CommitApplies

\* A deletion is an abstract Apply on the revisions it states.
LEMMA DeleteApplies ==
  ASSUME TypeOK, NEW o, NEW s, NEW t, NEW r, NEW e, Delete(o, s, t, r, e)
  PROVE  Abstract!Next
<1> DEFINE delta == [a \in Accounts |-> -Effect(txns[t], a)]
           T == Touched(delta)
<1>1. PICK x : x = Receipt(o, s, [type |-> "delete", txn |-> t, revision |-> r, expected |-> e],
                           Report(T),
                           {[txn |-> t, entry |-> txns[t], audit |-> RowsOf(t)]})
  OBVIOUS
<1>2. Commit(x) /\ PostDeltas(delta) /\ AccountsUnchanged(e)
  BY <1>1 DEF Delete
<1>3. /\ DOMAIN x.accounts = T /\ Expected(x.request) = e
      /\ \A a \in T : x.accounts[a].revision = ledgerRevision'[a]
  BY <1>1 DEF Receipt, Report, Expected
<1>4. /\ ledgerRevision' = [a \in Accounts |-> IF a \in T THEN ledgerRevision[a] + 1
                                                        ELSE ledgerRevision[a]]
      /\ \A a \in Accounts \ T : balance'[a] = balance[a]
  BY <1>2 DEF PostDeltas
<1>5. \A a \in DOMAIN e : e[a] = ledgerRevision[a]
  BY <1>2 DEF AccountsUnchanged
<1> HIDE DEF T
<1> QED
  BY <1>2, <1>3, <1>4, <1>5, CommitApplies

\* A reconciliation is an abstract Apply on the revisions it states.
LEMMA ReconcileApplies ==
  ASSUME TypeOK, NEW o, NEW s, NEW m, NEW observed, NEW after, NEW actual, NEW e,
         Reconcile(o, s, m, observed, after, actual, e)
  PROVE  Abstract!Next
<1> DEFINE T == DOMAIN actual
<1>1. PICK x : x = Receipt(o, s, [type |-> "reconcile", month |-> m, observed |-> observed,
                                  actual |-> actual, expected |-> e],
                           [a \in T |-> [balance |-> actual[a], revision |-> ledgerRevision'[a]]],
                           {})
  OBVIOUS
<1>2. Commit(x) /\ AccountsUnchanged(e)
  BY <1>1 DEF Reconcile
<1>3. /\ DOMAIN x.accounts = T /\ Expected(x.request) = e
      /\ \A a \in T : x.accounts[a].revision = ledgerRevision'[a]
  BY <1>1 DEF Receipt, Expected
<1>4. /\ ledgerRevision' = [a \in Accounts |-> IF a \in T THEN ledgerRevision[a] + 1
                                                        ELSE ledgerRevision[a]]
      /\ \A a \in Accounts \ T : balance'[a] = balance[a]
  BY DEF Reconcile
<1>5. \A a \in DOMAIN e : e[a] = ledgerRevision[a]
  BY <1>2 DEF AccountsUnchanged
<1> HIDE DEF T
<1> QED
  BY <1>2, <1>3, <1>4, <1>5, CommitApplies

\* Category corrections and closes move no account.
LEMMA QuietApplies ==
  ASSUME TypeOK, NEW x, Commit(x), DOMAIN x.accounts = {}, DOMAIN Expected(x.request) = {},
         UNCHANGED <<balance, ledgerRevision>>
  PROVE  Abstract!Next
<1>1. ledgerRevision' = [a \in Accounts |-> IF a \in {} THEN ledgerRevision[a] + 1
                                                        ELSE ledgerRevision[a]]
  BY DEF TypeOK
<1> QED
  BY <1>1, CommitApplies

\* A category correction is an abstract Apply that names no account.
LEMMA CorrectApplies ==
  ASSUME TypeOK, NEW o, NEW s, NEW t, Correct(o, s, t)
  PROVE  Abstract!Next
<1> DEFINE x == Receipt(o, s, [type |-> "correct", txn |-> t], << >>, {})
<1>1. Commit(x) /\ UNCHANGED <<balance, ledgerRevision>>
  BY DEF Correct
<1>2. DOMAIN x.accounts = {} /\ DOMAIN Expected(x.request) = {}
  BY DEF Receipt, Expected
<1> HIDE DEF x
<1> QED
  BY <1>1, <1>2, QuietApplies

\* A close is an abstract Apply that names no account.
LEMMA CloseApplies ==
  ASSUME TypeOK, NEW o, NEW s, NEW m, Close(o, s, m)
  PROVE  Abstract!Next
<1> DEFINE x == Receipt(o, s, [type |-> "close", month |-> m], << >>, {})
<1>1. Commit(x) /\ UNCHANGED <<balance, ledgerRevision>>
  BY DEF Close
<1>2. DOMAIN x.accounts = {} /\ DOMAIN Expected(x.request) = {}
  BY DEF Receipt, Expected
<1> HIDE DEF x
<1> QED
  BY <1>1, <1>2, QuietApplies

\* A retry is an abstract Replay: the stored receipt is that of the request.
LEMMA RetryReplays ==
  ASSUME TypeOK, NEW o, NEW s, NEW q, Retry(o, s, q)
  PROVE  Abstract!Next
<1> DEFINE stored == log[RowId(o)]
<1>1. stored \in Range(log)
  <2>1. \E i \in DOMAIN log : log[i].op = o
    BY DEF Retry, Logged, Range
  <2> QED
    BY <2>1 DEF RowId, Range
<1>2. stored.actor = s /\ stored.request = q
  BY DEF Retry, SameRequest
<1>3. /\ reply' = {Answer(s, q, stored)}
      /\ UNCHANGED <<balance, ledgerRevision, log>>
  BY DEF Retry
<1> HIDE DEF stored
<1>4. Abstract!Replay(stored)
  BY <1>2, <1>3 DEF Abstract!Replay, Abstract!AnswerTo, Answer
<1> QED
  BY <1>1, <1>4 DEF Abstract!Next, Abstract!Range, Range

\* For any household, accounts and calendar: an operation id takes effect at most
\* once, on exactly the account revisions it was computed from; a balance never
\* moves without its ledger revision; every response is the receipt of that
\* member's very request.
THEOREM LedgerImplementsReceipts == Spec => ImplementsReceipts
<1>1. Init => Abstract!Init
  BY DEF Init, Abstract!Init
<1>2. TypeOK /\ [Next]_vars => [Abstract!Next]_(Abstract!vars)
  <2> SUFFICES ASSUME TypeOK, [Next]_vars PROVE [Abstract!Next]_(Abstract!vars)
    OBVIOUS
  <2>1. ASSUME NEW o \in OpIds \ Logged, NEW s \in Subjects, Write(o, s)
        PROVE  Abstract!Next
    <3>1. CASE \E t \in TxnIds, w \in Writes : Create(o, s, t, w)
      BY <3>1, CreateApplies
    <3>2. ASSUME NEW t \in AllTxns, NEW w \in Writes, NEW r, NEW e, Edit(o, s, t, w, r, e)
          PROVE  Abstract!Next
      BY <3>2, EditApplies
    <3>3. ASSUME NEW t \in AllTxns, NEW r, NEW e, Delete(o, s, t, r, e)
          PROVE  Abstract!Next
      BY <3>3, DeleteApplies
    <3>4. ASSUME NEW m \in Months, NEW observed \in BOOLEAN,
                 NEW after, NEW actual, NEW e, Reconcile(o, s, m, observed, after, actual, e)
          PROVE  Abstract!Next
      BY <3>4, ReconcileApplies
    <3>5. CASE \E t \in AllTxns : Correct(o, s, t)
      BY <3>5, CorrectApplies
    <3>6. CASE \E m \in Months : Close(o, s, m)
      BY <3>6, CloseApplies
    <3> QED
      BY <2>1, <3>1, <3>2, <3>3, <3>4, <3>5, <3>6 DEF Write
  <2>2. ASSUME NEW o \in Logged, NEW s \in Subjects, NEW i \in DOMAIN log,
               Retry(o, s, log[i].request)
        PROVE  Abstract!Next
    BY <2>2, RetryReplays
  <2>3. ASSUME NextMonth \/ UNCHANGED vars
        PROVE  UNCHANGED Abstract!vars
    BY <2>3 DEF NextMonth, vars, Abstract!vars
  <2> QED
    BY <2>1, <2>2, <2>3 DEF Next
<1> QED
  BY <1>1, <1>2, TypeCorrect, PTL DEF Spec, ImplementsReceipts, Abstract!Spec

----------------------------------------------------------------------------
(* No lost update. *)

\* The revision an operation reported is one the account has reached.
RevisionsReached ==
  \A i \in DOMAIN log : \A a \in DOMAIN log[i].accounts :
    a \in Accounts /\ log[i].accounts[a].revision \in 0..ledgerRevision[a]

\* Both follow from a step of the abstract specification alone.
LEMMA NoLostUpdateStep ==
  ASSUME TypeOK, TypeOK', RevisionsReached, NoLostUpdate, [Abstract!Next]_(Abstract!vars)
  PROVE  RevisionsReached' /\ NoLostUpdate'
<1>1. ASSUME NEW y, Abstract!Apply(y)
      PROVE  RevisionsReached' /\ NoLostUpdate'
  <2> DEFINE n == Len(log)
  <2>1. /\ n \in Nat /\ DOMAIN log = 1..n /\ DOMAIN log' = 1..(n + 1)
        /\ \A i \in 1..n : log'[i] = log[i]
        /\ log'[n + 1] = y /\ y \in Range(log')
    BY <1>1, LogAppend DEF TypeOK, Abstract!Apply
  <2>2. \A a \in Accounts : /\ ledgerRevision[a] \in Nat /\ ledgerRevision'[a] \in Nat
                            /\ ledgerRevision[a] <= ledgerRevision'[a]
    BY <1>1 DEF TypeOK, Abstract!Apply
  <2>3. DOMAIN y.accounts \subseteq Accounts /\ DOMAIN Expected(y.request) \subseteq Accounts
    BY <2>1 DEF TypeOK, IsReceipt
  <2>4. \A a \in DOMAIN y.accounts : y.accounts[a].revision = ledgerRevision'[a]
    BY <1>1 DEF Abstract!Apply
  <2>5. \A a \in DOMAIN Expected(y.request) : Expected(y.request)[a] = ledgerRevision[a]
    BY <1>1 DEF Abstract!Apply, Abstract!BasedOn, Expected
  <2> HIDE DEF n
  <2>6. RevisionsReached'
    BY <2>1, <2>2, <2>3, <2>4 DEF RevisionsReached
  <2>7. NoLostUpdate'
    <3> SUFFICES ASSUME NEW i \in 1..(n + 1), NEW j \in 1..(n + 1), i < j,
                        NEW a \in DOMAIN log'[i].accounts \cap DOMAIN Expected(log'[j].request)
                 PROVE  Expected(log'[j].request)[a] >= log'[i].accounts[a].revision
      BY <2>1 DEF NoLostUpdate, Expected
    <3>1. i \in 1..n /\ log'[i] = log[i]
      BY <2>1
    <3>2. CASE j \in 1..n
      BY <2>1, <3>1, <3>2 DEF NoLostUpdate
    <3>3. CASE j = n + 1
      BY <2>1, <2>2, <2>5, <3>1, <3>3 DEF RevisionsReached
    <3> QED
      BY <2>1, <3>2, <3>3
  <2> QED
    BY <2>6, <2>7
<1>2. ASSUME UNCHANGED <<ledgerRevision, log>>
      PROVE  RevisionsReached' /\ NoLostUpdate'
  BY <1>2 DEF RevisionsReached, NoLostUpdate, Expected
<1> QED
  BY <1>1, <1>2 DEF Abstract!Next, Abstract!Replay, Abstract!vars

\* No operation that states the revisions it saw is accepted over the effect of an
\* operation it did not see, however many members edit at once.
THEOREM LostUpdatesRefused == Spec => []NoLostUpdate
<1>1. Init => RevisionsReached /\ NoLostUpdate
  <2>1. Init => log = << >>
    BY DEF Init
  <2> QED
    BY <2>1 DEF RevisionsReached, NoLostUpdate
<1>2. /\ TypeOK /\ TypeOK' /\ RevisionsReached /\ NoLostUpdate
      /\ [Abstract!Next]_(Abstract!vars)
      => RevisionsReached' /\ NoLostUpdate'
  BY NoLostUpdateStep
<1> QED
  BY <1>1, <1>2, TypeCorrect, LedgerImplementsReceipts, PTL
     DEF Spec, ImplementsReceipts, Abstract!Spec

----------------------------------------------------------------------------
(* Closed months. *)

\* An adjustment lies in the month its account and date say.
AdjustmentsInPlace ==
  \A a \in Accounts, m \in Months :
    Present(AdjustmentId(a, m)) => txns[AdjustmentId(a, m)].month = m

\* What any step may do to the entry t: it and its replacement lie outside the
\* closed months, in a historical month it may at most be replaced in place, and
\* what the replacement corrects is frozen.
Respects(t) ==
  \/ txns'[t] = txns[t]
  \/ /\ closures' = closures
     /\ Present(t) => ~Closed(txns[t].month)
     /\ txns'[t].kind # "absent" => ~Closed(txns'[t].month)
     /\ Present(t) /\ txns[t].month < FirstMonth
          => txns'[t].kind # "absent" /\ txns'[t].month = txns[t].month
     /\ \A x \in txns'[t].corrects :
          x \in AllTxns /\ Present(x) /\ Frozen(txns[x].month)

RespectsAll ==
  /\ closures \subseteq closures' /\ AdjustmentsInPlace'
  /\ \A t \in AllTxns : Respects(t)
  /\ \A c \in corrections' :
       c \in corrections \/ (c.txn \in AllTxns /\ Present(c.txn) /\ Frozen(txns[c.txn].month))

\* An id a client may write is no adjustment's.
LEMMA ClientIds ==
  ASSUME NEW a \in Accounts, NEW m \in Months
  PROVE  AdjustmentId(a, m) \in AllTxns /\ AdjustmentId(a, m) \notin TxnIds \cup Imported
<1>1. AdjustmentId(a, m) \in Accounts \X Months /\ AdjustmentId(a, m) \in Accounts \X Nat
  BY ConstantsAssumption DEF AdjustmentId, Months
<1> QED
  BY <1>1, ConstantsAssumption DEF AllTxns

\* What an allowed correction names is an entry of a frozen month.
LEMMA CorrectsFrozen ==
  ASSUME NEW t, NEW w \in Writes, CorrectionAllowed(t, w)
  PROVE  \A x \in w.corrects : x \in AllTxns /\ Present(x) /\ Frozen(txns[x].month)
<1>1. w.corrects \subseteq TxnIds \cup Imported
  BY DEF Writes
<1> QED
  BY <1>1 DEF CorrectionAllowed, AllTxns

\* A create stays out of the closed months.
LEMMA CreateRespects ==
  ASSUME TypeOK, AdjustmentsInPlace, NEW o, NEW s, NEW t \in TxnIds, NEW w \in Writes,
         Create(o, s, t, w)
  PROVE  RespectsAll
<1>1. /\ txns' = [txns EXCEPT ![t] = Posted(w, 1)]
      /\ ~Present(t) /\ RequireOpen(w.month) /\ CorrectionAllowed(t, w)
      /\ closures' = closures /\ corrections' = corrections
  BY DEF Create
<1>2. DOMAIN txns = AllTxns /\ t \in AllTxns
  BY DEF TypeOK, AllTxns
<1>3. Respects(t)
  BY <1>1, <1>2, CorrectsFrozen DEF Respects, RequireOpen, Posted
<1>4. \A u \in AllTxns \ {t} : txns'[u] = txns[u]
  BY <1>1, <1>2
<1>5. AdjustmentsInPlace'
  BY <1>4, ClientIds DEF AdjustmentsInPlace, Present
<1> QED
  BY <1>1, <1>3, <1>4, <1>5 DEF RespectsAll, Respects

\* An edit stays out of the closed months.
LEMMA EditRespects ==
  ASSUME TypeOK, AdjustmentsInPlace, NEW o, NEW s, NEW t \in AllTxns, NEW w \in Writes,
         NEW r, NEW e, Edit(o, s, t, w, r, e)
  PROVE  RespectsAll
<1>1. /\ txns' = [txns EXCEPT ![t] = Posted(w, txns[t].revision + 1)]
      /\ w.month = txns[t].month /\ RequireOpen(w.month) /\ CorrectionAllowed(t, w)
      /\ closures' = closures /\ corrections' = corrections /\ Present(t)
  BY DEF Edit
<1>2. DOMAIN txns = AllTxns /\ txns[t].month \in Nat
  BY TodayNat DEF TypeOK, IsEntry
<1>3. Respects(t)
  BY <1>1, <1>2, CorrectsFrozen DEF Respects, RequireOpen, Posted, FirstMonth
<1>4. \A u \in AllTxns \ {t} : txns'[u] = txns[u]
  BY <1>1, <1>2
<1>5. AdjustmentsInPlace'
  <2> SUFFICES ASSUME NEW a \in Accounts, NEW m \in Months, Present(AdjustmentId(a, m))'
               PROVE  txns'[AdjustmentId(a, m)].month = m
    BY DEF AdjustmentsInPlace, AdjustmentId
  <2>1. CASE AdjustmentId(a, m) = t
    BY <1>1, <1>2, <2>1 DEF AdjustmentsInPlace, Posted
  <2>2. CASE AdjustmentId(a, m) # t
    BY <1>4, <2>2, ClientIds DEF AdjustmentsInPlace, Present, AdjustmentId
  <2> QED
    BY <2>1, <2>2
<1> QED
  BY <1>1, <1>3, <1>4, <1>5 DEF RespectsAll, Respects

\* A deletion stays out of the closed months, and of the corrected entries.
LEMMA DeleteRespects ==
  ASSUME TypeOK, AdjustmentsInPlace, NEW o, NEW s, NEW t \in AllTxns,
         NEW r, NEW e, Delete(o, s, t, r, e)
  PROVE  RespectsAll
<1>1. /\ txns' = [txns EXCEPT ![t] = Absent]
      /\ RequireOpen(txns[t].month)
      /\ closures' = closures /\ corrections' = corrections
  BY DEF Delete
<1>2. DOMAIN txns = AllTxns /\ txns[t].month \in Nat
  BY TodayNat DEF TypeOK, IsEntry
<1>3. Respects(t)
  BY <1>1, <1>2 DEF Respects, RequireOpen, Absent, FirstMonth
<1>4. \A u \in AllTxns \ {t} : txns'[u] = txns[u]
  BY <1>1, <1>2
<1>5. AdjustmentsInPlace'
  <2> SUFFICES ASSUME NEW a \in Accounts, NEW m \in Months, Present(AdjustmentId(a, m))'
               PROVE  txns'[AdjustmentId(a, m)].month = m
    BY DEF AdjustmentsInPlace, AdjustmentId
  <2>1. AdjustmentId(a, m) # t
    BY <1>1, <1>2 DEF Present, Absent, AdjustmentId
  <2> QED
    BY <1>4, <2>1, ClientIds DEF AdjustmentsInPlace, Present, AdjustmentId
<1> QED
  BY <1>1, <1>3, <1>4, <1>5 DEF RespectsAll, Respects

\* A reconciliation stays out of the closed months and replaces adjustments in place.
LEMMA ReconcileRespects ==
  ASSUME TypeOK, AdjustmentsInPlace, NEW o, NEW s, NEW m \in Months,
         NEW observed, NEW after, NEW actual, NEW e,
         Reconcile(o, s, m, observed, after, actual, e)
  PROVE  RespectsAll
<1> DEFINE A == DOMAIN actual
           ids == {AdjustmentId(a, m) : a \in A}
           change == [a \in A |-> BaseBalance(a, m) - (actual[a] + Total(a, after))]
<1>1. /\ A \subseteq Accounts /\ ~Closed(m)
      /\ closures' = closures /\ corrections' = corrections
  BY DEF Reconcile, ReconcilablePeriod
<1>2. \A t \in AllTxns \ ids : txns'[t] = txns[t]
  BY DEF Reconcile
<1>3. ASSUME NEW a \in A
      PROVE  /\ AdjustmentId(a, m) \in AllTxns
             /\ txns'[AdjustmentId(a, m)].kind = "reconciliation"
             /\ txns'[AdjustmentId(a, m)].month = m
             /\ txns'[AdjustmentId(a, m)].corrects = {}
  <2>1. AdjustmentId(a, m) \in AllTxns /\ AdjustmentId(a, m)[1] = a
    BY <1>1, ClientIds DEF AdjustmentId
  <2>2. \E amount : txns'[AdjustmentId(a, m)] = Adjusted(a, m, amount)
    BY <2>1 DEF Reconcile
  <2> QED
    BY <2>1, <2>2 DEF Adjusted
<1>4. \A a \in A : Respects(AdjustmentId(a, m))
  BY <1>1, <1>3 DEF Respects, AdjustmentsInPlace
<1>5. AdjustmentsInPlace'
  <2> SUFFICES ASSUME NEW a \in Accounts, NEW k \in Months, Present(AdjustmentId(a, k))'
               PROVE  txns'[AdjustmentId(a, k)].month = k
    BY DEF AdjustmentsInPlace, AdjustmentId
  <2>1. CASE AdjustmentId(a, k) \in ids
    <3>1. a \in A /\ k = m
      BY <2>1 DEF AdjustmentId
    <3> QED
      BY <1>3, <3>1
  <2>2. CASE AdjustmentId(a, k) \notin ids
    BY <1>2, <2>2, ClientIds DEF AdjustmentsInPlace, Present, AdjustmentId
  <2> QED
    BY <2>1, <2>2
<1> QED
  BY <1>1, <1>2, <1>4, <1>5 DEF RespectsAll, Respects

\* No step touches a closed month.
LEMMA NextRespects ==
  ASSUME TypeOK, AdjustmentsInPlace, [Next]_vars
  PROVE  RespectsAll
<1>1. ASSUME txns' = txns, closures \subseteq closures', corrections' = corrections
      PROVE  RespectsAll
  BY <1>1 DEF RespectsAll, Respects, AdjustmentsInPlace, Present, AdjustmentId
<1>2. ASSUME NEW o \in OpIds \ Logged, NEW s \in Subjects, Write(o, s)
      PROVE  RespectsAll
  <2>1. CASE \E t \in TxnIds, w \in Writes : Create(o, s, t, w)
    BY <2>1, CreateRespects
  <2>2. ASSUME NEW t \in AllTxns, NEW w \in Writes, NEW r, NEW e, Edit(o, s, t, w, r, e)
        PROVE  RespectsAll
    BY <2>2, EditRespects
  <2>3. ASSUME NEW t \in AllTxns, NEW r, NEW e, Delete(o, s, t, r, e)
        PROVE  RespectsAll
    BY <2>3, DeleteRespects
  <2>4. ASSUME NEW m \in Months, NEW observed \in BOOLEAN,
               NEW after, NEW actual, NEW e, Reconcile(o, s, m, observed, after, actual, e)
        PROVE  RespectsAll
    BY <2>4, ReconcileRespects
  <2>5. CASE \E t \in AllTxns : Correct(o, s, t)
    <3>1. AdjustmentsInPlace'
      BY <2>5 DEF Correct, AdjustmentsInPlace, Present, AdjustmentId
    <3> QED
      BY <2>5, <3>1 DEF Correct, RespectsAll, Respects
  <2>6. CASE \E m \in Months : Close(o, s, m)
    BY <1>1, <2>6 DEF Close
  <2> QED
    BY <1>2, <2>1, <2>2, <2>3, <2>4, <2>5, <2>6 DEF Write
<1>3. CASE \E o \in Logged, s \in Subjects : \E i \in DOMAIN log : Retry(o, s, log[i].request)
  BY <1>1, <1>3 DEF Retry
<1>4. CASE NextMonth \/ UNCHANGED vars
  BY <1>1, <1>4 DEF NextMonth, vars
<1> QED
  BY <1>2, <1>3, <1>4 DEF Next

\* There is no adjustment at first.
LEMMA InitAdjustments == Init => AdjustmentsInPlace
<1> SUFFICES ASSUME Init, NEW a \in Accounts, NEW m \in Months
             PROVE  ~Present(AdjustmentId(a, m))
  BY DEF AdjustmentsInPlace
<1>1. AdjustmentId(a, m) \in AllTxns /\ AdjustmentId(a, m) \notin Imported
  BY ClientIds
<1>2. \A t \in AllTxns \ Imported : txns[t] = Absent
  BY DEF Init
<1> QED
  BY <1>1, <1>2 DEF Present, Absent

\* An adjustment row is always dated at the month end its batch closed, whichever
\* batch replaced it last.
THEOREM AdjustmentsStay == Spec => []AdjustmentsInPlace
<1>1. Init => AdjustmentsInPlace
  BY InitAdjustments
<1>2. TypeOK /\ AdjustmentsInPlace /\ [Next]_vars => AdjustmentsInPlace'
  BY NextRespects DEF RespectsAll
<1> QED
  BY <1>1, <1>2, TypeCorrect, PTL DEF Spec

\* Nothing a member sends, an edit, a deletion, a reconciliation or a late create,
\* ever changes a month once it is closed.
THEOREM ClosedMonthsFrozen == Spec => ClosedMonthFrozen
<1> DEFINE Step == /\ closures \subseteq closures'
                   /\ \A t \in AllTxns :
                        \/ Present(t) /\ Closed(txns[t].month)
                        \/ txns'[t].kind # "absent" /\ Closed(txns'[t].month)
                        => txns'[t] = txns[t]
<1>1. TypeOK /\ AdjustmentsInPlace /\ [Next]_vars => Step
  <2> SUFFICES ASSUME TypeOK, AdjustmentsInPlace, [Next]_vars PROVE Step
    OBVIOUS
  <2>1. RespectsAll
    BY NextRespects
  <2> QED
    BY <2>1 DEF RespectsAll, Respects, Present
<1> QED
  BY <1>1, TypeCorrect, AdjustmentsStay, PTL DEF Spec, ClosedMonthFrozen

\* A correction never loses the entry it corrects, and that entry's month is never
\* open again.
THEOREM CorrectionsKeepTheirEntry == Spec => []CorrectionsReferToFrozenMonths
<1>1. Init => CorrectionsReferToFrozenMonths
  <2> SUFFICES ASSUME Init PROVE CorrectionsReferToFrozenMonths
    OBVIOUS
  <2>1. corrections = {}
    BY DEF Init
  <2>2. \A t \in AllTxns : txns[t].corrects = {}
    <3>1. PICK m \in [Imported -> 0..FirstMonth], a \in [Imported -> Accounts] :
            txns = [t \in AllTxns |->
                      IF t \in Imported
                      THEN [Absent EXCEPT !.kind = "expense", !.month = m[t], !.from = a[t],
                                          !.amount = 1, !.revision = 1]
                      ELSE Absent]
      BY DEF Init
    <3> QED
      BY <3>1 DEF Absent
  <2> QED
    BY <2>1, <2>2 DEF CorrectionsReferToFrozenMonths
<1>2. TypeOK /\ AdjustmentsInPlace /\ CorrectionsReferToFrozenMonths /\ [Next]_vars
      => CorrectionsReferToFrozenMonths'
  <2> SUFFICES ASSUME TypeOK, AdjustmentsInPlace, CorrectionsReferToFrozenMonths, [Next]_vars
               PROVE  CorrectionsReferToFrozenMonths'
    OBVIOUS
  <2>1. RespectsAll
    BY NextRespects
  <2>2. ASSUME NEW x \in AllTxns, Present(x), Frozen(txns[x].month)
        PROVE  Present(x)' /\ Frozen(txns[x].month)'
    BY <2>1, <2>2 DEF RespectsAll, Respects, Present, Frozen, Closed
  <2>3. \A c \in corrections' : Present(c.txn)' /\ Frozen(txns[c.txn].month)'
    BY <2>1, <2>2 DEF RespectsAll, CorrectionsReferToFrozenMonths, TypeOK
  <2>4. ASSUME NEW t \in AllTxns, NEW x \in txns'[t].corrects
        PROVE  Present(x)' /\ Frozen(txns[x].month)'
    <3>1. x \in AllTxns /\ Present(x) /\ Frozen(txns[x].month)
      BY <2>1 DEF RespectsAll, Respects, CorrectionsReferToFrozenMonths, TypeOK, IsEntry
    <3> QED
      BY <2>2, <3>1
  <2> QED
    BY <2>3, <2>4 DEF CorrectionsReferToFrozenMonths
<1> QED
  BY <1>1, <1>2, TypeCorrect, AdjustmentsStay, PTL DEF Spec

\* Closing the month after the closed ones keeps them an initial segment.
LEMMA CloseKeepsOrder ==
  ASSUME TypeOK, ClosedInOrder, NEW o, NEW s, NEW m \in Months, Close(o, s, m)
  PROVE  ClosedInOrder'
<1> DEFINE new == [month |-> m, op |-> o]
<1>1. /\ closures' = closures \cup {new} /\ o \notin Logged
      /\ ~Closed(m) /\ EarlierMonthsClosed(m)
  BY DEF Close, Commit, Receipt
<1>2. m \in Nat /\ \A c \in closures : c.month \in Nat /\ c.op \in Logged
  BY TodayNat, ConstantsAssumption DEF TypeOK, Months
<1>3. Closed(m)' /\ \A k : Closed(k) => Closed(k)'
  <2>1. new \in closures' /\ new.month = m /\ closures \subseteq closures'
    BY <1>1
  <2> HIDE DEF new
  <2> QED
    BY <2>1 DEF Closed
<1>4. \A c \in closures' : FirstMonth <= c.month /\ \A k \in FirstMonth..c.month : Closed(k)'
  <2>1. FirstMonth <= m /\ \A k \in FirstMonth..m : Closed(k)'
    BY <1>1, <1>2, <1>3 DEF EarlierMonthsClosed, FirstMonth
  <2> QED
    BY <1>1, <1>3, <2>1 DEF ClosedInOrder
<1>5. ASSUME NEW c \in closures', NEW d \in closures', c.month = d.month \/ c.op = d.op
      PROVE  c = d
  BY <1>1, <1>2, <1>5 DEF ClosedInOrder, Closed
<1> QED
  BY <1>4, <1>5 DEF ClosedInOrder

\* Months close one after the other from the first canonical month, each once and
\* by an operation of its own.
THEOREM MonthsCloseInOrder == Spec => []ClosedInOrder
<1>1. Init => ClosedInOrder
  BY DEF Init, ClosedInOrder
<1>2. TypeOK /\ ClosedInOrder /\ [Next]_vars => ClosedInOrder'
  <2> SUFFICES ASSUME TypeOK, ClosedInOrder, [Next]_vars PROVE ClosedInOrder'
    OBVIOUS
  <2>1. ASSUME closures' = closures PROVE ClosedInOrder'
    BY <2>1 DEF ClosedInOrder, Closed
  <2>2. ASSUME NEW o \in OpIds \ Logged, NEW s \in Subjects, Write(o, s)
        PROVE  ClosedInOrder'
    <3>1. CASE \E m \in Months : Close(o, s, m)
      BY <3>1, CloseKeepsOrder
    <3>2. CASE \E t, w : Create(o, s, t, w)
      BY <2>1, <3>2 DEF Create
    <3>3. CASE \E t, w, r, e : Edit(o, s, t, w, r, e)
      BY <2>1, <3>3 DEF Edit
    <3>4. CASE \E t, r, e : Delete(o, s, t, r, e)
      BY <2>1, <3>4 DEF Delete
    <3>5. CASE \E m, observed, after, actual, e :
                 Reconcile(o, s, m, observed, after, actual, e)
      BY <2>1, <3>5 DEF Reconcile
    <3>6. CASE \E t : Correct(o, s, t)
      BY <2>1, <3>6 DEF Correct
    <3> QED
      BY <2>2, <3>1, <3>2, <3>3, <3>4, <3>5, <3>6 DEF Write
  <2>3. CASE \E o \in Logged, s \in Subjects : \E i \in DOMAIN log : Retry(o, s, log[i].request)
    BY <2>1, <2>3 DEF Retry
  <2>4. CASE NextMonth \/ UNCHANGED vars
    BY <2>1, <2>4 DEF NextMonth, vars
  <2> QED
    BY <2>2, <2>3, <2>4 DEF Next
<1> QED
  BY <1>1, <1>2, TypeCorrect, PTL DEF Spec

----------------------------------------------------------------------------
(* The audit of revisions. *)

\* An id without a row has no revision.
AbsentRows == \A t \in AllTxns : ~Present(t) => txns[t].revision = 0

AuditInv == RevisionAudit /\ AbsentRows

\* One more audit row, of the new revision, keeps the numbering gapless.
LEMMA AuditGrows ==
  ASSUME NEW rows, NEW old, old.revision \in Nat, AuditOf(rows, old),
         NEW row, row.entry.revision = old.revision + 1
  PROVE  AuditOf(rows \cup {row}, row.entry)
<1>1. {r.entry.revision : r \in rows} = 1..old.revision
  BY DEF AuditOf
<1>2. \A r \in rows : r.entry.revision \in 1..old.revision
  BY <1>1
<1>3. {r.entry.revision : r \in rows \cup {row}} = 1..row.entry.revision
  <2>1. {r.entry.revision : r \in rows \cup {row}}
          = {r.entry.revision : r \in rows} \cup {row.entry.revision}
    OBVIOUS
  <2> QED
    BY <1>1, <2>1
<1> QED
  BY <1>2, <1>3 DEF AuditOf

\* No row, no audit.
LEMMA AuditOfNothing == AuditOf({}, Absent)
BY DEF AuditOf, Absent

\* The operation that wrote a row stays in the log.
LEMMA WrittenKept ==
  ASSUME TypeOK, NEW x, Commit(x), NEW r, WrittenBy(r)
  PROVE  WrittenBy(r)'
<1>1. log' = Append(log, x)
  BY DEF Commit
<1>2. \A i \in DOMAIN log : i \in DOMAIN log' /\ log'[i] = log[i]
  BY <1>1, LogAppend DEF TypeOK
<1> QED
  BY <1>2 DEF WrittenBy

\* The audit row a committed operation writes names that operation.
LEMMA WrittenNow ==
  ASSUME TypeOK, NEW x, Commit(x), NEW r, x.op = r.op,
         \/ x.request.type = "create" /\ x.request.txn = r.txn /\ r.entry.revision = 1
         \/ x.request.type = "edit" /\ x.request.txn = r.txn
              /\ x.request.revision + 1 = r.entry.revision
         \/ x.request.type = "reconcile" /\ x.request.month = r.entry.month
              /\ r.entry.from \in DOMAIN x.request.actual
  PROVE  WrittenBy(r)'
<1>1. log' = Append(log, x)
  BY DEF Commit
<1>2. Len(log) + 1 \in DOMAIN log' /\ log'[Len(log) + 1] = x
  BY <1>1, LogAppend DEF TypeOK
<1> QED
  BY <1>2 DEF WrittenBy

\* The complete audits kept by deletions stay in the log.
LEMMA DeletedKept ==
  ASSUME TypeOK, RevisionAudit, NEW x, Commit(x),
         \A d \in x.deleted : AuditOf(d.audit, d.entry)
  PROVE  \A i \in DOMAIN log' : \A d \in log'[i].deleted : AuditOf(d.audit, d.entry)
<1>1. log' = Append(log, x)
  BY DEF Commit
<1>2. /\ DOMAIN log' = 1..(Len(log) + 1) /\ DOMAIN log = 1..Len(log) /\ Len(log) \in Nat
      /\ \A i \in DOMAIN log : log'[i] = log[i]
      /\ log'[Len(log) + 1] = x
  BY <1>1, LogAppend DEF TypeOK
<1> QED
  BY <1>2 DEF RevisionAudit

\* An operation that adds, for each entry it replaces, the row of the replacement.
LEMMA AuditWritten ==
  ASSUME TypeOK, RevisionAudit, NEW x, Commit(x), x.deleted = {}, NEW N,
         revisions' = revisions \cup N,
         \A r \in N : /\ r.txn \in AllTxns \ Imported /\ WrittenBy(r)'
                     /\ r.entry = txns'[r.txn]
                     /\ r.entry.revision = txns[r.txn].revision + 1,
         \A r, q \in N : r.txn = q.txn => r = q,
         \A t \in AllTxns : (\A r \in N : r.txn # t) => txns'[t] = txns[t]
  PROVE  RevisionAudit'
<1>1. ASSUME NEW t \in AllTxns \ Imported
      PROVE  AuditOf(RowsOf(t)', txns'[t])
  <2>1. AuditOf(RowsOf(t), txns[t]) /\ txns[t].revision \in Nat
    BY DEF RevisionAudit, TypeOK, IsEntry
  <2>2. CASE \A r \in N : r.txn # t
    <3>1. RowsOf(t)' = RowsOf(t)
      BY <2>2 DEF RowsOf
    <3> QED
      BY <2>1, <2>2, <3>1
  <2>3. ASSUME NEW r \in N, r.txn = t
        PROVE  AuditOf(RowsOf(t)', txns'[t])
    <3>1. RowsOf(t)' = RowsOf(t) \cup {r}
      BY <2>3 DEF RowsOf
    <3> QED
      BY <2>1, <2>3, <3>1, AuditGrows
  <2> QED
    BY <2>2, <2>3
<1>2. \A r \in revisions' : WrittenBy(r)'
  BY WrittenKept DEF RevisionAudit
<1>3. \A i \in DOMAIN log' : \A d \in log'[i].deleted : AuditOf(d.audit, d.entry)
  BY DeletedKept
<1> QED
  BY <1>1, <1>2, <1>3 DEF RevisionAudit, AuditOf

\* A create starts the audit at revision 1.
LEMMA CreateAudit ==
  ASSUME TypeOK, AuditInv, NEW o, NEW s, NEW t \in TxnIds, NEW w \in Writes,
         Create(o, s, t, w)
  PROVE  AuditInv'
<1>0. PICK new, row : new = Posted(w, 1) /\ row = [txn |-> t, op |-> o, entry |-> new]
  OBVIOUS
<1>1. PICK x : x = Receipt(o, s, [type |-> "create", txn |-> t, write |-> w],
                           Report(Touched([a \in Accounts |-> Effect(new, a)])), {})
  OBVIOUS
<1>2. /\ Commit(x) /\ ~Present(t)
      /\ txns' = [txns EXCEPT ![t] = new] /\ revisions' = revisions \cup {row}
  BY <1>0, <1>1 DEF Create
<1>3. /\ x.op = o /\ x.deleted = {}
      /\ x.request.type = "create" /\ x.request.txn = t
  BY <1>1 DEF Receipt
<1>4. t \in AllTxns \ Imported /\ DOMAIN txns = AllTxns
  BY ConstantsAssumption DEF AllTxns, TypeOK
<1>5. new.revision = 1 /\ new.kind # "absent" /\ txns[t].revision = 0
  BY <1>0, <1>2, <1>4 DEF Posted, Writes, EditableKinds, AuditInv, AbsentRows
<1>6. row.txn = t /\ row.op = o /\ row.entry = new
  BY <1>0
<1>7. WrittenBy(row)'
  BY <1>2, <1>3, <1>5, <1>6, WrittenNow
<1>8. RevisionAudit'
  <2>1. /\ revisions' = revisions \cup {row}
        /\ \A q \in {row} : /\ q.txn \in AllTxns \ Imported /\ WrittenBy(q)'
                            /\ q.entry = txns'[q.txn]
                            /\ q.entry.revision = txns[q.txn].revision + 1
        /\ \A u \in AllTxns : (\A q \in {row} : q.txn # u) => txns'[u] = txns[u]
    BY <1>2, <1>4, <1>5, <1>6, <1>7
  <2> QED
    BY <1>2, <1>3, <2>1, AuditWritten DEF AuditInv
<1>9. AbsentRows'
  BY <1>2, <1>4, <1>5 DEF AuditInv, AbsentRows, Present
<1> QED
  BY <1>8, <1>9 DEF AuditInv

\* An edit extends the audit by the revision it stores.
LEMMA EditAudit ==
  ASSUME TypeOK, AuditInv, NEW o, NEW s, NEW t \in AllTxns, NEW w \in Writes,
         NEW r, NEW e, Edit(o, s, t, w, r, e)
  PROVE  AuditInv'
<1>0. PICK new, row : /\ new = Posted(w, txns[t].revision + 1)
                      /\ row = [txn |-> t, op |-> o, entry |-> new]
  OBVIOUS
<1>1. PICK x : x = Receipt(o, s, [type |-> "edit", txn |-> t, write |-> w,
                                  revision |-> r, expected |-> e],
                           Report(Touched([a \in Accounts |->
                                             Effect(new, a) - Effect(txns[t], a)])), {})
  OBVIOUS
<1>2. /\ Commit(x) /\ t \notin Imported /\ RevisionCurrent(t, r)
      /\ txns' = [txns EXCEPT ![t] = new] /\ revisions' = revisions \cup {row}
  BY <1>0, <1>1 DEF Edit
<1>3. /\ x.op = o /\ x.deleted = {}
      /\ x.request.type = "edit" /\ x.request.txn = t /\ x.request.revision = r
  BY <1>1 DEF Receipt
<1>4. DOMAIN txns = AllTxns
  BY DEF TypeOK
<1>5. new.revision = txns[t].revision + 1 /\ new.kind # "absent" /\ txns[t].revision = r
  BY <1>0, <1>2 DEF Posted, Writes, EditableKinds, RevisionCurrent
<1>6. row.txn = t /\ row.op = o /\ row.entry = new
  BY <1>0
<1>7. WrittenBy(row)'
  BY <1>2, <1>3, <1>5, <1>6, WrittenNow
<1>8. RevisionAudit'
  <2>1. /\ revisions' = revisions \cup {row}
        /\ \A q \in {row} : /\ q.txn \in AllTxns \ Imported /\ WrittenBy(q)'
                            /\ q.entry = txns'[q.txn]
                            /\ q.entry.revision = txns[q.txn].revision + 1
        /\ \A u \in AllTxns : (\A q \in {row} : q.txn # u) => txns'[u] = txns[u]
    BY <1>2, <1>4, <1>5, <1>6, <1>7
  <2> QED
    BY <1>2, <1>3, <2>1, AuditWritten DEF AuditInv
<1>9. AbsentRows'
  BY <1>2, <1>4, <1>5 DEF AuditInv, AbsentRows, Present
<1> QED
  BY <1>8, <1>9 DEF AuditInv

\* A reconciliation extends the audit of each adjustment it replaces.
LEMMA ReconcileAudit ==
  ASSUME TypeOK, AuditInv, NEW o, NEW s, NEW m \in Months,
         NEW observed, NEW after, NEW actual, NEW e,
         Reconcile(o, s, m, observed, after, actual, e)
  PROVE  AuditInv'
<1> DEFINE A == DOMAIN actual
           ids == {AdjustmentId(a, m) : a \in A}
           target == [a \in A |-> actual[a] + Total(a, after)]
           change == [a \in A |-> BaseBalance(a, m) - target[a]]
           adjusted == [a \in A |-> Adjusted(a, m, change[a])]
           N == {[txn |-> AdjustmentId(a, m), op |-> o, entry |-> adjusted[a]] : a \in A}
<1>1. PICK x : x = Receipt(o, s, [type |-> "reconcile", month |-> m, observed |-> observed,
                                  actual |-> actual, expected |-> e],
                           [a \in A |-> [balance |-> actual[a], revision |-> ledgerRevision'[a]]],
                           {})
  OBVIOUS
<1>2. /\ Commit(x) /\ A \subseteq Accounts
      /\ txns' = [t \in AllTxns |-> IF t \in ids THEN adjusted[t[1]] ELSE txns[t]]
      /\ revisions' = revisions \cup N
  BY <1>1 DEF Reconcile
<1>3. /\ x.op = o /\ x.deleted = {}
      /\ x.request.type = "reconcile" /\ x.request.month = m /\ x.request.actual = actual
  BY <1>1 DEF Receipt
<1>4. ASSUME NEW a \in A
      PROVE  /\ AdjustmentId(a, m) \in AllTxns \ Imported
             /\ txns'[AdjustmentId(a, m)] = adjusted[a]
             /\ adjusted[a].revision = txns[AdjustmentId(a, m)].revision + 1
             /\ adjusted[a].kind = "reconciliation"
             /\ adjusted[a].month = m /\ adjusted[a].from = a
  <2>1. AdjustmentId(a, m) \in AllTxns \ Imported /\ AdjustmentId(a, m)[1] = a
    BY <1>2, ClientIds DEF AdjustmentId
  <2>2. adjusted[a] = Adjusted(a, m, change[a])
    OBVIOUS
  <2> HIDE DEF adjusted, change
  <2> QED
    BY <1>2, <2>1, <2>2 DEF Adjusted
<1>5. \A t \in AllTxns : t \notin ids => txns'[t] = txns[t]
  BY <1>2
<1>6. /\ \A r \in N : \E a \in A :
           r.txn = AdjustmentId(a, m) /\ r.op = o /\ r.entry = adjusted[a]
      /\ \A a \in A : \E r \in N : r.txn = AdjustmentId(a, m)
  <2> HIDE DEF adjusted
  <2>1. ASSUME NEW a \in A
        PROVE  \E r \in N : r.txn = AdjustmentId(a, m)
    <3>1. [txn |-> AdjustmentId(a, m), op |-> o, entry |-> adjusted[a]] \in N
      OBVIOUS
    <3> QED
      BY <3>1
  <2> QED
    BY <2>1
<1>7. \A a, b \in A : AdjustmentId(a, m) = AdjustmentId(b, m) => a = b
  BY DEF AdjustmentId
<1>8. \A r, q \in N : r.txn = q.txn => r = q
  BY <1>7
<1>9. PICK M : M = N
  OBVIOUS
<1> HIDE DEF adjusted, N
<1>10. ASSUME NEW r \in M
       PROVE  /\ r.txn \in AllTxns \ Imported /\ WrittenBy(r)'
              /\ r.entry = txns'[r.txn]
              /\ r.entry.revision = txns[r.txn].revision + 1
  <2>1. PICK a \in A : r.txn = AdjustmentId(a, m) /\ r.op = o /\ r.entry = adjusted[a]
    BY <1>6, <1>9
  <2>2. r.entry.month = m /\ r.entry.from = a
    BY <1>4, <2>1
  <2>3. WrittenBy(r)'
    BY <1>2, <1>3, <2>1, <2>2, WrittenNow
  <2> QED
    BY <1>4, <2>1, <2>3
<1>11. \A t \in AllTxns : (\A r \in M : r.txn # t) => txns'[t] = txns[t]
  BY <1>5, <1>6, <1>9
<1>12. RevisionAudit'
  BY <1>2, <1>3, <1>8, <1>9, <1>10, <1>11, AuditWritten DEF AuditInv
<1>13. AbsentRows'
  BY <1>4, <1>5 DEF AuditInv, AbsentRows, Present
<1> QED
  BY <1>12, <1>13 DEF AuditInv

\* A deletion moves the whole audit into its receipt.
LEMMA DeleteAudit ==
  ASSUME TypeOK, AuditInv, NEW o, NEW s, NEW t \in AllTxns, NEW r, NEW e,
         Delete(o, s, t, r, e)
  PROVE  AuditInv'
<1> DEFINE gone == [txn |-> t, entry |-> txns[t], audit |-> RowsOf(t)]
<1>1. PICK x : x = Receipt(o, s, [type |-> "delete", txn |-> t, revision |-> r, expected |-> e],
                           Report(Touched([a \in Accounts |-> -Effect(txns[t], a)])), {gone})
  OBVIOUS
<1>2. /\ Commit(x) /\ t \notin Imported
      /\ txns' = [txns EXCEPT ![t] = Absent] /\ revisions' = revisions \ RowsOf(t)
  BY <1>1 DEF Delete
<1>3. x.deleted = {gone} /\ gone.audit = RowsOf(t) /\ gone.entry = txns[t]
  BY <1>1 DEF Receipt
<1> HIDE DEF gone
<1>4. DOMAIN txns = AllTxns
  BY DEF TypeOK
<1>5. ASSUME NEW u \in AllTxns \ Imported
      PROVE  AuditOf(RowsOf(u)', txns'[u])
  <2>1. CASE u = t
    <3>1. RowsOf(u)' = {}
      BY <1>2, <2>1 DEF RowsOf
    <3> QED
      BY <1>2, <1>4, <2>1, <3>1, AuditOfNothing
  <2>2. CASE u # t
    <3>1. RowsOf(u)' = RowsOf(u)
      BY <1>2, <2>2 DEF RowsOf
    <3> QED
      BY <1>2, <1>4, <2>2, <3>1 DEF AuditInv, RevisionAudit
  <2> QED
    BY <2>1, <2>2
<1>6. \A q \in revisions' : WrittenBy(q)'
  BY <1>2, WrittenKept DEF AuditInv, RevisionAudit
<1>7. \A d \in x.deleted : AuditOf(d.audit, d.entry)
  BY <1>2, <1>3 DEF AuditInv, RevisionAudit
<1>8. \A i \in DOMAIN log' : \A d \in log'[i].deleted : AuditOf(d.audit, d.entry)
  BY <1>2, <1>7, DeletedKept DEF AuditInv
<1>9. RevisionAudit'
  BY <1>5, <1>6, <1>8 DEF RevisionAudit, AuditOf
<1>10. AbsentRows'
  BY <1>2, <1>4 DEF AuditInv, AbsentRows, Present, Absent
<1> QED
  BY <1>9, <1>10 DEF AuditInv

\* Corrections and closes leave entries and audit rows alone.
LEMMA QuietAudit ==
  ASSUME TypeOK, AuditInv, NEW x, Commit(x), x.deleted = {}, UNCHANGED <<txns, revisions>>
  PROVE  AuditInv'
<1>1. RevisionAudit'
  <2>1. revisions' = revisions \cup {}
    OBVIOUS
  <2> QED
    BY <2>1, AuditWritten DEF AuditInv
<1> QED
  BY <1>1 DEF AuditInv, AbsentRows, Present

\* There is nothing to audit at first.
LEMMA InitAudit == Init => AuditInv
<1> SUFFICES ASSUME Init PROVE AuditInv
  OBVIOUS
<1>1. revisions = {} /\ log = << >>
  BY DEF Init
<1>2. \A t \in AllTxns \ Imported : txns[t] = Absent
  BY DEF Init
<1>3. \A t \in Imported : Present(t)
  <2>1. PICK m \in [Imported -> 0..FirstMonth], a \in [Imported -> Accounts] :
          txns = [t \in AllTxns |->
                    IF t \in Imported
                    THEN [Absent EXCEPT !.kind = "expense", !.month = m[t], !.from = a[t],
                                        !.amount = 1, !.revision = 1]
                    ELSE Absent]
    BY DEF Init
  <2> QED
    BY <2>1 DEF Present, Absent, AllTxns
<1>4. AbsentRows
  BY <1>2, <1>3 DEF AbsentRows, Absent
<1>5. \A t \in AllTxns \ Imported : AuditOf(RowsOf(t), txns[t])
  <2>1. \A t : RowsOf(t) = {}
    BY <1>1 DEF RowsOf
  <2> QED
    BY <1>2, <2>1, AuditOfNothing
<1> QED
  BY <1>1, <1>4, <1>5 DEF AuditInv, RevisionAudit

\* The audit is inductive together with: an id without a row has no revision.
THEOREM AuditKept == Spec => []AuditInv
<1>1. TypeOK /\ AuditInv /\ [Next]_vars => AuditInv'
  <2> SUFFICES ASSUME TypeOK, AuditInv, [Next]_vars PROVE AuditInv'
    OBVIOUS
  <2>1. ASSUME NEW o \in OpIds \ Logged, NEW s \in Subjects, Write(o, s)
        PROVE  AuditInv'
    <3>1. CASE \E t \in TxnIds, w \in Writes : Create(o, s, t, w)
      BY <3>1, CreateAudit
    <3>2. ASSUME NEW t \in AllTxns, NEW w \in Writes, NEW r, NEW e, Edit(o, s, t, w, r, e)
          PROVE  AuditInv'
      BY <3>2, EditAudit
    <3>3. ASSUME NEW t \in AllTxns, NEW r, NEW e, Delete(o, s, t, r, e)
          PROVE  AuditInv'
      BY <3>3, DeleteAudit
    <3>4. ASSUME NEW m \in Months, NEW observed \in BOOLEAN,
                 NEW after, NEW actual, NEW e, Reconcile(o, s, m, observed, after, actual, e)
          PROVE  AuditInv'
      BY <3>4, ReconcileAudit
    <3>5. ASSUME NEW t \in AllTxns, Correct(o, s, t)
          PROVE  AuditInv'
      <4> DEFINE x == Receipt(o, s, [type |-> "correct", txn |-> t], << >>, {})
      <4>1. Commit(x) /\ x.deleted = {} /\ UNCHANGED <<txns, revisions>>
        BY <3>5 DEF Correct, Receipt
      <4> HIDE DEF x
      <4> QED
        BY <4>1, QuietAudit
    <3>6. ASSUME NEW m \in Months, Close(o, s, m)
          PROVE  AuditInv'
      <4> DEFINE x == Receipt(o, s, [type |-> "close", month |-> m], << >>, {})
      <4>1. Commit(x) /\ x.deleted = {} /\ UNCHANGED <<txns, revisions>>
        BY <3>6 DEF Close, Receipt
      <4> HIDE DEF x
      <4> QED
        BY <4>1, QuietAudit
    <3> QED
      BY <2>1, <3>1, <3>2, <3>3, <3>4, <3>5, <3>6 DEF Write
  <2>2. ASSUME UNCHANGED <<txns, revisions, log>>
        PROVE  AuditInv'
    BY <2>2 DEF AuditInv, RevisionAudit, AbsentRows, WrittenBy, RowsOf, Present, AuditOf
  <2>3. CASE \E o \in Logged, s \in Subjects : \E i \in DOMAIN log : Retry(o, s, log[i].request)
    BY <2>2, <2>3 DEF Retry
  <2>4. CASE NextMonth \/ UNCHANGED vars
    BY <2>2, <2>4 DEF NextMonth, vars
  <2> QED
    BY <2>1, <2>3, <2>4 DEF Next
<1> QED
  BY <1>1, InitAudit, TypeCorrect, PTL DEF Spec

\* Whatever the members do, each entry keeps a gapless audit of its revisions
\* that ends in what is stored, and a deletion keeps all of it in its receipt.
THEOREM RevisionsAudited == Spec => []RevisionAudit
<1>1. AuditInv => RevisionAudit
  BY DEF AuditInv
<1> QED
  BY <1>1, AuditKept, PTL

----------------------------------------------------------------------------
(* Fresh closes. *)

\* An operation id is logged once.
LoggedOnce == \A i, j \in DOMAIN log : log[i].op = log[j].op => i = j

\* An entry with audit rows is a reallocation or moves an account; an adjustment
\* stays one: nobody turns it into something else.
Counts(e) == e.kind = "reallocate" \/ Involved(e) # {}
KindsMove ==
  /\ \A r \in revisions : Counts(txns[r.txn])
  /\ \A a \in Accounts, m \in Months :
       Present(AdjustmentId(a, m)) => txns[AdjustmentId(a, m)].kind = "reconciliation"

\* What a client writes counts.
LEMMA WrittenCounts == ASSUME NEW w \in Writes, NEW r PROVE Counts(Posted(w, r))
<1>1. WellShaped(w) /\ w.kind \in EditableKinds
  BY DEF Writes
<1>2. w.kind = "reallocate" \/ w.from \in Accounts \/ w.to \in Accounts
  BY <1>1 DEF WellShaped, EditableKinds
<1>3. Posted(w, r).kind = w.kind /\ Posted(w, r).from = w.from /\ Posted(w, r).to = w.to
  BY DEF Posted
<1> HIDE DEF Posted
<1> QED
  BY <1>2, <1>3 DEF Counts, Involved

FreshInv == LoggedOnce /\ KindsMove /\ ClosedOnFreshReconciliation

\* The rowid of a logged operation never changes, and a new one is the last.
LEMMA RowIds ==
  ASSUME TypeOK, LoggedOnce, NEW x, Commit(x)
  PROVE  /\ LoggedOnce' /\ Len(log) \in Nat
         /\ \A o \in Logged : o \in Logged' /\ RowId(o) \in 1..Len(log) /\ RowId(o)' = RowId(o)
         /\ x.op \in Logged' /\ x.op \notin Logged /\ RowId(x.op)' = Len(log) + 1
         /\ DOMAIN log' = 1..(Len(log) + 1) /\ DOMAIN log = 1..Len(log)
         /\ \A i \in DOMAIN log : log'[i] = log[i] /\ RowId(log[i].op) = i
         /\ log'[Len(log) + 1] = x
<1>1. log' = Append(log, x) /\ x.op \notin Logged
  BY DEF Commit
<1>2. /\ Len(log) \in Nat /\ DOMAIN log = 1..Len(log)
      /\ DOMAIN log' = 1..(Len(log) + 1)
      /\ \A i \in DOMAIN log : log'[i] = log[i]
      /\ log'[Len(log) + 1] = x
  BY <1>1, LogAppend DEF TypeOK
<1>3. \A o : o \in Logged <=> \E i \in DOMAIN log : log[i].op = o
  BY DEF Logged, Range
<1>4. \A o : o \in Logged' <=> \E i \in DOMAIN log' : log'[i].op = o
  BY DEF Logged, Range
<1>5. LoggedOnce'
  BY <1>1, <1>2, <1>3 DEF LoggedOnce
<1>6. \A i \in DOMAIN log : RowId(log[i].op) = i
  BY DEF LoggedOnce, RowId
<1>7. \A i \in DOMAIN log' : \A o : log'[i].op = o => RowId(o)' = i
  BY <1>5 DEF LoggedOnce, RowId
<1>8. ASSUME NEW o \in Logged
      PROVE  o \in Logged' /\ RowId(o) \in 1..Len(log) /\ RowId(o)' = RowId(o)
  <2>1. PICK i \in DOMAIN log : log[i].op = o
    BY <1>3
  <2>2. RowId(o) = i /\ i \in DOMAIN log' /\ log'[i].op = o
    BY <1>2, <1>6, <2>1
  <2>3. RowId(o)' = i
    BY <1>7, <2>2
  <2> QED BY <1>2, <1>4, <2>2, <2>3
<1>9. RowId(x.op)' = Len(log) + 1 /\ x.op \in Logged'
  BY <1>2, <1>4, <1>7
<1> QED BY <1>1, <1>2, <1>5, <1>6, <1>8, <1>9

\* Of the full batches of a month one is the latest.
LEMMA LatestIsFull ==
  ASSUME TypeOK, LoggedOnce, NEW m, FullBatches(m) # {}
  PROVE  LatestFull(m) \in FullBatches(m)
<1>1. Len(log) \in Nat /\ DOMAIN log = 1..Len(log)
  BY DEF TypeOK
<1>2. ASSUME NEW b \in FullBatches(m)
      PROVE  RowId(b.op) \in 1..Len(log)
  <2>1. b.op \in Logged
    BY DEF FullBatches, TypeOK, IsBatch
  <2>2. \E i \in DOMAIN log : log[i].op = b.op
    BY <2>1 DEF Logged, Range
  <2> QED BY <1>1, <2>2 DEF RowId
<1> DEFINE Ages == {Len(log) - RowId(b.op) : b \in FullBatches(m)}
           Less == {p \in Nat \X Nat : p[1] < p[2]}
<1>3. Ages \subseteq Nat /\ Ages # {}
  BY <1>1, <1>2
<1>4. IsWellFoundedOn(Less, Nat)
  BY NatLessThanWellFounded DEF OpToRel
<1>5. PICK n \in Ages : \A k \in Ages : <<k, n>> \notin Less
  <2> HIDE DEF Ages, Less
  <2> QED BY <1>3, <1>4, WFMin
<1>6. PICK b \in FullBatches(m) : n = Len(log) - RowId(b.op)
  OBVIOUS
<1>7. \A c \in FullBatches(m) : RowId(c.op) <= RowId(b.op)
  <2> TAKE c \in FullBatches(m)
  <2>1. Len(log) - RowId(c.op) \in Ages
    OBVIOUS
  <2>2. ~(Len(log) - RowId(c.op) < Len(log) - RowId(b.op))
    BY <1>3, <1>5, <1>6, <2>1
  <2> QED BY <1>1, <1>2, <2>2
<1> QED BY <1>7 DEF LatestFull

\* The batch b stands for the close c.
IsBasis(b, c) ==
  /\ b.month = c.month /\ DOMAIN b.items = Accounts
  /\ RowId(b.op) < RowId(c.op)
  /\ \A r \in revisions :
       Between(b, r.op, c) => txns[r.txn].month > c.month \/ txns[r.txn].kind = "reallocate"
  /\ \A i \in DOMAIN log : \A d \in log[i].deleted :
       Between(b, log[i].op, c) => d.entry.month > c.month \/ d.entry.kind = "reallocate"

\* Each close has a batch it rests on.
LEMMA BasisEach ==
  ClosedOnFreshReconciliation <=> \A c \in closures : \E b \in batches : IsBasis(b, c)
BY DEF ClosedOnFreshReconciliation, IsBasis

\* Entries with audit rows are there.
LEMMA AuditedPresent ==
  ASSUME TypeOK, AuditInv, NEW r \in revisions, r.txn \notin Imported
  PROVE  Present(r.txn)
<1>1. r.txn \in AllTxns /\ r \in RowsOf(r.txn)
  BY DEF TypeOK, IsRow, RowsOf
<1>2. r.entry.revision \in 1..txns[r.txn].revision
  BY <1>1 DEF AuditInv, RevisionAudit, AuditOf
<1> QED BY <1>1, <1>2 DEF AuditInv, AbsentRows

\* A month that is open lies after every closed one.
LEMMA OpenIsLater ==
  ASSUME TypeOK, ClosedInOrder, NEW m \in Nat, RequireOpen(m), NEW c \in closures
  PROVE  m > c.month
<1>1. c.month \in Nat
  BY TodayNat DEF TypeOK
<1>2. FirstMonth <= m /\ ~Closed(m) /\ \A k \in FirstMonth..c.month : Closed(k)
  BY DEF RequireOpen, ClosedInOrder
<1> QED BY <1>1, <1>2 DEF FirstMonth

\* A later operation takes no basis away, unless it moves what counted between.
LEMMA BasisKept ==
  ASSUME TypeOK, LoggedOnce, NEW x, Commit(x), NEW c \in closures, NEW b \in batches, IsBasis(b, c),
         \A r \in revisions' : r \in revisions \/ r.op = x.op,
         \A r \in revisions \cap revisions' :
           \/ txns'[r.txn] = txns[r.txn]
           \/ /\ txns'[r.txn].month = txns[r.txn].month
              /\ (txns[r.txn].kind # "reallocate" \/ txns[r.txn].month > c.month)
  PROVE  IsBasis(b, c)'
<1>1. c.op \in Logged /\ b.op \in Logged /\ \A r \in revisions : r.op \in Logged
  BY DEF TypeOK, IsBatch, IsRow
<1>2. RowId(c.op)' = RowId(c.op) /\ RowId(b.op)' = RowId(b.op) /\ RowId(c.op) \in 1..Len(log)
  BY <1>1, RowIds
<1>3. Len(log) \in Nat /\ RowId(x.op)' = Len(log) + 1
  BY RowIds
<1>4. ~Between(b, x.op, c)'
  BY <1>2, <1>3 DEF Between
<1>5. ASSUME NEW r \in revisions', Between(b, r.op, c)'
      PROVE  txns'[r.txn].month > c.month \/ txns'[r.txn].kind = "reallocate"
  <2>1. r \in revisions /\ r.op \in Logged
    BY <1>1, <1>4, <1>5
  <2>2. Between(b, r.op, c)
    BY <1>2, <1>5, <2>1, RowIds DEF Between
  <2> QED BY <2>1, <2>2 DEF IsBasis
<1>6. ASSUME NEW i \in DOMAIN log', NEW d \in log'[i].deleted, Between(b, log[i].op, c)'
      PROVE  d.entry.month > c.month \/ d.entry.kind = "reallocate"
  <2>0. log'[i].op # x.op
    BY <1>4, <1>6
  <2>1. i \in DOMAIN log /\ log'[i] = log[i]
    BY <1>3, <2>0, RowIds
  <2>2. log[i].op \in Logged
    BY <2>1 DEF Logged, Range
  <2>3. Between(b, log[i].op, c)
    BY <1>2, <1>6, <2>1, <2>2, RowIds DEF Between
  <2> QED BY <2>1, <2>3 DEF IsBasis
<1> QED BY <1>2, <1>5, <1>6 DEF IsBasis

\* Whoever leaves the closes alone keeps each of them founded.
LEMMA FreshKept ==
  ASSUME TypeOK, FreshInv, NEW x, Commit(x), closures' = closures, batches \subseteq batches',
         \A r \in revisions' : r \in revisions \/ r.op = x.op,
         \A r \in revisions \cap revisions' :
           \/ txns'[r.txn] = txns[r.txn]
           \/ /\ txns'[r.txn].month = txns[r.txn].month
              /\ \/ txns[r.txn].kind # "reallocate"
                 \/ \A c \in closures : txns[r.txn].month > c.month,
         KindsMove'
  PROVE  FreshInv'
<1>1. LoggedOnce'
  BY RowIds DEF FreshInv
<1>2. ASSUME NEW c \in closures
      PROVE  \E b \in batches' : IsBasis(b, c)'
  <2>1. PICK b \in batches : IsBasis(b, c)
    BY BasisEach DEF FreshInv
  <2>2. IsBasis(b, c)'
    BY <2>1, BasisKept DEF FreshInv
  <2> QED BY <2>1, <2>2
<1>3. ClosedOnFreshReconciliation'
  BY <1>2 DEF ClosedOnFreshReconciliation, IsBasis
<1> QED BY <1>1, <1>3 DEF FreshInv

\* A new entry is in no audit row yet.
LEMMA CreateFresh ==
  ASSUME TypeOK, AuditInv, FreshInv, NEW o, NEW s, NEW t \in TxnIds, NEW w \in Writes,
         Create(o, s, t, w)
  PROVE  FreshInv'
<1>1. PICK x : x = Receipt(o, s, [type |-> "create", txn |-> t, write |-> w],
                           Report(Touched([a \in Accounts |-> Effect(Posted(w, 1), a)])), {})
  OBVIOUS
<1>2. /\ Commit(x) /\ ~Present(t)
      /\ txns' = [txns EXCEPT ![t] = Posted(w, 1)]
      /\ revisions' = revisions \cup {[txn |-> t, op |-> o, entry |-> Posted(w, 1)]}
      /\ UNCHANGED <<batches, closures>>
  BY <1>1 DEF Create
<1>3. x.op = o /\ x.deleted = {}
  BY <1>1 DEF Receipt
<1>4. t \in AllTxns /\ t \notin Imported /\ DOMAIN txns = AllTxns
  BY ConstantsAssumption DEF AllTxns, TypeOK
<1>5. txns'[t] = Posted(w, 1) /\ \A u \in AllTxns : u # t => txns'[u] = txns[u]
  BY <1>2, <1>4
<1>6. \A r \in revisions : r.txn \in AllTxns /\ r.txn # t
  BY <1>2, <1>4, AuditedPresent DEF TypeOK, IsRow
<1>7. KindsMove'
  <2>1. \A a \in Accounts, m \in Months : txns'[AdjustmentId(a, m)] = txns[AdjustmentId(a, m)]
    BY <1>5, ClientIds
  <2>2. \A q \in revisions' : Counts(txns'[q.txn])
    BY <1>2, <1>5, <1>6, WrittenCounts DEF FreshInv, KindsMove
  <2> QED BY <2>1, <2>2 DEF FreshInv, KindsMove, Present, AdjustmentId, Counts, Involved
<1> QED BY <1>2, <1>3, <1>5, <1>6, <1>7, FreshKept

\* An edit changes an entry of an open month, which lies after the closed ones.
LEMMA EditFresh ==
  ASSUME TypeOK, ClosedInOrder, FreshInv, NEW o, NEW s, NEW t \in AllTxns, NEW w \in Writes,
         NEW r, NEW e, Edit(o, s, t, w, r, e)
  PROVE  FreshInv'
<1>0. PICK new : new = Posted(w, txns[t].revision + 1)
  OBVIOUS
<1>1. PICK x : x = Receipt(o, s, [type |-> "edit", txn |-> t, write |-> w,
                                  revision |-> r, expected |-> e],
                           Report(Touched([a \in Accounts |->
                                             Effect(new, a) - Effect(txns[t], a)])), {})
  OBVIOUS
<1>2. /\ Commit(x) /\ txns[t].kind \in EditableKinds
      /\ w.month = txns[t].month /\ RequireOpen(txns[t].month)
      /\ txns' = [txns EXCEPT ![t] = new]
      /\ revisions' = revisions \cup {[txn |-> t, op |-> o, entry |-> new]}
      /\ UNCHANGED <<batches, closures>>
  BY <1>0, <1>1 DEF Edit
<1>3. x.op = o /\ x.deleted = {}
  BY <1>1 DEF Receipt
<1>4. DOMAIN txns = AllTxns /\ txns[t].month \in Nat
  BY TodayNat DEF TypeOK, IsEntry
<1>5. /\ txns'[t] = new /\ new.month = txns[t].month
      /\ \A u \in AllTxns : u # t => txns'[u] = txns[u]
  BY <1>0, <1>2, <1>4 DEF Posted
<1>6. \A c \in closures : txns[t].month > c.month
  BY <1>2, <1>4, OpenIsLater
<1>7. \A q \in revisions : q.txn \in AllTxns
  BY DEF TypeOK, IsRow
<1>8. KindsMove'
  <2>1. \A a \in Accounts, m \in Months : txns'[AdjustmentId(a, m)] = txns[AdjustmentId(a, m)] \/ AdjustmentId(a, m) = t
    BY <1>5, ClientIds
  <2>2. \A a \in Accounts, m \in Months : AdjustmentId(a, m) # t
    BY <1>2 DEF FreshInv, KindsMove, Present, EditableKinds
  <2>3. \A q \in revisions' : Counts(txns'[q.txn])
    BY <1>0, <1>2, <1>5, <1>7, WrittenCounts DEF FreshInv, KindsMove
  <2> QED BY <2>1, <2>2, <2>3 DEF FreshInv, KindsMove, Present, AdjustmentId, Counts, Involved
<1> QED BY <1>2, <1>3, <1>5, <1>6, <1>7, <1>8, FreshKept

\* A deletion takes the audit rows with it and is logged after every close.
LEMMA DeleteFresh ==
  ASSUME TypeOK, FreshInv, NEW o, NEW s, NEW t \in AllTxns, NEW r, NEW e,
         Delete(o, s, t, r, e)
  PROVE  FreshInv'
<1> DEFINE gone == [txn |-> t, entry |-> txns[t], audit |-> RowsOf(t)]
<1>1. PICK x : x = Receipt(o, s, [type |-> "delete", txn |-> t, revision |-> r, expected |-> e],
                           Report(Touched([a \in Accounts |-> -Effect(txns[t], a)])), {gone})
  OBVIOUS
<1>2. /\ Commit(x) /\ txns' = [txns EXCEPT ![t] = Absent] /\ revisions' = revisions \ RowsOf(t)
      /\ UNCHANGED <<batches, closures>>
  BY <1>1 DEF Delete
<1>3. x.deleted = {gone} /\ gone.entry = txns[t]
  BY <1>1 DEF Receipt
<1> HIDE DEF gone
<1>4. DOMAIN txns = AllTxns /\ txns'[t] = Absent /\ \A u \in AllTxns : u # t => txns'[u] = txns[u]
  BY <1>2 DEF TypeOK
<1>5. \A q \in revisions' : q \in revisions /\ q.txn \in AllTxns /\ q.txn # t
  BY <1>2 DEF TypeOK, IsRow, RowsOf
<1>6. KindsMove'
  <2>1. ASSUME NEW a \in Accounts, NEW m \in Months, txns'[AdjustmentId(a, m)].kind # "absent"
        PROVE  txns'[AdjustmentId(a, m)] = txns[AdjustmentId(a, m)]
    BY <1>4, <2>1, ClientIds DEF Absent
  <2>2. \A q \in revisions' : Counts(txns'[q.txn])
    BY <1>4, <1>5 DEF FreshInv, KindsMove
  <2> QED BY <2>1, <2>2 DEF FreshInv, KindsMove, Present, AdjustmentId, Counts, Involved
<1> QED BY <1>2, <1>4, <1>5, <1>6, FreshKept

\* A replaced adjustment counted before as it does now.
LEMMA ReconcileFresh ==
  ASSUME TypeOK, AuditInv, AdjustmentsInPlace, FreshInv, NEW o, NEW s, NEW m \in Months,
         NEW observed, NEW after, NEW actual, NEW e,
         Reconcile(o, s, m, observed, after, actual, e)
  PROVE  FreshInv'
<1> DEFINE A == DOMAIN actual
           ids == {AdjustmentId(a, m) : a \in A}
           change == [a \in A |-> BaseBalance(a, m) - (actual[a] + Total(a, after))]
           adjusted == [a \in A |-> Adjusted(a, m, change[a])]
<1>1. PICK x : x = Receipt(o, s, [type |-> "reconcile", month |-> m, observed |-> observed,
                                  actual |-> actual, expected |-> e],
                           [a \in A |-> [balance |-> actual[a], revision |-> ledgerRevision'[a]]],
                           {})
  OBVIOUS
<1>2. /\ Commit(x) /\ A \subseteq Accounts /\ closures' = closures /\ batches \subseteq batches'
      /\ txns' = [t \in AllTxns |-> IF t \in ids THEN adjusted[t[1]] ELSE txns[t]]
      /\ revisions' = revisions \cup
           {[txn |-> AdjustmentId(a, m), op |-> o, entry |-> adjusted[a]] : a \in A}
  BY <1>1 DEF Reconcile
<1>3. x.op = o /\ x.deleted = {}
  BY <1>1 DEF Receipt
<1>4. ASSUME NEW a \in A
      PROVE  /\ AdjustmentId(a, m) \in AllTxns \ Imported
             /\ txns'[AdjustmentId(a, m)].kind = "reconciliation"
             /\ txns'[AdjustmentId(a, m)].month = m /\ txns'[AdjustmentId(a, m)].from = a
  <2>1. AdjustmentId(a, m) \in AllTxns \ Imported /\ AdjustmentId(a, m)[1] = a
    BY <1>2, ClientIds DEF AdjustmentId
  <2>2. txns'[AdjustmentId(a, m)] = adjusted[a]
    BY <1>2, <2>1
  <2>3. adjusted[a] = Adjusted(a, m, change[a])
    OBVIOUS
  <2> HIDE DEF adjusted, change
  <2> QED BY <2>1, <2>2, <2>3 DEF Adjusted
<1>5. \A t \in AllTxns : t \notin ids => txns'[t] = txns[t]
  BY <1>2
<1>6. \A r \in revisions' : r \in revisions \/ r.op = o
  BY <1>2
<1> HIDE DEF adjusted, change
<1>7. ASSUME NEW r \in revisions
      PROVE  \/ txns'[r.txn] = txns[r.txn]
             \/ txns'[r.txn].month = txns[r.txn].month /\ txns[r.txn].kind # "reallocate"
  <2>1. r.txn \in AllTxns
    BY DEF TypeOK, IsRow
  <2>2. ASSUME NEW a \in A, r.txn = AdjustmentId(a, m)
        PROVE  txns'[r.txn].month = txns[r.txn].month /\ txns[r.txn].kind # "reallocate"
    <3>1. Present(r.txn)
      BY <1>4, <2>2, AuditedPresent
    <3> QED BY <1>2, <1>4, <2>2, <3>1 DEF AdjustmentsInPlace, FreshInv, KindsMove
  <2> QED BY <1>5, <2>1, <2>2
<1>8. KindsMove'
  <2>1. ASSUME NEW a \in Accounts, NEW k \in Months, txns'[AdjustmentId(a, k)].kind # "absent"
        PROVE  txns'[AdjustmentId(a, k)].kind = "reconciliation"
    <3>1. CASE AdjustmentId(a, k) \in ids
      BY <1>4, <3>1 DEF AdjustmentId
    <3>2. CASE AdjustmentId(a, k) \notin ids
      BY <1>5, <2>1, <3>2, ClientIds DEF FreshInv, KindsMove, Present
    <3> QED BY <3>1, <3>2
  <2>2. ASSUME NEW q \in revisions' PROVE Counts(txns'[q.txn])
    <3>1. CASE q \in revisions /\ q.txn \notin ids
      <4>1. q.txn \in AllTxns
        BY <3>1 DEF TypeOK, IsRow
      <4> QED BY <1>5, <3>1, <4>1 DEF FreshInv, KindsMove
    <3>2. CASE q.txn \in ids
      <4>1. PICK a \in A : q.txn = AdjustmentId(a, m)
        BY <3>2
      <4>2. txns'[q.txn].from = a /\ a \in Accounts
        BY <1>2, <1>4, <4>1
      <4> QED BY <4>2 DEF Counts, Involved
    <3> QED BY <1>2, <3>1, <3>2
  <2> QED BY <2>1, <2>2 DEF KindsMove, Present, AdjustmentId, Counts, Involved
<1> QED BY <1>2, <1>3, <1>6, <1>7, <1>8, FreshKept

\* Nothing that counts happened between the batch and the close that looked for it.
LEMMA CloseFresh ==
  ASSUME TypeOK, FreshInv, NEW o, NEW s, NEW m, Close(o, s, m)
  PROVE  FreshInv'
<1> DEFINE new == [month |-> m, op |-> o]
<1>1. PICK x : x = Receipt(o, s, [type |-> "close", month |-> m], << >>, {})
  OBVIOUS
<1>2. /\ Commit(x) /\ UNCHANGED <<txns, revisions, batches>>
      /\ FullBatches(m) # {} /\ ReconciliationCurrent(LatestFull(m))
      /\ closures' = closures \cup {new}
  BY <1>1 DEF Close
<1>3. x.op = o /\ x.deleted = {}
  BY <1>1 DEF Receipt
<1>4. KindsMove'
  BY <1>2 DEF FreshInv, KindsMove, Present, AdjustmentId, Counts, Involved
<1>5. ASSUME NEW c \in closures
      PROVE  \E b \in batches' : IsBasis(b, c)'
  <2>1. PICK b \in batches : IsBasis(b, c)
    BY BasisEach DEF FreshInv
  <2>2. IsBasis(b, c)'
    BY <1>2, <2>1, BasisKept DEF FreshInv
  <2> QED BY <1>2, <2>1, <2>2
<1>6. \E b \in batches' : IsBasis(b, new)'
  <2>1. PICK b : b = LatestFull(m)
    OBVIOUS
  <2>2. b \in batches /\ b.month = m /\ DOMAIN b.items = Accounts /\ ~MovedSince(b)
    BY <1>2, <2>1, LatestIsFull DEF FullBatches, FreshInv, ReconciliationCurrent
  <2>3. /\ b.op \in Logged /\ RowId(b.op)' = RowId(b.op) /\ RowId(b.op) \in 1..Len(log)
        /\ RowId(o)' = Len(log) + 1 /\ Len(log) \in Nat
    BY <1>2, <1>3, <2>2, RowIds DEF TypeOK, IsBatch, FreshInv
  <2>4. ASSUME NEW r \in revisions, Between(b, r.op, new)'
        PROVE  txns[r.txn].month > m \/ txns[r.txn].kind = "reallocate"
    <3>1. r.op \in Logged /\ r.txn \in AllTxns
      BY DEF TypeOK, IsRow
    <3>2. RowId(r.op) > RowId(b.op)
      BY <1>2, <2>3, <2>4, <3>1, RowIds DEF Between, FreshInv
    <3>3. \/ ~(txns[r.txn].month <= m) \/ txns[r.txn].kind = "reallocate"
          \/ Involved(txns[r.txn]) = {}
      BY <2>2, <3>2 DEF MovedSince
    <3>4. txns[r.txn].month \in Int /\ m \in Int
      BY <2>2, <3>1, TodayNat DEF TypeOK, IsEntry, IsBatch
    <3> QED BY <3>3, <3>4 DEF FreshInv, KindsMove, Counts
  <2>5. ASSUME NEW i \in DOMAIN log', NEW d \in log'[i].deleted, Between(b, log[i].op, new)'
        PROVE  d.entry.month > m \/ d.entry.kind = "reallocate"
    <3>1. log'[i].op # o
      BY <2>3, <2>5 DEF Between
    <3>2. i \in DOMAIN log /\ log'[i] = log[i] /\ RowId(log[i].op) = i
      BY <1>2, <1>3, <3>1, RowIds DEF FreshInv
    <3>3. log[i].op \in Logged
      BY <3>2 DEF Logged, Range
    <3>4. i > RowId(b.op)
      BY <1>2, <2>3, <2>5, <3>2, <3>3, RowIds DEF Between, FreshInv
    <3>5. ~(d.entry.month <= m) \/ d.entry.kind = "reallocate"
      BY <2>2, <3>2, <3>4 DEF MovedSince
    <3>6. d.entry.month \in Int /\ m \in Int
      BY <2>2, <3>2, TodayNat DEF TypeOK, IsReceipt, IsEntry, IsBatch, Range
    <3> QED BY <3>5, <3>6
  <2>6. new.month = m /\ new.op = o
    OBVIOUS
  <2> HIDE DEF new
  <2>7. IsBasis(b, new)'
    BY <1>2, <2>2, <2>3, <2>4, <2>5, <2>6 DEF IsBasis
  <2> QED BY <1>2, <2>2, <2>7
<1>7. ClosedOnFreshReconciliation'
  <2> HIDE DEF new
  <2>1. \A c \in closures' : \E b \in batches' : IsBasis(b, c)'
    BY <1>2, <1>5, <1>6
  <2> QED BY <2>1 DEF ClosedOnFreshReconciliation, IsBasis
<1>8. LoggedOnce'
  BY <1>2, RowIds DEF FreshInv
<1> QED BY <1>4, <1>7, <1>8 DEF FreshInv

\* Nothing is logged or closed at first.
LEMMA InitFresh == Init => FreshInv
<1> SUFFICES ASSUME Init PROVE FreshInv
  OBVIOUS
<1>1. closures = {} /\ log = << >> /\ revisions = {}
  BY DEF Init
<1>2. PICK m \in [Imported -> 0..FirstMonth], a \in [Imported -> Accounts] :
        txns = [t \in AllTxns |->
                  IF t \in Imported
                  THEN [Absent EXCEPT !.kind = "expense", !.month = m[t], !.from = a[t],
                                      !.amount = 1, !.revision = 1]
                  ELSE Absent]
  BY DEF Init
<1>3. \A b \in Accounts, k \in Months : ~Present(AdjustmentId(b, k))
  BY <1>2, ClientIds DEF Present, Absent
<1>4. KindsMove
  BY <1>1, <1>3 DEF KindsMove
<1> QED BY <1>1, <1>4 DEF FreshInv, LoggedOnce, ClosedOnFreshReconciliation

\* The freshness of the closes is kept by every step, with what it rests on.
LEMMA FreshnessKept == Spec => []FreshInv
<1>1. TypeOK /\ ClosedInOrder /\ AdjustmentsInPlace /\ AuditInv /\ FreshInv /\ [Next]_vars => FreshInv'
  <2> SUFFICES ASSUME TypeOK, ClosedInOrder, AdjustmentsInPlace, AuditInv, FreshInv, [Next]_vars
               PROVE  FreshInv'
    OBVIOUS
  <2>1. ASSUME NEW o \in OpIds \ Logged, NEW s \in Subjects, Write(o, s)
        PROVE  FreshInv'
    <3>1. CASE \E t \in TxnIds, w \in Writes : Create(o, s, t, w)
      BY <3>1, CreateFresh
    <3>2. ASSUME NEW t \in AllTxns, NEW w \in Writes, NEW r, NEW e, Edit(o, s, t, w, r, e)
          PROVE  FreshInv'
      BY <3>2, EditFresh
    <3>3. ASSUME NEW t \in AllTxns, NEW r, NEW e, Delete(o, s, t, r, e)
          PROVE  FreshInv'
      BY <3>3, DeleteFresh
    <3>4. ASSUME NEW m \in Months, NEW observed \in BOOLEAN,
                 NEW after, NEW actual, NEW e, Reconcile(o, s, m, observed, after, actual, e)
          PROVE  FreshInv'
      BY <3>4, ReconcileFresh
    <3>5. ASSUME NEW t \in AllTxns, Correct(o, s, t)
          PROVE  FreshInv'
      <4>1. PICK x : x = Receipt(o, s, [type |-> "correct", txn |-> t], << >>, {})
        OBVIOUS
      <4>2. Commit(x) /\ x.deleted = {} /\ UNCHANGED <<txns, revisions, batches, closures>>
        BY <3>5, <4>1 DEF Correct, Receipt
      <4>3. KindsMove'
        BY <4>2 DEF FreshInv, KindsMove, Present, AdjustmentId, Counts, Involved
      <4> QED BY <4>2, <4>3, FreshKept
    <3>6. ASSUME NEW m \in Months, Close(o, s, m)
          PROVE  FreshInv'
      BY <3>6, CloseFresh
    <3> QED
      BY <2>1, <3>1, <3>2, <3>3, <3>4, <3>5, <3>6 DEF Write
  <2>2. ASSUME UNCHANGED <<txns, revisions, log, batches, closures>>
        PROVE  FreshInv'
    <3>1. LoggedOnce' /\ KindsMove'
      BY <2>2 DEF FreshInv, LoggedOnce, KindsMove, Present, AdjustmentId, Counts, Involved
    <3>2. \A o : RowId(o)' = RowId(o)
      BY <2>2 DEF RowId
    <3>3. \A b, o, c : Between(b, o, c)' <=> Between(b, o, c)
      BY <3>2 DEF Between
    <3>4. \A b, c : IsBasis(b, c) => IsBasis(b, c)'
      BY <2>2, <3>2, <3>3 DEF IsBasis
    <3>5. ClosedOnFreshReconciliation'
      <4>1. \A c \in closures' : \E b \in batches' : IsBasis(b, c)'
        BY <2>2, <3>4, BasisEach DEF FreshInv
      <4> QED BY <4>1 DEF ClosedOnFreshReconciliation, IsBasis
    <3> QED BY <3>1, <3>5 DEF FreshInv
  <2>3. CASE \E o \in Logged, s \in Subjects : \E i \in DOMAIN log : Retry(o, s, log[i].request)
    BY <2>2, <2>3 DEF Retry
  <2>4. CASE NextMonth \/ UNCHANGED vars
    BY <2>2, <2>4 DEF NextMonth, vars
  <2> QED
    BY <2>1, <2>3, <2>4 DEF Next
<1> QED
  BY <1>1, InitFresh, TypeCorrect, MonthsCloseInOrder, AdjustmentsStay, AuditKept, PTL DEF Spec

\* Every month was closed on a reconciliation of all accounts that nothing in
\* between overtook, except entries that are reallocations, as such or because
\* account activity was turned into one after the reconciliation: the check goes
\* by what an entry has become (Close, MovedSince, ReconciliationCurrent).  What
\* is edited, moved to another kind or deleted after the close changes nothing.
THEOREM ClosesRestOnFreshReconciliation == Spec => []ClosedOnFreshReconciliation
<1>1. FreshInv => ClosedOnFreshReconciliation
  BY DEF FreshInv
<1> QED
  BY <1>1, FreshnessKept, PTL

----------------------------------------------------------------------------
(* Balances. *)

\* The sum of the effects of the entries of a table x on account a.
TotalOf(x, a, T) == MapThenSumSet(LAMBDA t : Effect(x[t], a), T)

IsTotalOf(g, x, a, T) ==
  g = [s \in SUBSET T |->
         IF s = {} THEN 0 ELSE Effect(x[Pick(s)], a) + g[s \ {Pick(s)}]]

\* Total is that sum for the table of the state, before and after a step.
LEMMA TotalUnfold ==
  ASSUME NEW a, NEW T
  PROVE  Total(a, T) = TotalOf(txns, a, T) /\ Total(a, T)' = TotalOf(txns', a, T)
BY DEF TotalOf, Total, MapThenSumSet, MapThenFoldSet

\* It is a solution of its recursion, at the set itself.
LEMMA TotalOfUnfold ==
  ASSUME NEW x, NEW a, NEW T
  PROVE  TotalOf(x, a, T) = (CHOOSE g : IsTotalOf(g, x, a, T))[T]
BY DEF TotalOf, MapThenSumSet, MapThenFoldSet, IsTotalOf, Pick

\* The sum of the effects is the sum of any function that gives them.
LEMMA TotalIsSum ==
  ASSUME NEW x, NEW a, NEW T, IsFiniteSet(T), NEW f, \A t \in T : f[t] = Effect(x[t], a)
  PROVE  TotalOf(x, a, T) = SumFunctionOnSet(f, T)
<1>1. ASSUME NEW g, NEW s \in SUBSET T
      PROVE  (IF s = {} THEN 0 ELSE Effect(x[Pick(s)], a) + g[s \ {Pick(s)}]) =
             (IF s = {} THEN 0 ELSE f[Pick(s)] + g[s \ {Pick(s)}])
  <2>1. s # {} => Pick(s) \in s
    BY PickIn
  <2> QED
    BY <2>1
<1>2. ASSUME NEW g
      PROVE  IsTotalOf(g, x, a, T) <=> IsSumOf(g, f, T)
  BY <1>1 DEF IsTotalOf, IsSumOf, IsSum
<1>3. \E g : IsTotalOf(g, x, a, T)
  BY <1>2, SumsExist
<1> DEFINE g == CHOOSE g : IsTotalOf(g, x, a, T)
           h == CHOOSE h : IsSumOf(h, f, T)
<1>4. IsTotalOf(g, x, a, T) /\ IsSumOf(h, f, T)
  BY <1>3, SumsExist
<1>5. TotalOf(x, a, T) = g[T] /\ SumFunctionOnSet(f, T) = h[T]
  BY TotalOfUnfold, SumUnfold
<1> HIDE DEF g, h
<1> QED
  BY <1>2, <1>4, <1>5, SumsAgree

\* There are finitely many ids.
LEMMA IdsFinite == IsFiniteSet(AllTxns)
<1>1. IsFiniteSet(Months)
  BY ConstantsAssumption, FS_Interval DEF Months
<1>2. IsFiniteSet(Accounts \X Months)
  BY <1>1, ConstantsAssumption, FS_Product
<1>3. IsFiniteSet(TxnIds \cup Imported)
  BY ConstantsAssumption, FS_Union
<1> QED
  BY <1>2, <1>3, FS_Union DEF AllTxns

\* The effects of every entry of the table x on account a.
Effects(x, a) == [t \in AllTxns |-> Effect(x[t], a)]

\* Total as a sum of a function, over any set of ids.
LEMMA TotalSums ==
  ASSUME NEW a, NEW T, T \subseteq AllTxns
  PROVE  /\ Total(a, T) = SumFunctionOnSet(Effects(txns, a), T)
         /\ Total(a, T)' = SumFunctionOnSet(Effects(txns', a), T)
<1>1. IsFiniteSet(T)
  BY IdsFinite, FS_Subset
<1>2. ASSUME NEW x
      PROVE  TotalOf(x, a, T) = SumFunctionOnSet(Effects(x, a), T)
  <2>1. \A t \in T : Effects(x, a)[t] = Effect(x[t], a)
    BY DEF Effects
  <2> QED
    BY <1>1, <2>1, TotalIsSum
<1> QED
  BY <1>2, TotalUnfold

\* Money is counted in whole cents, and an adjustment takes the difference
\* between the ledger and an observation from its own account.
AdjustmentOf(e, a) ==
  /\ e.kind \in {"absent", "reconciliation"} /\ e.to = External
  /\ e.from = a \/ (e.from = External /\ e.amount = 0)

CentsInv ==
  /\ \A t \in AllTxns : txns[t].amount \in Int /\ (Present(t) \/ txns[t] = Absent)
  /\ \A a \in Accounts, m \in Months : AdjustmentOf(txns[AdjustmentId(a, m)], a)

BalanceInv == CentsInv /\ BalanceMatchesLedger

\* An entry with a whole amount has a whole effect, none on the accounts it
\* does not involve.
LEMMA EffectInt ==
  ASSUME NEW e, e.amount \in Int, NEW a \in Accounts
  PROVE  /\ Effect(e, a) \in Int
         /\ a \notin Involved(e) => Effect(e, a) = 0
BY DEF Effect, Involved

\* No row, no effect.
LEMMA AbsentEffect ==
  ASSUME NEW a \in Accounts
  PROVE  Effect(Absent, a) = 0
BY ConstantsAssumption DEF Effect, Absent

\* What a create or edit stores has a whole amount.
LEMMA PostedAmount ==
  ASSUME NEW w \in Writes, NEW r
  PROVE  Posted(w, r).amount \in Int
<1>1. w.amount \in Amounts
  BY DEF Writes
<1>2. \A x \in Amounts : x \in Int
  BY ConstantsAssumption
<1>3. w.amount \in Int
  BY <1>1, <1>2
<1> QED
  BY <1>3 DEF Posted

\* What a create or edit stores is a row.
LEMMA WriteKind ==
  ASSUME NEW w \in Writes, NEW r
  PROVE  Posted(w, r).kind \in EditableKinds /\ Posted(w, r).kind # "absent"
BY DEF Posted, Writes, EditableKinds

\* What changing the entry of one id does to the total of an account.
LEMMA TotalChange ==
  ASSUME NEW a \in Accounts, NEW u \in AllTxns,
         \A t \in AllTxns : txns[t].amount \in Int /\ txns'[t].amount \in Int,
         \A t \in AllTxns \ {u} : Effect(txns'[t], a) = Effect(txns[t], a)
  PROVE  /\ Total(a, AllTxns) \in Int
         /\ Total(a, AllTxns)' =
              Total(a, AllTxns) - Effect(txns[u], a) + Effect(txns'[u], a)
<1> DEFINE f == Effects(txns, a)
           g == Effects(txns', a)
<1>1. \A t \in AllTxns : f[t] = Effect(txns[t], a) /\ g[t] = Effect(txns'[t], a)
  BY DEF Effects
<1>2. \A t \in AllTxns : f[t] \in Int /\ g[t] \in Int
  BY <1>1, EffectInt
<1>3. \A t \in AllTxns \ {u} : g[t] = f[t]
  BY <1>1
<1>4. /\ Total(a, AllTxns) = SumFunctionOnSet(f, AllTxns)
      /\ Total(a, AllTxns)' = SumFunctionOnSet(g, AllTxns)
  BY TotalSums
<1> HIDE DEF f, g
<1>5. SumFunctionOnSet(g, AllTxns) = SumFunctionOnSet(f, AllTxns) - f[u] + g[u]
  BY <1>2, <1>3, IdsFinite, SumChange
<1>6. SumFunctionOnSet(f, AllTxns) \in Int
  BY <1>2, IdsFinite, SumType
<1> QED
  BY <1>1, <1>4, <1>5, <1>6

\* The total stays when no entry's effect on the account changes.
LEMMA TotalSame ==
  ASSUME NEW a, NEW T, T \subseteq AllTxns,
         \A t \in T : Effect(txns'[t], a) = Effect(txns[t], a)
  PROVE  Total(a, T)' = Total(a, T)
<1>1. \A t \in T : Effects(txns', a)[t] = Effects(txns, a)[t]
  BY DEF Effects
<1>2. IsFiniteSet(T)
  BY IdsFinite, FS_Subset
<1> QED
  BY <1>1, <1>2, SumAgree, TotalSums

\* Totals of the ledger are whole amounts.
LEMMA TotalInt ==
  ASSUME NEW a \in Accounts, NEW T, T \subseteq AllTxns, CentsInv
  PROVE  Total(a, T) \in Int
<1>1. \A t \in T : Effects(txns, a)[t] \in Int
  BY EffectInt DEF Effects, CentsInv
<1>2. IsFiniteSet(T)
  BY IdsFinite, FS_Subset
<1> QED
  BY <1>1, <1>2, SumType, TotalSums

\* Replacing one entry and posting the difference of the effects keeps the
\* balances on the ledger.
LEMMA PostBalance ==
  ASSUME TypeOK, BalanceInv, NEW u \in AllTxns, NEW new, new.amount \in Int,
         txns' = [txns EXCEPT ![u] = new],
         \A a \in Accounts, m \in Months : u # AdjustmentId(a, m),
         new.kind # "absent" \/ new = Absent,
         NEW d, PostDeltas(d),
         \A a \in Accounts : d[a] = Effect(new, a) - Effect(txns[u], a)
  PROVE  BalanceInv'
<1>1. /\ DOMAIN txns = AllTxns
      /\ txns'[u] = new /\ \A t \in AllTxns \ {u} : txns'[t] = txns[t]
  BY DEF TypeOK
<1>2. \A t \in AllTxns : txns[t].amount \in Int /\ txns'[t].amount \in Int
  BY <1>1 DEF BalanceInv, CentsInv
<1>3. CentsInv'
  <2>1. \A a \in Accounts, m \in Months : txns'[AdjustmentId(a, m)] = txns[AdjustmentId(a, m)]
    BY <1>1, ClientIds
  <2> QED
    BY <1>1, <1>2, <2>1 DEF BalanceInv, CentsInv, AdjustmentOf, AdjustmentId, Present
<1>4. ASSUME NEW a \in Accounts
      PROVE  balance'[a] \in Int /\ balance'[a] = Opening[a] + Total(a, AllTxns)'
  <2>1. /\ Total(a, AllTxns) \in Int
        /\ Total(a, AllTxns)' = Total(a, AllTxns) - Effect(txns[u], a) + Effect(new, a)
    BY <1>1, <1>2, TotalChange
  <2>2. Effect(new, a) \in Int /\ Effect(txns[u], a) \in Int
    BY <1>2, EffectInt
  <2>3. balance[a] \in Int /\ balance[a] = Opening[a] + Total(a, AllTxns) /\ Opening[a] \in Int
    BY ConstantsAssumption DEF BalanceInv, BalanceMatchesLedger
  <2>4. balance'[a] = IF d[a] # 0 THEN balance[a] + d[a] ELSE balance[a]
    BY DEF PostDeltas, Touched
  <2>5. d[a] = Effect(new, a) - Effect(txns[u], a)
    OBVIOUS
  <2> HIDE DEF Effect
  <2> QED
    BY <2>1, <2>2, <2>3, <2>4, <2>5
<1> QED
  BY <1>3, <1>4 DEF BalanceInv, BalanceMatchesLedger

\* A create adds the effect of the new entry to the balances.
LEMMA CreateBalance ==
  ASSUME TypeOK, BalanceInv, NEW o, NEW s, NEW t \in TxnIds, NEW w \in Writes,
         Create(o, s, t, w)
  PROVE  BalanceInv'
<1> DEFINE new == Posted(w, 1)
           delta == [a \in Accounts |-> Effect(new, a)]
<1>1. /\ txns' = [txns EXCEPT ![t] = new] /\ PostDeltas(delta) /\ ~Present(t)
  BY DEF Create
<1>2. t \in AllTxns /\ \A a \in Accounts, m \in Months : t # AdjustmentId(a, m)
  BY ClientIds DEF AllTxns
<1>3. new.amount \in Int /\ new.kind # "absent"
  BY PostedAmount, WriteKind
<1>4. ASSUME NEW a \in Accounts
      PROVE  delta[a] = Effect(new, a) - Effect(txns[t], a)
  <2>1. Effect(new, a) \in Int
    BY <1>3, EffectInt
  <2>2. Effect(txns[t], a) = 0
    BY <1>1, <1>2, AbsentEffect DEF BalanceInv, CentsInv
  <2> HIDE DEF new
  <2> QED
    BY <2>1, <2>2
<1> HIDE DEF new, delta
<1> QED
  BY <1>1, <1>2, <1>3, <1>4, PostBalance

\* An edit adds the difference between the new effect and the old one.
LEMMA EditBalance ==
  ASSUME TypeOK, BalanceInv, NEW o, NEW s, NEW t \in AllTxns, NEW w \in Writes,
         NEW r, NEW e, Edit(o, s, t, w, r, e)
  PROVE  BalanceInv'
<1> DEFINE old == txns[t]
           new == Posted(w, old.revision + 1)
           delta == [a \in Accounts |-> Effect(new, a) - Effect(old, a)]
<1>1. /\ txns' = [txns EXCEPT ![t] = new] /\ PostDeltas(delta) /\ old.kind \in EditableKinds
  BY DEF Edit
<1>2. \A a \in Accounts, m \in Months : t # AdjustmentId(a, m)
  BY <1>1, ClientIds DEF BalanceInv, CentsInv, AdjustmentOf, EditableKinds
<1>3. /\ new.amount \in Int /\ new.kind # "absent"
      /\ \A a \in Accounts : delta[a] = Effect(new, a) - Effect(txns[t], a)
  BY PostedAmount, WriteKind
<1> HIDE DEF new, delta
<1> QED
  BY <1>1, <1>2, <1>3, PostBalance

\* A deletion takes back the effect of the entry.
LEMMA DeleteBalance ==
  ASSUME TypeOK, BalanceInv, NEW o, NEW s, NEW t \in AllTxns,
         NEW r, NEW e, Delete(o, s, t, r, e)
  PROVE  BalanceInv'
<1> DEFINE old == txns[t]
           delta == [a \in Accounts |-> -Effect(old, a)]
<1>1. /\ txns' = [txns EXCEPT ![t] = Absent] /\ PostDeltas(delta) /\ old.kind \in EditableKinds
  BY DEF Delete
<1>2. \A a \in Accounts, m \in Months : t # AdjustmentId(a, m)
  BY <1>1, ClientIds DEF BalanceInv, CentsInv, AdjustmentOf, EditableKinds
<1>3. Absent.amount \in Int
  BY DEF Absent
<1>4. ASSUME NEW a \in Accounts
      PROVE  delta[a] = Effect(Absent, a) - Effect(txns[t], a)
  <2>1. Effect(txns[t], a) \in Int
    BY EffectInt DEF BalanceInv, CentsInv
  <2> QED
    BY <2>1, AbsentEffect
<1> HIDE DEF delta
<1> QED
  BY <1>1, <1>2, <1>3, <1>4, PostBalance

\* Replacing the adjustment by the difference to the observation puts the
\* balance of each account where it was observed.
LEMMA ReconcileBalance ==
  ASSUME TypeOK, BalanceInv, NEW o, NEW s, NEW m \in Months,
         NEW observed, NEW after, NEW actual, \A a \in DOMAIN actual : actual[a] \in Int,
         NEW e, Reconcile(o, s, m, observed, after, actual, e)
  PROVE  BalanceInv'
<1> DEFINE A == DOMAIN actual
           ids == {AdjustmentId(a, m) : a \in A}
           target == [a \in A |-> actual[a] + Total(a, after)]
           change == [a \in A |-> BaseBalance(a, m) - target[a]]
<1>1. /\ A \subseteq Accounts /\ after \subseteq AllTxns
      /\ balance' = [a \in Accounts |-> IF a \in A THEN target[a] ELSE balance[a]]
      /\ \A t \in AllTxns \ ids : txns'[t] = txns[t]
  BY DEF Reconcile, Later
<1>2. ASSUME NEW a \in A
      PROVE  /\ target[a] \in Int /\ change[a] \in Int
             /\ change[a] = balance[a] + txns[AdjustmentId(a, m)].amount - target[a]
  <2>1. Total(a, after) \in Int
    BY <1>1, TotalInt DEF BalanceInv
  <2>2. balance[a] \in Int /\ txns[AdjustmentId(a, m)].amount \in Int
    BY <1>1, ClientIds DEF BalanceInv, BalanceMatchesLedger, CentsInv
  <2> QED
    BY <2>1, <2>2 DEF BaseBalance
<1>3. ASSUME NEW a \in A
      PROVE  /\ AdjustmentId(a, m) \in AllTxns
             /\ txns'[AdjustmentId(a, m)] = Adjusted(a, m, change[a])
  <2>1. AdjustmentId(a, m) \in AllTxns /\ AdjustmentId(a, m)[1] = a
    BY <1>1, ClientIds DEF AdjustmentId
  <2> QED
    BY <2>1 DEF Reconcile
<1> HIDE DEF target, change
<1>4. CentsInv'
  <2>1. \A t \in AllTxns : txns'[t].amount \in Int /\ (txns'[t].kind # "absent" \/ txns'[t] = Absent)
    <3> SUFFICES ASSUME NEW t \in AllTxns
                 PROVE  txns'[t].amount \in Int /\ (txns'[t].kind # "absent" \/ txns'[t] = Absent)
      OBVIOUS
    <3>1. CASE t \in ids
      <4>1. PICK c \in A : t = AdjustmentId(c, m)
        BY <3>1
      <4>2. txns'[t] = Adjusted(c, m, change[c]) /\ change[c] \in Int
        BY <4>1, <1>2, <1>3
      <4> QED
        BY <4>2 DEF Adjusted
    <3>2. CASE t \notin ids
      BY <3>2, <1>1 DEF BalanceInv, CentsInv, Present
    <3> QED
      BY <3>1, <3>2
  <2>2. ASSUME NEW a \in Accounts, NEW k \in Months
        PROVE  AdjustmentOf(txns'[AdjustmentId(a, k)], a)
    <3>1. CASE a \in A /\ k = m
      <4>1. txns'[AdjustmentId(a, k)] = Adjusted(a, m, change[a])
        BY <3>1, <1>3
      <4> QED
        BY <4>1 DEF Adjusted, AdjustmentOf
    <3>2. CASE ~(a \in A /\ k = m)
      <4>1. AdjustmentId(a, k) \in AllTxns \ ids
        BY <3>2, ClientIds DEF AdjustmentId
      <4> QED
        BY <4>1, <1>1 DEF BalanceInv, CentsInv
    <3> QED
      BY <3>1, <3>2
  <2> QED
    BY <2>1, <2>2 DEF CentsInv, Present, AdjustmentId
<1>5. \A t \in AllTxns : txns[t].amount \in Int /\ txns'[t].amount \in Int
  BY <1>4 DEF BalanceInv, CentsInv
<1>6. ASSUME NEW a \in Accounts
      PROVE  balance'[a] \in Int /\ balance'[a] = Opening[a] + Total(a, AllTxns)'
  <2> DEFINE u == AdjustmentId(a, m)
  <2>0. u \in AllTxns
    BY ClientIds
  <2>1. ASSUME NEW t \in AllTxns \ {u}
        PROVE  Effect(txns'[t], a) = Effect(txns[t], a)
    <3>1. CASE t \in ids
      <4>1. PICK c \in A : t = AdjustmentId(c, m) /\ c # a
        BY <3>1, <2>1
      <4>2. AdjustmentOf(txns[t], c) /\ AdjustmentOf(txns'[t], c)
        BY <4>1, <1>1, <1>4 DEF BalanceInv, CentsInv, AdjustmentId
      <4>3. External # a
        BY ConstantsAssumption
      <4> QED
        BY <4>1, <4>2, <4>3 DEF AdjustmentOf, Effect
    <3>2. CASE t \notin ids
      BY <3>2, <1>1
    <3> QED
      BY <3>1, <3>2
  <2>2. /\ Total(a, AllTxns) \in Int
        /\ Total(a, AllTxns)' = Total(a, AllTxns) - Effect(txns[u], a) + Effect(txns'[u], a)
    BY <1>5, <2>0, <2>1, TotalChange
  <2>3. balance[a] \in Int /\ balance[a] = Opening[a] + Total(a, AllTxns) /\ Opening[a] \in Int
    BY ConstantsAssumption DEF BalanceInv, BalanceMatchesLedger
  <2>4. CASE a \in A
    <3>1. Effect(txns[u], a) = -txns[u].amount
      <4>1. AdjustmentOf(txns[u], a) /\ txns[u].amount \in Int
        BY <2>0 DEF BalanceInv, CentsInv
      <4> QED
        BY <4>1, ConstantsAssumption DEF AdjustmentOf, Effect
    <3>2. Effect(txns'[u], a) = -change[a]
      <4>1. txns'[u] = Adjusted(a, m, change[a]) /\ change[a] \in Int
        BY <1>2, <1>3, <2>4
      <4> QED
        BY <4>1, ConstantsAssumption DEF Adjusted, Effect
    <3>3. balance'[a] = target[a]
      BY <1>1, <2>4
    <3>4. /\ target[a] \in Int /\ txns[u].amount \in Int
          /\ change[a] = balance[a] + txns[u].amount - target[a]
      BY <1>2, <1>5, <2>0, <2>4
    <3> HIDE DEF Effect, u
    <3> QED
      BY <2>2, <2>3, <3>1, <3>2, <3>3, <3>4
  <2>5. CASE a \notin A
    <3>1. u \notin ids
      BY <2>5 DEF AdjustmentId
    <3>2. txns'[u] = txns[u] /\ balance'[a] = balance[a]
      BY <1>1, <2>0, <2>5, <3>1
    <3>3. Effect(txns[u], a) \in Int
      BY <1>5, <2>0, EffectInt
    <3> HIDE DEF u
    <3> QED
      BY <2>2, <2>3, <3>2, <3>3
  <2> QED
    BY <2>4, <2>5
<1> QED
  BY <1>4, <1>6 DEF BalanceInv, BalanceMatchesLedger

\* Who leaves entries and balances alone leaves them on the ledger.
LEMMA QuietBalance ==
  ASSUME BalanceInv, txns' = txns, balance' = balance
  PROVE  BalanceInv'
<1>1. \A a \in Accounts : Total(a, AllTxns)' = Total(a, AllTxns)
  BY TotalSame
<1> QED
  BY <1>1 DEF BalanceInv, BalanceMatchesLedger, CentsInv, Present, AdjustmentId, AdjustmentOf

\* No step puts a balance beside the ledger.
LEMMA NextBalance ==
  ASSUME TypeOK, BalanceInv, [Next]_vars
  PROVE  BalanceInv'
<1>1. ASSUME NEW o \in OpIds \ Logged, NEW s \in Subjects, Write(o, s)
      PROVE  BalanceInv'
  <2>1. CASE \E t \in TxnIds, w \in Writes : Create(o, s, t, w)
    BY <2>1, CreateBalance
  <2>2. ASSUME NEW t \in AllTxns, NEW w \in Writes, NEW r, NEW e, Edit(o, s, t, w, r, e)
        PROVE  BalanceInv'
    BY <2>2, EditBalance
  <2>3. ASSUME NEW t \in AllTxns, NEW r, NEW e, Delete(o, s, t, r, e)
        PROVE  BalanceInv'
    BY <2>3, DeleteBalance
  <2>4. ASSUME NEW m \in Months, NEW observed \in BOOLEAN, NEW A \in SUBSET Accounts,
               NEW after, NEW actual \in [A -> Observations], NEW e,
               Reconcile(o, s, m, observed, after, actual, e)
        PROVE  BalanceInv'
    <3>1. \A a \in DOMAIN actual : actual[a] \in Int
      BY ConstantsAssumption
    <3> QED
      BY <2>4, <3>1, ReconcileBalance
  <2>5. CASE \/ \E t \in AllTxns : Correct(o, s, t)
             \/ \E m \in Months : Close(o, s, m)
    BY <2>5, QuietBalance DEF Correct, Close
  <2> QED
    BY <1>1, <2>1, <2>2, <2>3, <2>4, <2>5 DEF Write
<1>2. CASE \E o \in Logged, s \in Subjects : \E i \in DOMAIN log : Retry(o, s, log[i].request)
  BY <1>2, QuietBalance DEF Retry
<1>3. CASE NextMonth \/ UNCHANGED vars
  BY <1>3, QuietBalance DEF NextMonth, vars
<1> QED
  BY <1>1, <1>2, <1>3 DEF Next

\* The imported balances include the imported entries.
LEMMA InitBalance == Init => BalanceInv
<1> SUFFICES ASSUME Init PROVE BalanceInv
  OBVIOUS
<1>1. PICK m \in [Imported -> 0..FirstMonth], a \in [Imported -> Accounts] :
        txns = [t \in AllTxns |->
                  IF t \in Imported
                  THEN [Absent EXCEPT !.kind = "expense", !.month = m[t], !.from = a[t],
                                      !.amount = 1, !.revision = 1]
                  ELSE Absent]
  BY DEF Init
<1>2. \A t \in AllTxns \ Imported : txns[t] = Absent
  BY <1>1
<1>3. \A t \in AllTxns \cap Imported : txns[t].amount = 1 /\ txns[t].kind = "expense"
  BY <1>1 DEF Absent
<1>4. CentsInv
  <2>1. \A t \in AllTxns : txns[t].amount \in Int /\ (Present(t) \/ txns[t] = Absent)
    <3> SUFFICES ASSUME NEW t \in AllTxns
                 PROVE  txns[t].amount \in Int /\ (Present(t) \/ txns[t] = Absent)
      OBVIOUS
    <3>1. CASE t \in Imported
      BY <1>3, <3>1 DEF Present
    <3>2. CASE t \notin Imported
      <4>1. Absent.amount \in Int
        BY DEF Absent
      <4> QED
        BY <1>2, <3>2, <4>1
    <3> QED
      BY <3>1, <3>2
  <2>2. \A c \in Accounts, k \in Months : AdjustmentOf(txns[AdjustmentId(c, k)], c)
    BY <1>2, ClientIds DEF AdjustmentOf, Absent
  <2> QED
    BY <2>1, <2>2 DEF CentsInv
<1>5. ASSUME NEW c \in Accounts
      PROVE  balance[c] \in Int /\ balance[c] = Opening[c] + Total(c, AllTxns)
  <2>1. Total(c, AllTxns) \in Int
    BY <1>4, TotalInt
  <2>2. Opening[c] \in Int /\ balance[c] = Opening[c] + Total(c, AllTxns)
    BY ConstantsAssumption DEF Init
  <2> QED
    BY <2>1, <2>2
<1> QED
  BY <1>4, <1>5 DEF BalanceInv, BalanceMatchesLedger

\* Amounts stay whole, adjustments stay on their account and the balances on the
\* ledger (PostDeltas, Reconcile).
THEOREM BalanceKept == Spec => []BalanceInv
<1>1. Init => BalanceInv
  BY InitBalance
<1>2. TypeOK /\ BalanceInv /\ [Next]_vars => BalanceInv'
  BY NextBalance
<1> QED
  BY <1>1, <1>2, TypeCorrect, PTL DEF Spec

\* The balance a handler maintains step by step is always the opening balance plus
\* the effect of every entry in the table (PostDeltas, BaseBalance, Adjusted): no
\* order of creates, edits, deletions and reconciliations makes it drift.
THEOREM BalancesMatch == Spec => []BalanceMatchesLedger
BY BalanceKept, PTL DEF BalanceInv

----------------------------------------------------------------------------
(* Reconciliations that are still current. *)

\* Some revision of an entry moved the account.
AnyMoved(rows, a) == \E r \in rows : a \in Involved(r.entry)

\* Since the batch, an entry dated in its period that once moved account a was
\* created, edited, adjusted or deleted.
MovedOn(b, a) ==
  \/ \E t \in AllTxns :
       /\ Present(t) /\ txns[t].month <= b.month
       /\ AnyMoved(RowsOf(t), a) /\ \E r \in RowsOf(t) : RowId(r.op) > RowId(b.op)
  \/ \E i \in DOMAIN log :
       /\ i > RowId(b.op)
       /\ \E d \in log[i].deleted : d.entry.month <= b.month /\ AnyMoved(d.audit, a)

\* An observed closing balance is the ledger's month end, or something since moved
\* that very account.
TracksLedger(b, a) == MonthEnd(a, b.month) = b.items[a].closing \/ MovedOn(b, a)

Tracked ==
  \A b \in batches : b.observed => \A a \in DOMAIN b.items : TracksLedger(b, a)

\* Only a reallocation moves no account.
Moving(e) == e.kind \in {"absent", "reallocate"} \/ Involved(e) # {}

BatchInv == Tracked /\ \A t \in AllTxns : Moving(txns[t])

\* Totals of a table over disjoint sets of ids.
LEMMA SplitTotal ==
  ASSUME NEW x, \A t \in AllTxns : x[t].amount \in Int, NEW a \in Accounts,
         NEW T, NEW U, T \subseteq AllTxns, U \subseteq AllTxns, T \cap U = {}
  PROVE  /\ TotalOf(x, a, T \cup U) = TotalOf(x, a, T) + TotalOf(x, a, U)
         /\ TotalOf(x, a, T) \in Int /\ TotalOf(x, a, U) \in Int
<1> DEFINE f == Effects(x, a)
<1>1. \A t \in AllTxns : f[t] = Effect(x[t], a) /\ f[t] \in Int
  BY EffectInt DEF Effects
<1>2. IsFiniteSet(T) /\ IsFiniteSet(U) /\ IsFiniteSet(T \cup U)
  BY IdsFinite, FS_Subset, FS_Union
<1> HIDE DEF f
<1>3. /\ TotalOf(x, a, T) = SumFunctionOnSet(f, T)
      /\ TotalOf(x, a, U) = SumFunctionOnSet(f, U)
      /\ TotalOf(x, a, T \cup U) = SumFunctionOnSet(f, T \cup U)
  <2>1. /\ \A t \in T : f[t] = Effect(x[t], a)
        /\ \A t \in U : f[t] = Effect(x[t], a)
        /\ \A t \in T \cup U : f[t] = Effect(x[t], a)
    BY <1>1
  <2> QED
    BY <1>2, <2>1, TotalIsSum
<1>4. SumFunctionOnSet(f, T \cup U) = SumFunctionOnSet(f, T) + SumFunctionOnSet(f, U)
  BY <1>1, <1>2, SumUnion
<1>5. SumFunctionOnSet(f, T) \in Int /\ SumFunctionOnSet(f, U) \in Int
  BY <1>1, <1>2, SumType
<1> QED
  BY <1>3, <1>4, <1>5

\* The month end, before and after a step, as a total of the table.
Early(x, m) == {t \in AllTxns : x[t].month <= m}

\* Both are what MonthEnd says.
LEMMA MonthEndUnfold ==
  ASSUME NEW a, NEW m
  PROVE  /\ MonthEnd(a, m) = Opening[a] + TotalOf(txns, a, Early(txns, m))
         /\ MonthEnd(a, m)' = Opening[a] + TotalOf(txns', a, Early(txns', m))
BY DEF MonthEnd, Early, TotalOf, Total, MapThenSumSet, MapThenFoldSet

\* What an entry contributes to the month end.
Dated(e, a, m) == IF e.month <= m THEN Effect(e, a) ELSE 0

\* A month end adds up what every entry of the table contributes to it.
LEMMA DatedTotal ==
  ASSUME NEW x, \A t \in AllTxns : x[t].amount \in Int, NEW a \in Accounts, NEW m
  PROVE  TotalOf(x, a, Early(x, m)) =
           SumFunctionOnSet([t \in AllTxns |-> Dated(x[t], a, m)], AllTxns)
<1> DEFINE f == [t \in AllTxns |-> Dated(x[t], a, m)]
           S == Early(x, m)
           R == AllTxns \ S
<1>1. /\ \A t \in S : f[t] = Effect(x[t], a)
      /\ \A t \in R : f[t] = 0
      /\ \A t \in AllTxns : f[t] \in Int
  BY EffectInt DEF Early, Dated
<1>2. S \cup R = AllTxns /\ S \cap R = {}
  BY DEF Early
<1>3. IsFiniteSet(S) /\ IsFiniteSet(R)
  BY <1>2, IdsFinite, FS_Subset
<1> HIDE DEF f, S, R
<1>4. SumFunctionOnSet(f, AllTxns) = SumFunctionOnSet(f, S) + SumFunctionOnSet(f, R)
  BY <1>1, <1>2, <1>3, SumUnion
<1>5. SumFunctionOnSet(f, R) = 0 /\ SumFunctionOnSet(f, S) \in Int
  BY <1>1, <1>2, <1>3, SumZero, SumType
<1>6. TotalOf(x, a, S) = SumFunctionOnSet(f, S)
  BY <1>1, <1>3, TotalIsSum
<1> QED
  BY <1>4, <1>5, <1>6 DEF f, S

\* A month end only depends on what each entry contributes.
LEMMA MonthEndSame ==
  ASSUME NEW a \in Accounts, NEW m, CentsInv, CentsInv',
         \A t \in AllTxns : Dated(txns'[t], a, m) = Dated(txns[t], a, m)
  PROVE  MonthEnd(a, m)' = MonthEnd(a, m)
<1> DEFINE f == [t \in AllTxns |-> Dated(txns[t], a, m)]
           g == [t \in AllTxns |-> Dated(txns'[t], a, m)]
<1>1. TotalOf(txns, a, Early(txns, m)) = SumFunctionOnSet(f, AllTxns)
  BY DatedTotal DEF CentsInv
<1>2. TotalOf(txns', a, Early(txns', m)) = SumFunctionOnSet(g, AllTxns)
  BY DatedTotal DEF CentsInv
<1>3. f = g
  OBVIOUS
<1> HIDE DEF f, g
<1> QED
  BY <1>1, <1>2, <1>3, MonthEndUnfold

\* The table remembers what it knew of entry t: its row and audit stay, in its
\* month, or the receipt x of its deletion keeps them.
Remembers(t, x) ==
  Present(t) =>
    \/ Present(t)' /\ txns'[t].month = txns[t].month /\ RowsOf(t) \subseteq RowsOf(t)'
    \/ \E d \in x.deleted : d.entry = txns[t] /\ d.audit = RowsOf(t)

\* The step leaves what entry t contributes to account a alone, or x is the
\* receipt of an operation that the audit of t, or of its deletion, names.
Tells(t, a, x) ==
  \/ /\ Effect(txns'[t], a) = Effect(txns[t], a)
     /\ Effect(txns[t], a) = 0 \/ txns'[t].month = txns[t].month
  \/ /\ Present(t)' /\ AnyMoved(RowsOf(t)', a)
     /\ \E r \in RowsOf(t)' : r.op = x.op
     /\ Effect(txns[t], a) = 0 \/ txns'[t].month = txns[t].month
  \/ /\ Effect(txns'[t], a) = 0
     /\ \E d \in x.deleted : d.entry = txns[t] /\ AnyMoved(d.audit, a)

\* What moved an account since a batch is not forgotten.
LEMMA MovedStays ==
  ASSUME TypeOK, LoggedOnce, NEW x, Commit(x), \A t \in AllTxns : Remembers(t, x),
         NEW b \in batches, NEW a, MovedOn(b, a)
  PROVE  MovedOn(b, a)'
<1>1. RowId(b.op)' = RowId(b.op) /\ RowId(b.op) \in 1..Len(log) /\ Len(log) \in Nat
  BY RowIds DEF TypeOK, IsBatch
<1>2. CASE \E i \in DOMAIN log :
             /\ i > RowId(b.op)
             /\ \E d \in log[i].deleted : d.entry.month <= b.month /\ AnyMoved(d.audit, a)
  <2>1. \A i \in DOMAIN log : i \in DOMAIN log' /\ log'[i] = log[i]
    BY RowIds
  <2> QED
    BY <1>1, <1>2, <2>1 DEF MovedOn, AnyMoved, Involved
<1>3. CASE \E t \in AllTxns :
             /\ Present(t) /\ txns[t].month <= b.month
             /\ AnyMoved(RowsOf(t), a) /\ \E r \in RowsOf(t) : RowId(r.op) > RowId(b.op)
  <2>0. PICK t \in AllTxns :
          /\ Present(t) /\ txns[t].month <= b.month /\ AnyMoved(RowsOf(t), a)
          /\ \E r \in RowsOf(t) : RowId(r.op) > RowId(b.op)
    BY <1>3
  <2>1. PICK r \in RowsOf(t) : RowId(r.op) > RowId(b.op)
    BY <2>0
  <2>2. RowId(r.op)' = RowId(r.op)
    BY RowIds DEF TypeOK, IsRow, RowsOf
  <2>3. CASE Present(t)' /\ txns'[t].month = txns[t].month /\ RowsOf(t) \subseteq RowsOf(t)'
    <3>1. AnyMoved(RowsOf(t)', a)
      BY <2>0, <2>3 DEF AnyMoved
    <3>2. r \in RowsOf(t)'
      BY <2>3
    <3> QED
      BY <1>1, <2>0, <2>1, <2>2, <2>3, <3>1, <3>2 DEF MovedOn, AnyMoved, Involved
  <2>4. CASE \E d \in x.deleted : d.entry = txns[t] /\ d.audit = RowsOf(t)
    <3>1. /\ Len(log) + 1 \in DOMAIN log' /\ log'[Len(log) + 1] = x
          /\ Len(log) + 1 > RowId(b.op)'
      BY <1>1, RowIds
    <3> QED
      BY <2>0, <2>4, <3>1 DEF MovedOn, AnyMoved, Involved
  <2> QED
    BY <2>0, <2>3, <2>4 DEF Remembers
<1> QED
  BY <1>2, <1>3 DEF MovedOn

\* A step that tells what it changes keeps every earlier batch tracked.
LEMMA StaysTracked ==
  ASSUME TypeOK, LoggedOnce, CentsInv, CentsInv', Tracked, NEW x, Commit(x),
         \A t \in AllTxns : Remembers(t, x),
         \A t \in AllTxns, a \in Accounts : Tells(t, a, x),
         NEW b \in batches, b.observed, NEW a \in DOMAIN b.items
  PROVE  TracksLedger(b, a)'
<1>0. a \in Accounts
  BY DEF TypeOK, IsBatch
<1>1. CASE \A t \in AllTxns : Dated(txns'[t], a, b.month) = Dated(txns[t], a, b.month)
  <2>1. MonthEnd(a, b.month)' = MonthEnd(a, b.month)
    BY <1>0, <1>1, MonthEndSame
  <2>2. TracksLedger(b, a)
    BY DEF Tracked
  <2>3. MovedOn(b, a) => MovedOn(b, a)'
    BY MovedStays
  <2> QED
    BY <2>1, <2>2, <2>3 DEF TracksLedger
<1>2. ASSUME NEW t \in AllTxns, Dated(txns'[t], a, b.month) # Dated(txns[t], a, b.month)
      PROVE  MovedOn(b, a)'
  <2>1. /\ RowId(b.op)' \in 1..Len(log) /\ Len(log) \in Nat /\ RowId(x.op)' = Len(log) + 1
        /\ Len(log) + 1 \in DOMAIN log' /\ log'[Len(log) + 1] = x
    BY RowIds DEF TypeOK, IsBatch
  <2>2. CASE /\ Present(t)' /\ AnyMoved(RowsOf(t)', a)
             /\ \E r \in RowsOf(t)' : r.op = x.op
             /\ Effect(txns[t], a) = 0 \/ txns'[t].month = txns[t].month
    <3>1. txns'[t].month <= b.month
      BY <1>2, <2>2 DEF Dated
    <3> QED
      BY <2>1, <2>2, <3>1 DEF MovedOn, AnyMoved, Involved
  <2>3. CASE /\ Effect(txns'[t], a) = 0
             /\ \E d \in x.deleted : d.entry = txns[t] /\ AnyMoved(d.audit, a)
    <3>1. txns[t].month <= b.month
      BY <1>2, <2>3 DEF Dated
    <3> QED
      BY <2>1, <2>3, <3>1 DEF MovedOn, AnyMoved, Involved
  <2>4. ~(/\ Effect(txns'[t], a) = Effect(txns[t], a)
          /\ Effect(txns[t], a) = 0 \/ txns'[t].month = txns[t].month)
    BY <1>2 DEF Dated
  <2> QED
    BY <1>0, <2>2, <2>3, <2>4 DEF Tells
<1> QED
  BY <1>1, <1>2 DEF TracksLedger

\* The row of an edited or deleted entry's current revision.
LEMMA CurrentRow ==
  ASSUME AuditInv, NEW t \in AllTxns \ Imported, txns[t].revision \in Nat \ {0}
  PROVE  \E r \in RowsOf(t) : r.entry = txns[t]
<1>1. AuditOf(RowsOf(t), txns[t])
  BY DEF AuditInv, RevisionAudit
<1>2. txns[t].revision \in {r.entry.revision : r \in RowsOf(t)}
  BY <1>1 DEF AuditOf
<1>3. PICK r \in RowsOf(t) : r.entry.revision = txns[t].revision
  BY <1>2
<1> QED
  BY <1>1, <1>3 DEF AuditOf

\* Every handler but a reconciliation leaves the batches as they are.
LEMMA BatchKept ==
  ASSUME TypeOK, LoggedOnce, CentsInv, CentsInv', BatchInv, NEW x, Commit(x),
         \A t \in AllTxns : Remembers(t, x),
         \A t \in AllTxns, a \in Accounts : Tells(t, a, x),
         \A t \in AllTxns : Moving(txns'[t]), batches' = batches
  PROVE  BatchInv'
<1>1. \A b \in batches : b.observed => \A a \in DOMAIN b.items : TracksLedger(b, a)'
  BY StaysTracked DEF BatchInv
<1>2. Tracked'
  BY <1>1 DEF Tracked, TracksLedger, MovedOn, AnyMoved, Involved, MonthEnd
<1> QED
  BY <1>2 DEF BatchInv, Moving, Involved

\* What is left alone is remembered and tells nothing.
LEMMA Untouched ==
  ASSUME NEW t \in AllTxns, txns'[t] = txns[t], RowsOf(t) \subseteq RowsOf(t)', NEW x
  PROVE  Remembers(t, x) /\ \A a \in Accounts : Tells(t, a, x)
BY DEF Remembers, Tells, Present

\* A written entry that is no reallocation involves an account.
LEMMA WrittenMoving == ASSUME NEW w \in Writes, NEW r PROVE Moving(Posted(w, r))
BY WrittenCounts DEF Moving, Counts

\* A create writes the first audit row of what it adds.
LEMMA CreateBatch ==
  ASSUME TypeOK, AuditInv, LoggedOnce, CentsInv, CentsInv', BatchInv,
         NEW o, NEW s, NEW t \in TxnIds, NEW w \in Writes, Create(o, s, t, w)
  PROVE  BatchInv'
<1>0. PICK new, row : new = Posted(w, 1) /\ row = [txn |-> t, op |-> o, entry |-> new]
  OBVIOUS
<1>1. PICK x : x = Receipt(o, s, [type |-> "create", txn |-> t, write |-> w],
                           Report(Touched([a \in Accounts |-> Effect(new, a)])), {})
  OBVIOUS
<1>2. /\ Commit(x) /\ ~Present(t) /\ batches' = batches
      /\ txns' = [txns EXCEPT ![t] = new] /\ revisions' = revisions \cup {row}
  BY <1>0, <1>1 DEF Create
<1>3. x.op = o /\ row.txn = t /\ row.op = o /\ row.entry = new
  BY <1>0, <1>1 DEF Receipt
<1>4. /\ t \in AllTxns /\ txns'[t] = new /\ new.kind # "absent" /\ new.amount \in Int
      /\ \A u \in AllTxns \ {t} : txns'[u] = txns[u]
  BY <1>0, <1>2, WriteKind, PostedAmount DEF AllTxns, TypeOK
<1>5. \A u : RowsOf(u) \subseteq RowsOf(u)'
  BY <1>2 DEF RowsOf
<1>6. row \in RowsOf(t)'
  BY <1>2, <1>3 DEF RowsOf
<1>7. Remembers(t, x)
  BY <1>2 DEF Remembers
<1>8. ASSUME NEW a \in Accounts
      PROVE  Tells(t, a, x)
  <2>1. Effect(txns[t], a) = 0
    BY <1>2, <1>4, AbsentEffect DEF CentsInv
  <2>2. CASE a \in Involved(new)
    BY <1>3, <1>4, <1>6, <2>1, <2>2 DEF Tells, AnyMoved, Present
  <2>3. CASE a \notin Involved(new)
    <3>1. Effect(new, a) = 0
      BY <1>4, <2>3, EffectInt
    <3> QED
      BY <1>4, <2>1, <3>1 DEF Tells
  <2> QED
    BY <2>2, <2>3
<1>9. \A u \in AllTxns : Moving(txns'[u])
  BY <1>0, <1>4, WrittenMoving DEF BatchInv
<1>10. \A u \in AllTxns : Remembers(u, x) /\ \A a \in Accounts : Tells(u, a, x)
  BY <1>4, <1>5, <1>7, <1>8, Untouched
<1> QED
  BY <1>2, <1>9, <1>10, BatchKept

\* An edit writes an audit row of what it changes.
LEMMA EditBatch ==
  ASSUME TypeOK, AuditInv, LoggedOnce, CentsInv, CentsInv', BatchInv,
         NEW o, NEW s, NEW t \in AllTxns, NEW w \in Writes,
         NEW r \in 1..txns[t].revision, NEW e, Edit(o, s, t, w, r, e)
  PROVE  BatchInv'
<1>0. PICK new, row : /\ new = Posted(w, txns[t].revision + 1)
                      /\ row = [txn |-> t, op |-> o, entry |-> new]
  OBVIOUS
<1>1. PICK x : x = Receipt(o, s, [type |-> "edit", txn |-> t, write |-> w,
                                  revision |-> r, expected |-> e],
                           Report(Touched([a \in Accounts |->
                                             Effect(new, a) - Effect(txns[t], a)])), {})
  OBVIOUS
<1>2. /\ Commit(x) /\ t \notin Imported /\ RevisionCurrent(t, r) /\ batches' = batches
      /\ Present(t) /\ w.month = txns[t].month
      /\ txns' = [txns EXCEPT ![t] = new] /\ revisions' = revisions \cup {row}
  BY <1>0, <1>1 DEF Edit
<1>3. x.op = o /\ row.txn = t /\ row.op = o /\ row.entry = new
  BY <1>0, <1>1 DEF Receipt
<1>4. /\ txns'[t] = new /\ new.kind # "absent" /\ new.amount \in Int
      /\ new.month = txns[t].month /\ txns[t].amount \in Int
      /\ \A u \in AllTxns \ {t} : txns'[u] = txns[u]
  BY <1>0, <1>2, WriteKind, PostedAmount DEF TypeOK, CentsInv, Posted
<1>5. \A u : RowsOf(u) \subseteq RowsOf(u)'
  BY <1>2 DEF RowsOf
<1>6. row \in RowsOf(t)'
  BY <1>2, <1>3 DEF RowsOf
<1>7. Remembers(t, x)
  BY <1>4, <1>5 DEF Remembers, Present
<1>8. ASSUME NEW a \in Accounts
      PROVE  Tells(t, a, x)
  <2>1. CASE a \in Involved(new)
    BY <1>3, <1>4, <1>6, <2>1 DEF Tells, AnyMoved, Present
  <2>2. CASE a \in Involved(txns[t])
    <3>1. txns[t].revision \in Nat \ {0}
      BY <1>2 DEF RevisionCurrent, TypeOK, IsEntry
    <3>2. PICK q \in RowsOf(t) : q.entry = txns[t]
      BY <1>2, <3>1, CurrentRow
    <3>3. q \in RowsOf(t)'
      BY <1>5
    <3> QED
      BY <1>3, <1>4, <1>6, <2>2, <3>2, <3>3 DEF Tells, AnyMoved, Present
  <2>3. CASE a \notin Involved(new) /\ a \notin Involved(txns[t])
    <3>1. Effect(new, a) = 0 /\ Effect(txns[t], a) = 0
      BY <1>4, <2>3, EffectInt
    <3> QED
      BY <1>4, <3>1 DEF Tells
  <2> QED
    BY <2>1, <2>2, <2>3
<1>9. \A u \in AllTxns : Moving(txns'[u])
  BY <1>0, <1>4, WrittenMoving DEF BatchInv
<1>10. \A u \in AllTxns : Remembers(u, x) /\ \A a \in Accounts : Tells(u, a, x)
  BY <1>4, <1>5, <1>7, <1>8, Untouched
<1> QED
  BY <1>2, <1>9, <1>10, BatchKept

\* The receipt of a deletion keeps the audit of what it takes away.
LEMMA DeleteBatch ==
  ASSUME TypeOK, AuditInv, LoggedOnce, CentsInv, CentsInv', BatchInv,
         NEW o, NEW s, NEW t \in AllTxns,
         NEW r \in 1..txns[t].revision, NEW e, Delete(o, s, t, r, e)
  PROVE  BatchInv'
<1>0. PICK gone : gone = [txn |-> t, entry |-> txns[t], audit |-> RowsOf(t)]
  OBVIOUS
<1>1. PICK x : x = Receipt(o, s, [type |-> "delete", txn |-> t, revision |-> r, expected |-> e],
                           Report(Touched([a \in Accounts |-> -Effect(txns[t], a)])), {gone})
  OBVIOUS
<1>2. /\ Commit(x) /\ t \notin Imported /\ RevisionCurrent(t, r) /\ batches' = batches
      /\ txns' = [txns EXCEPT ![t] = Absent] /\ revisions' = revisions \ RowsOf(t)
  BY <1>0, <1>1 DEF Delete
<1>3. x.deleted = {gone} /\ gone.entry = txns[t] /\ gone.audit = RowsOf(t)
  BY <1>0, <1>1 DEF Receipt
<1>4. /\ txns'[t] = Absent /\ txns[t].amount \in Int
      /\ \A u \in AllTxns \ {t} : txns'[u] = txns[u]
  BY <1>2 DEF TypeOK, CentsInv
<1>5. \A u \in AllTxns \ {t} : RowsOf(u) \subseteq RowsOf(u)'
  BY <1>2 DEF RowsOf
<1>6. Remembers(t, x)
  BY <1>3 DEF Remembers
<1>7. ASSUME NEW a \in Accounts
      PROVE  Tells(t, a, x)
  <2>1. Effect(txns'[t], a) = 0
    BY <1>4, AbsentEffect
  <2>2. CASE a \in Involved(txns[t])
    <3>1. txns[t].revision \in Nat \ {0}
      BY <1>2 DEF RevisionCurrent, TypeOK, IsEntry
    <3>2. PICK q \in RowsOf(t) : q.entry = txns[t]
      BY <1>2, <3>1, CurrentRow
    <3> QED
      BY <1>3, <2>1, <2>2, <3>2 DEF Tells, AnyMoved
  <2>3. CASE a \notin Involved(txns[t])
    <3>1. Effect(txns[t], a) = 0
      BY <1>4, <2>3, EffectInt
    <3> QED
      BY <2>1, <3>1 DEF Tells
  <2> QED
    BY <2>2, <2>3
<1>8. \A u \in AllTxns : Moving(txns'[u])
  BY <1>4 DEF BatchInv, Moving, Absent
<1>9. \A u \in AllTxns : Remembers(u, x) /\ \A a \in Accounts : Tells(u, a, x)
  BY <1>4, <1>5, <1>6, <1>7, Untouched
<1> QED
  BY <1>2, <1>8, <1>9, BatchKept

\* A reconciliation writes an audit row of each adjustment it replaces, and the
\* closing balances it records for a dated observation are the ledger's: the
\* balance it sets, less the entries after the month.
LEMMA ReconcileBatch ==
  ASSUME TypeOK, AdjustmentsInPlace, LoggedOnce, BalanceInv, BalanceInv', BatchInv,
         NEW o, NEW s, NEW m \in Months, NEW observed \in BOOLEAN, NEW after,
         NEW actual, \A a \in DOMAIN actual : actual[a] \in Int,
         NEW e, Reconcile(o, s, m, observed, after, actual, e)
  PROVE  BatchInv'
<1> DEFINE A == DOMAIN actual
           ids == {AdjustmentId(a, m) : a \in A}
           target == [a \in A |-> actual[a] + Total(a, after)]
           closing == [a \in A |-> IF observed THEN actual[a] - Total(a, Later(m) \ after)
                                               ELSE actual[a]]
           change == [a \in A |-> BaseBalance(a, m) - target[a]]
           adjusted == [a \in A |-> Adjusted(a, m, change[a])]
           rows == {[txn |-> AdjustmentId(a, m), op |-> o, entry |-> adjusted[a]] : a \in A}
           batch == [op |-> o, month |-> m, observed |-> observed,
                     items |-> [a \in A |->
                       [txn |-> AdjustmentId(a, m), closing |-> closing[a],
                        variance |-> change[a], revision |-> ledgerRevision'[a]]]]
<1>0. PICK nb : nb = batch
  OBVIOUS
<1>1. PICK x : x = Receipt(o, s, [type |-> "reconcile", month |-> m, observed |-> observed,
                                  actual |-> actual, expected |-> e],
                           [a \in A |-> [balance |-> actual[a], revision |-> ledgerRevision'[a]]],
                           {})
  OBVIOUS
<1>2. /\ Commit(x) /\ A \subseteq Accounts /\ after \subseteq Later(m)
      /\ txns' = [t \in AllTxns |-> IF t \in ids THEN adjusted[t[1]] ELSE txns[t]]
      /\ revisions' = revisions \cup rows /\ batches' = batches \cup {nb}
      /\ \A a \in A : balance'[a] = target[a]
  BY <1>0, <1>1 DEF Reconcile
<1>3. x.op = o
  BY <1>1 DEF Receipt
<1>4. ASSUME NEW a \in A
      PROVE  /\ AdjustmentId(a, m) \in AllTxns
             /\ txns'[AdjustmentId(a, m)] = Adjusted(a, m, change[a])
  <2>1. AdjustmentId(a, m) \in AllTxns /\ AdjustmentId(a, m)[1] = a
    BY <1>2, ClientIds DEF AdjustmentId
  <2> QED
    BY <1>2, <2>1
<1>5. \A t \in AllTxns \ ids : txns'[t] = txns[t]
  BY <1>2
<1>6. \A u : RowsOf(u) \subseteq RowsOf(u)'
  BY <1>2 DEF RowsOf
<1>7. ASSUME NEW a \in A
      PROVE  \E row \in RowsOf(AdjustmentId(a, m))' : row.op = o /\ row.entry.from = a
  <2> DEFINE row == [txn |-> AdjustmentId(a, m), op |-> o, entry |-> adjusted[a]]
  <2>1. row \in rows
    OBVIOUS
  <2>2. row.txn = AdjustmentId(a, m) /\ row.op = o /\ row.entry.from = a
    BY DEF Adjusted
  <2> HIDE DEF row, rows
  <2>3. row \in RowsOf(AdjustmentId(a, m))'
    BY <1>2, <2>1, <2>2 DEF RowsOf, AdjustmentId
  <2> QED
    BY <2>2, <2>3
<1> HIDE DEF rows, batch, adjusted, change, closing, target
<1>8. ASSUME NEW c \in A
      PROVE  /\ Remembers(AdjustmentId(c, m), x)
             /\ \A a \in Accounts : Tells(AdjustmentId(c, m), a, x)
             /\ txns[AdjustmentId(c, m)].month <= m
             /\ txns'[AdjustmentId(c, m)].month = m
  <2> DEFINE u == AdjustmentId(c, m)
  <2>1. /\ u \in AllTxns /\ txns'[u] = Adjusted(c, m, change[c])
        /\ txns'[u].month = m /\ txns'[u].from = c /\ txns'[u].to = External
        /\ txns'[u].kind = "reconciliation"
    BY <1>4 DEF Adjusted
  <2>2. Present(u) => txns[u].month = m
    BY <1>2 DEF AdjustmentsInPlace
  <2>3. Present(u) \/ (txns[u].amount = 0 /\ txns[u].month = 0)
    BY <2>1 DEF BalanceInv, CentsInv, Absent
  <2>4. Remembers(u, x)
    BY <1>6, <2>1, <2>2 DEF Remembers, Present
  <2>5. ASSUME NEW a \in Accounts
        PROVE  Tells(u, a, x)
    <3>1. Effect(txns[u], a) = 0 \/ txns'[u].month = txns[u].month
      BY <2>1, <2>2, <2>3 DEF Effect
    <3>2. CASE a = c
      <4>1. PICK row \in RowsOf(u)' : row.op = o /\ row.entry.from = c
        BY <1>7
      <4>2. AnyMoved(RowsOf(u)', a)
        BY <3>2, <4>1 DEF AnyMoved, Involved
      <4> QED
        BY <1>3, <2>1, <3>1, <4>1, <4>2 DEF Tells, Present
    <3>3. CASE a # c
      <4>1. AdjustmentOf(txns[u], c) /\ External # a
        BY <1>2, ConstantsAssumption DEF BalanceInv, CentsInv
      <4>2. Effect(txns[u], a) = 0 /\ Effect(txns'[u], a) = 0
        BY <2>1, <3>3, <4>1 DEF Effect, AdjustmentOf
      <4> QED
        BY <4>2 DEF Tells
    <3> QED
      BY <3>2, <3>3
  <2>6. txns[u].month <= m
    <3>1. m \in Nat
      BY ConstantsAssumption DEF Months
    <3> QED
      BY <2>2, <2>3, <3>1
  <2> QED
    BY <2>1, <2>4, <2>5, <2>6
<1>9. \A t \in AllTxns : Remembers(t, x) /\ \A a \in Accounts : Tells(t, a, x)
  BY <1>5, <1>6, <1>8, Untouched
<1>10. \A b \in batches : b.observed => \A a \in DOMAIN b.items : TracksLedger(b, a)'
  BY <1>2, <1>9, StaysTracked DEF BatchInv, BalanceInv
<1>11. ASSUME NEW a \in A, observed
       PROVE  MonthEnd(a, m)' = closing[a]
  <2> DEFINE L == Later(m)
             E == AllTxns \ L
  <2>0. a \in Accounts /\ m \in Nat
    BY <1>2, ConstantsAssumption DEF Months
  <2>1. \A t \in AllTxns : txns[t].month \in Nat
    BY TodayNat DEF TypeOK, IsEntry
  <2>2. L \subseteq AllTxns /\ L \cap ids = {} /\ \A t \in L : txns'[t] = txns[t]
    BY <1>5, <1>8, <2>0, <2>1 DEF Later
  <2>3. Early(txns', m) = E
    <3>1. ASSUME NEW t \in AllTxns
          PROVE  txns'[t].month <= m <=> t \notin L
      <4>1. CASE t \in ids
        BY <1>8, <2>0, <2>2, <4>1
      <4>2. CASE t \notin ids
        BY <1>5, <2>0, <2>1, <4>2 DEF Later
      <4> QED
        BY <4>1, <4>2
    <3> QED
      BY <3>1 DEF Early
  <2> HIDE DEF L
  <2>4. \A t \in AllTxns : txns[t].amount \in Int /\ txns'[t].amount \in Int
    BY DEF BalanceInv, CentsInv
  <2>5. /\ TotalOf(txns', a, AllTxns) = TotalOf(txns', a, E) + TotalOf(txns', a, L)
        /\ TotalOf(txns', a, E) \in Int /\ TotalOf(txns', a, L) \in Int
    <3>1. E \cup L = AllTxns /\ E \cap L = {} /\ E \subseteq AllTxns
      BY <2>2
    <3> HIDE DEF E
    <3>2. /\ TotalOf(txns', a, E \cup L) = TotalOf(txns', a, E) + TotalOf(txns', a, L)
          /\ TotalOf(txns', a, E) \in Int /\ TotalOf(txns', a, L) \in Int
      BY <2>0, <2>2, <2>4, <3>1, SplitTotal
    <3> QED
      BY <3>1, <3>2
  <2>6. TotalOf(txns', a, L) = TotalOf(txns, a, L)
    BY <2>2, TotalSame, TotalUnfold
  <2>7. /\ TotalOf(txns, a, L) = TotalOf(txns, a, after) + TotalOf(txns, a, L \ after)
        /\ TotalOf(txns, a, after) \in Int /\ TotalOf(txns, a, L \ after) \in Int
    <3>1. /\ after \cup (L \ after) = L /\ after \cap (L \ after) = {}
          /\ after \subseteq AllTxns /\ L \ after \subseteq AllTxns
      BY <1>2, <2>2 DEF L
    <3> DEFINE R == L \ after
    <3> HIDE DEF R
    <3>2. /\ TotalOf(txns, a, after \cup R) = TotalOf(txns, a, after) + TotalOf(txns, a, R)
          /\ TotalOf(txns, a, after) \in Int /\ TotalOf(txns, a, R) \in Int
      BY <2>0, <2>4, <3>1, SplitTotal DEF R
    <3> QED
      BY <3>1, <3>2 DEF R
  <2>8. balance'[a] = Opening[a] + TotalOf(txns', a, AllTxns) /\ Opening[a] \in Int
    BY <2>0, ConstantsAssumption, TotalUnfold DEF BalanceInv, BalanceMatchesLedger
  <2>9. balance'[a] = actual[a] + TotalOf(txns, a, after) /\ actual[a] \in Int
    BY <1>2, TotalUnfold DEF target
  <2>10. closing[a] = actual[a] - TotalOf(txns, a, L \ after)
    BY <1>11, TotalUnfold DEF closing, L
  <2>11. MonthEnd(a, m)' = Opening[a] + TotalOf(txns', a, E)
    BY <2>3, MonthEndUnfold
  <2> DEFINE early == TotalOf(txns', a, E)
             past == TotalOf(txns, a, after)
             rest == TotalOf(txns, a, L \ after)
  <2>12. /\ early \in Int /\ past \in Int /\ rest \in Int /\ actual[a] \in Int /\ Opening[a] \in Int
         /\ actual[a] + past = Opening[a] + (early + (past + rest))
         /\ MonthEnd(a, m)' = Opening[a] + early /\ closing[a] = actual[a] - rest
    BY <2>5, <2>6, <2>7, <2>8, <2>9, <2>10, <2>11
  <2> HIDE DEF E, early, past, rest
  <2>13. Opening[a] + early = actual[a] - rest
    BY <2>12
  <2> QED
    BY <2>12, <2>13
<1>12. nb.observed => \A a \in DOMAIN nb.items : TracksLedger(nb, a)'
  <2> SUFFICES ASSUME nb.observed, NEW a \in DOMAIN nb.items
               PROVE  MonthEnd(a, nb.month)' = nb.items[a].closing
    BY DEF TracksLedger
  <2>1. /\ observed /\ a \in A /\ nb.month = m
        /\ nb.items[a].closing = closing[a]
    BY <1>0 DEF batch
  <2> QED
    BY <1>11, <2>1
<1>13. Tracked'
  <2>1. \A b \in batches' : b.observed => \A a \in DOMAIN b.items : TracksLedger(b, a)'
    BY <1>2, <1>10, <1>12
  <2> QED
    BY <2>1 DEF Tracked, TracksLedger, MovedOn, AnyMoved, Involved, MonthEnd
<1>14. \A t \in AllTxns : Moving(txns'[t])
  <2> SUFFICES ASSUME NEW t \in AllTxns PROVE Moving(txns'[t])
    OBVIOUS
  <2>1. CASE t \in ids
    <3>1. PICK c \in A : t = AdjustmentId(c, m)
      BY <2>1
    <3>2. txns'[t] = Adjusted(c, m, change[c]) /\ c \in Accounts
      BY <1>2, <1>4, <3>1
    <3>3. txns'[t].from = c
      BY <3>2 DEF Adjusted
    <3> QED
      BY <3>2, <3>3 DEF Moving, Involved
  <2>2. CASE t \notin ids
    BY <1>5, <2>2 DEF BatchInv
  <2> QED
    BY <2>1, <2>2
<1> QED
  BY <1>13, <1>14 DEF BatchInv, Moving, Involved

\* Who leaves entries, audit and batches alone leaves the batches tracked.
LEMMA QuietBatch ==
  ASSUME TypeOK, LoggedOnce, BalanceInv, BalanceInv', BatchInv, NEW x, Commit(x),
         UNCHANGED <<txns, revisions, batches>>
  PROVE  BatchInv'
<1>1. \A t \in AllTxns : RowsOf(t) \subseteq RowsOf(t)'
  BY DEF RowsOf
<1>2. \A t \in AllTxns : Remembers(t, x) /\ \A a \in Accounts : Tells(t, a, x)
  BY <1>1, Untouched
<1> QED
  BY <1>2, BatchKept DEF BalanceInv, BatchInv

\* No step changes a month end behind the back of a batch.
LEMMA NextBatch ==
  ASSUME TypeOK, AdjustmentsInPlace, AuditInv, LoggedOnce, BalanceInv, BalanceInv', BatchInv,
         [Next]_vars
  PROVE  BatchInv'
<1> USE DEF BalanceInv
<1>1. ASSUME NEW o \in OpIds \ Logged, NEW s \in Subjects, Write(o, s)
      PROVE  BatchInv'
  <2>1. CASE \E t \in TxnIds, w \in Writes : Create(o, s, t, w)
    BY <2>1, CreateBatch
  <2>2. ASSUME NEW t \in AllTxns, NEW w \in Writes, NEW r \in 1..txns[t].revision, NEW e,
               Edit(o, s, t, w, r, e)
        PROVE  BatchInv'
    BY <2>2, EditBatch
  <2>3. ASSUME NEW t \in AllTxns, NEW r \in 1..txns[t].revision, NEW e, Delete(o, s, t, r, e)
        PROVE  BatchInv'
    BY <2>3, DeleteBatch
  <2>4. ASSUME NEW m \in Months, NEW observed \in BOOLEAN, NEW A \in SUBSET Accounts,
               NEW after, NEW actual \in [A -> Observations], NEW e,
               Reconcile(o, s, m, observed, after, actual, e)
        PROVE  BatchInv'
    <3>1. \A a \in DOMAIN actual : actual[a] \in Int
      BY ConstantsAssumption
    <3> QED
      BY <2>4, <3>1, ReconcileBatch
  <2>5. ASSUME NEW t \in AllTxns, Correct(o, s, t)
        PROVE  BatchInv'
    <3>1. PICK x : x = Receipt(o, s, [type |-> "correct", txn |-> t], << >>, {})
      OBVIOUS
    <3> QED
      BY <2>5, <3>1, QuietBatch DEF Correct
  <2>6. ASSUME NEW m \in Months, Close(o, s, m)
        PROVE  BatchInv'
    <3>1. PICK x : x = Receipt(o, s, [type |-> "close", month |-> m], << >>, {})
      OBVIOUS
    <3> QED
      BY <2>6, <3>1, QuietBatch DEF Close
  <2> QED
    BY <1>1, <2>1, <2>2, <2>3, <2>4, <2>5, <2>6 DEF Write
<1>2. ASSUME UNCHANGED <<txns, revisions, log, batches>>
      PROVE  BatchInv'
  <2>1. \A o : RowId(o)' = RowId(o)
    BY <1>2 DEF RowId
  <2>2. \A b, a : MovedOn(b, a)' <=> MovedOn(b, a)
    BY <1>2, <2>1 DEF MovedOn, AnyMoved, Involved, RowsOf, Present
  <2>3. ASSUME NEW b \in batches, NEW a \in DOMAIN b.items
        PROVE  MonthEnd(a, b.month)' = MonthEnd(a, b.month)
    <3>1. a \in Accounts
      BY DEF TypeOK, IsBatch
    <3> QED
      BY <1>2, <3>1, MonthEndSame
  <2>4. \A b \in batches' : b.observed => \A a \in DOMAIN b.items : TracksLedger(b, a)'
    BY <1>2, <2>2, <2>3 DEF BatchInv, Tracked, TracksLedger
  <2>5. Tracked'
    BY <2>4 DEF Tracked, TracksLedger, MovedOn, AnyMoved, Involved, MonthEnd
  <2> QED
    BY <1>2, <2>5 DEF BatchInv, Moving, Involved
<1>3. CASE \E o \in Logged, s \in Subjects : \E i \in DOMAIN log : Retry(o, s, log[i].request)
  BY <1>2, <1>3 DEF Retry
<1>4. CASE NextMonth \/ UNCHANGED vars
  BY <1>2, <1>4 DEF NextMonth, vars
<1> QED
  BY <1>1, <1>3, <1>4 DEF Next

\* There is no batch at first.
LEMMA InitBatch == Init => BatchInv
<1> SUFFICES ASSUME Init PROVE BatchInv
  OBVIOUS
<1>1. PICK m \in [Imported -> 0..FirstMonth], a \in [Imported -> Accounts] :
        txns = [t \in AllTxns |->
                  IF t \in Imported
                  THEN [Absent EXCEPT !.kind = "expense", !.month = m[t], !.from = a[t],
                                      !.amount = 1, !.revision = 1]
                  ELSE Absent]
  BY DEF Init
<1>2. ASSUME NEW t \in AllTxns
      PROVE  Moving(txns[t])
  <2>1. CASE t \in Imported
    <3>1. txns[t].from = a[t] /\ a[t] \in Accounts
      BY <1>1, <2>1 DEF Absent
    <3> QED
      BY <3>1 DEF Moving, Involved
  <2>2. CASE t \notin Imported
    BY <1>1, <2>2 DEF Moving, Absent
  <2> QED
    BY <2>1, <2>2
<1> QED
  BY <1>2 DEF BatchInv, Tracked, Init

\* Every observed batch is tracked forever.
LEMMA BatchesTracked == Spec => []BatchInv
<1>1. TypeOK /\ AdjustmentsInPlace /\ AuditInv /\ FreshInv /\ BalanceInv /\ BalanceInv' /\ BatchInv
        /\ [Next]_vars => BatchInv'
  BY NextBatch DEF FreshInv
<1> QED
  BY <1>1, InitBatch, TypeCorrect, AdjustmentsStay, AuditKept, FreshnessKept, BalanceKept, PTL DEF Spec

\* A reconciliation of observed balances that reconciliation_current still accepts
\* gives the ledger's month end for every account, unless an entry that moved the
\* account was turned into a reallocation: the only way account activity can get
\* past that check (MovedSince, ReconciliationCurrent).
THEOREM FreshBatchesMatch == Spec => []FreshBatchMatchesLedger
<1>1. ASSUME BatchInv
      PROVE  FreshBatchMatchesLedger
  <2> SUFFICES ASSUME NEW b \in batches, b.observed, ReconciliationCurrent(b),
                      NEW a \in DOMAIN b.items, MovedOn(b, a)
               PROVE  Reclassified(a, b.month)
    BY <1>1 DEF FreshBatchMatchesLedger, BatchInv, Tracked, TracksLedger
  <2>1. ASSUME NEW t \in AllTxns, Present(t), txns[t].month <= b.month,
               AnyMoved(RowsOf(t), a), NEW r \in RowsOf(t), RowId(r.op) > RowId(b.op)
        PROVE  Reclassified(a, b.month)
    <3>1. CASE txns[t].kind = "reallocate"
      BY <2>1, <3>1 DEF Reclassified, AnyMoved
    <3>2. CASE txns[t].kind # "reallocate"
      <4>1. r \in revisions /\ r.txn = t
        BY DEF RowsOf
      <4>2. Involved(txns[t]) # {}
        BY <1>1, <2>1, <3>2 DEF BatchInv, Moving, Present
      <4> QED
        BY <2>1, <3>2, <4>1, <4>2 DEF ReconciliationCurrent, MovedSince
    <3> QED
      BY <3>1, <3>2
  <2>2. ASSUME NEW i \in DOMAIN log, i > RowId(b.op),
               NEW d \in log[i].deleted, d.entry.month <= b.month, AnyMoved(d.audit, a)
        PROVE  Reclassified(a, b.month)
    <3>1. d.entry.kind = "reallocate"
      BY <2>2 DEF ReconciliationCurrent, MovedSince
    <3> QED
      BY <2>2, <3>1 DEF Reclassified, AnyMoved
  <2> QED
    BY <2>1, <2>2 DEF MovedOn
<1> QED
  BY <1>1, BatchesTracked, PTL
====
