---------------------------- MODULE FinanceLedger ----------------------------
(***************************************************************************)
(* The canonical finance ledger of the server (server/src/server.rs and    *)
(* server/src/budget.rs): transactions with their audited revisions,       *)
(* account balances with their ledger revisions, the receipts of finance   *)
(* operations, account reconciliation, category corrections and the        *)
(* closing of budget months.                                               *)
(*                                                                         *)
(* Each handler runs inside one SQLite transaction begun with              *)
(* BEGIN IMMEDIATE, so a whole accepted request is one step; a refused or  *)
(* crashed request is rolled back and is no step.  Abstracted: amounts are *)
(* integer cents valued in one currency, a transaction's date is its       *)
(* month (month 0 stands for the months before the first canonical one),   *)
(* reconciliation dates are month ends, categories and texts are left out, *)
(* and the SHA-256 fingerprint of a payload is the payload itself.         *)
(***************************************************************************)
EXTENDS Integers, Sequences, FiniteSets, FiniteSetsExt, Functions

CONSTANTS
  Accounts,      \* the active real accounts
  External,      \* any system account: Expense, Income, Reallocation, Reconciliation
  TxnIds,        \* transaction ids the clients generate
  Imported,      \* ids of transactions imported from the workbook
  OpIds,         \* operation ids the clients generate
  Subjects,      \* signed-in household members
  Amounts,       \* the positive amounts that may be entered
  Observations,  \* the account balances that may be observed
  Opening,       \* opening balance of each account
  LastMonth      \* bound: the calendar stops in this month

ASSUME ConstantsAssumption ==
  /\ External \notin Accounts
  /\ IsFiniteSet(Accounts) /\ IsFiniteSet(TxnIds) /\ IsFiniteSet(Imported)
  /\ TxnIds \cap Imported = {}
  /\ (TxnIds \cup Imported) \cap (Accounts \X Nat) = {}
  /\ Amounts \subseteq Nat \ {0}
  /\ Observations \subseteq Int
  /\ Opening \in [Accounts -> Int]
  /\ LastMonth \in Nat \ {0}

VARIABLES
  today,           \* the current month in Madrid
  txns,            \* finance_transactions: every id's entry, Absent when there is no row
  revisions,       \* finance_transaction_revisions
  balance,         \* finance_accounts.current_native_balance
  ledgerRevision,  \* finance_accounts.ledger_revision
  log,             \* finance_operations in rowid order
  batches,         \* reconciliation_batches with their reconciliation_items
  corrections,     \* finance_category_corrections
  closures,        \* budget_month_closures
  reply            \* the last successful response sent: {} or {who asked what, and the answer}

vars == <<today, txns, revisions, balance, ledgerRevision, log, batches,
          corrections, closures, reply>>

----------------------------------------------------------------------------
(* Entries and their effect on the accounts. *)

FirstMonth == 1
Months == 0..LastMonth

EditableKinds == {"expense", "income", "transfer", "reallocate"}

\* A reconciliation keeps one adjustment row per account and date, whose id the
\* first batch that needs it generates.
AdjustmentId(a, m) == <<a, m>>
AllTxns == TxnIds \cup Imported \cup (Accounts \X Months)

Absent == [kind |-> "absent", month |-> 0, from |-> External, to |-> External,
           amount |-> 0, corrects |-> {}, revision |-> 0]

\* The shape each kind of entry must have: which sides are real accounts.
WellShaped(w) ==
  CASE w.kind = "expense"    -> w.from \in Accounts /\ w.to = External
    [] w.kind = "income"     -> w.from = External /\ w.to \in Accounts
    [] w.kind = "transfer"   -> w.from \in Accounts /\ w.to \in Accounts \ {w.from}
    [] w.kind = "reallocate" -> w.from = External /\ w.to = External

\* What a create or edit request may ask to store.
Writes ==
  {w \in [kind : EditableKinds, month : Months,
          from : Accounts \cup {External}, to : Accounts \cup {External},
          amount : Amounts, corrects : {{}} \cup {{t} : t \in TxnIds \cup Imported}] :
     WellShaped(w)}

Posted(w, r) ==
  [kind |-> w.kind, month |-> w.month, from |-> w.from, to |-> w.to,
   amount |-> w.amount, corrects |-> w.corrects, revision |-> r]

Present(t) == txns[t].kind # "absent"
Involved(e) == {e.from, e.to} \cap Accounts

Effect(e, a) ==
  (IF e.to = a THEN e.amount ELSE 0) - (IF e.from = a THEN e.amount ELSE 0)

Total(a, T) == MapThenSumSet(LAMBDA t : Effect(txns[t], a), T)
MonthEnd(a, m) == Opening[a] + Total(a, {t \in AllTxns : txns[t].month <= m})

----------------------------------------------------------------------------
(* Receipts: the finance_operations row every write leaves behind. *)

Logged == {receipt.op : receipt \in Range(log)}
RowId(o) == CHOOSE i \in DOMAIN log : log[i].op = o
RowsOf(t) == {r \in revisions : r.txn = t}

Receipt(o, s, q, accounts, deleted) ==
  [op |-> o, actor |-> s, request |-> q, accounts |-> accounts, deleted |-> deleted]

Answer(s, q, receipt) == [actor |-> s, request |-> q, answer |-> receipt]

\* INSERT ... ON CONFLICT(operation_id) DO NOTHING took effect, and the response
\* stored with it is the one sent.
Commit(receipt) ==
  /\ receipt.op \notin Logged
  /\ log' = Append(log, receipt)
  /\ reply' = {Answer(receipt.actor, receipt.request, receipt)}

\* The account part of a response, read back after the update.
Report(A) == [a \in A |-> [balance |-> balance'[a], revision |-> ledgerRevision'[a]]]

\* The ledger revisions a request says it was computed from.
Expected(q) == IF q.type \in {"edit", "delete", "reconcile"} THEN q.expected ELSE << >>

\* An account whose delta is zero is left alone.
Touched(d) == {a \in Accounts : d[a] # 0}

PostDeltas(d) ==
  /\ balance' = [a \in Accounts |-> IF a \in Touched(d) THEN balance[a] + d[a] ELSE balance[a]]
  /\ ledgerRevision' =
       [a \in Accounts |-> IF a \in Touched(d) THEN ledgerRevision[a] + 1 ELSE ledgerRevision[a]]

----------------------------------------------------------------------------
(* Guards shared by the handlers. *)

Closed(m) == \E c \in closures : c.month = m

\* Mutants: the close is not looked up; the future is not refused.
RequireOpenNoClosure(m) == FirstMonth <= m /\ m <= today
RequireOpenNoFuture(m) == FirstMonth <= m /\ ~Closed(m)
RequireOpen(m) == FirstMonth <= m /\ m <= today /\ ~Closed(m)

\* A category or account correction may only name an entry whose month is
\* frozen: closed, or before the first canonical month.
Frozen(m) == Closed(m) \/ m < FirstMonth

CorrectionOfAnyMonth(t, w) ==   \* mutant
  \A x \in w.corrects : x # t /\ Present(x) /\ w.kind \in {"expense", "income"} /\ w.month = today
CorrectionAllowed(t, w) ==
  \A x \in w.corrects :
    /\ x # t /\ Present(x)
    /\ w.kind \in {"expense", "income"} /\ w.month = today
    /\ Frozen(txns[x].month)

\* The ledger revisions a client may hold: those of any state it once loaded.
Expectations(A) ==
  {e \in [A -> 0..Len(log)] : \A a \in A : e[a] <= ledgerRevision[a]}

AccountsUnchangedNever(e) == TRUE   \* mutant
AccountsUnchanged(e) == \A a \in DOMAIN e : e[a] = ledgerRevision[a]
RevisionCurrentNever(t, r) == TRUE   \* mutant
RevisionCurrent(t, r) == txns[t].revision = r

----------------------------------------------------------------------------
(* Transactions. *)

Create(o, s, t, w) ==
  LET new == Posted(w, 1)
      delta == [a \in Accounts |-> Effect(new, a)]
  IN /\ t \in TxnIds /\ ~Present(t)
     /\ RequireOpen(w.month)
     /\ CorrectionAllowed(t, w)
     /\ txns' = [txns EXCEPT ![t] = new]
     /\ revisions' = revisions \cup {[txn |-> t, op |-> o, entry |-> new]}
     /\ PostDeltas(delta)
     /\ Commit(Receipt(o, s, [type |-> "create", txn |-> t, write |-> w],
                       Report(Touched(delta)), {}))
     /\ UNCHANGED <<today, batches, corrections, closures>>

\* An edit may change everything but the month, the kind included.
Edit(o, s, t, w, r, e) ==
  LET old == txns[t]
      new == Posted(w, old.revision + 1)
      delta == [a \in Accounts |-> Effect(new, a) - Effect(old, a)]
  IN /\ Present(t) /\ t \notin Imported
     /\ RevisionCurrent(t, r)
     /\ old.kind \in EditableKinds
     /\ w.month = old.month
     /\ RequireOpen(old.month)
     /\ ~\E c \in corrections : c.txn = t
     /\ CorrectionAllowed(t, w)
     /\ DOMAIN e = Involved(old) \cup Involved(new)
     /\ AccountsUnchanged(e)
     /\ txns' = [txns EXCEPT ![t] = new]
     /\ revisions' = revisions \cup {[txn |-> t, op |-> o, entry |-> new]}
     /\ PostDeltas(delta)
     /\ Commit(Receipt(o, s, [type |-> "edit", txn |-> t, write |-> w,
                              revision |-> r, expected |-> e],
                       Report(Touched(delta)), {}))
     /\ UNCHANGED <<today, batches, corrections, closures>>

\* The row's revisions are deleted with it (ON DELETE CASCADE); the response
\* keeps the entry and its audit.
Delete(o, s, t, r, e) ==
  LET old == txns[t]
      delta == [a \in Accounts |-> -Effect(old, a)]
  IN /\ Present(t) /\ t \notin Imported
     /\ RevisionCurrent(t, r)
     /\ old.kind \in EditableKinds
     /\ ~\E c \in corrections : c.txn = t
     /\ ~\E b \in batches : \E a \in DOMAIN b.items : b.items[a].txn = t
     /\ RequireOpen(old.month)
     /\ DOMAIN e = Involved(old)
     /\ AccountsUnchanged(e)
     /\ txns' = [txns EXCEPT ![t] = Absent]
     /\ revisions' = revisions \ RowsOf(t)
     /\ PostDeltas(delta)
     /\ Commit(Receipt(o, s, [type |-> "delete", txn |-> t, revision |-> r, expected |-> e],
                       Report(Touched(delta)),
                       {[txn |-> t, entry |-> old, audit |-> RowsOf(t)]}))
     /\ UNCHANGED <<today, batches, corrections, closures>>

----------------------------------------------------------------------------
(* Reconciliation. *)

Later(m) == {t \in AllTxns : txns[t].month > m}

\* An observation is at most a day old, so only entries of the last days can
\* lie after it.
Recent == {t \in AllTxns : txns[t].month >= today - 1}

ReconcilablePeriod(m) == ~Closed(m) /\ m <= today

\* The balance without the adjustment about to be replaced.
BaseBalanceKept(a, m) == balance[a]   \* mutant
BaseBalance(a, m) == balance[a] + txns[AdjustmentId(a, m)].amount

\* Replace the adjustment of the account at the closing date.
Adjusted(a, m, amount) ==
  [kind |-> "reconciliation", month |-> m, from |-> a, to |-> External,
   amount |-> amount, corrects |-> {}, revision |-> txns[AdjustmentId(a, m)].revision + 1]

\* `actual` gives the observed balance of every account of the batch.  When the
\* observation is dated, entries later than the closing month are split in
\* those before it and those after it (`after`); otherwise none is considered.
Reconcile(o, s, m, observed, after, actual, e) ==
  LET A == DOMAIN actual
      ids == {AdjustmentId(a, m) : a \in A}
      target == [a \in A |-> actual[a] + Total(a, after)]
      closing == [a \in A |-> IF observed THEN actual[a] - Total(a, Later(m) \ after)
                                          ELSE actual[a]]
      change == [a \in A |-> BaseBalance(a, m) - target[a]]
      adjusted == [a \in A |-> Adjusted(a, m, change[a])]
  IN /\ A # {} /\ A \subseteq Accounts
     /\ after \subseteq Later(m) \cap Recent /\ (~observed => after = {})
     /\ ReconcilablePeriod(m)
     /\ DOMAIN e = A /\ AccountsUnchanged(e)
     /\ txns' = [t \in AllTxns |-> IF t \in ids THEN adjusted[t[1]] ELSE txns[t]]
     /\ revisions' = revisions \cup
          {[txn |-> AdjustmentId(a, m), op |-> o, entry |-> adjusted[a]] : a \in A}
     /\ balance' = [a \in Accounts |-> IF a \in A THEN target[a] ELSE balance[a]]
     /\ ledgerRevision' =
          [a \in Accounts |-> IF a \in A THEN ledgerRevision[a] + 1 ELSE ledgerRevision[a]]
     /\ batches' = batches \cup
          {[op |-> o, month |-> m, observed |-> observed,
            items |-> [a \in A |-> [txn |-> AdjustmentId(a, m), closing |-> closing[a],
                                    variance |-> change[a], revision |-> ledgerRevision'[a]]]]}
     /\ Commit(Receipt(o, s, [type |-> "reconcile", month |-> m, observed |-> observed,
                              actual |-> actual, expected |-> e],
                       [a \in A |-> [balance |-> actual[a], revision |-> ledgerRevision'[a]]],
                       {}))
     /\ UNCHANGED <<today, corrections, closures>>

\* An operation received after the batch moved an account on or before its date.
\* Edits are judged by what the entry is now, deletions by what it was last.
MovedSinceLive(b) ==   \* mutant: deletions forgotten
  \E r \in revisions :
    /\ txns[r.txn].month <= b.month /\ txns[r.txn].kind # "reallocate"
    /\ Involved(txns[r.txn]) # {}
    /\ RowId(r.op) > RowId(b.op)
MovedSinceDeleted(b) ==   \* mutant: creates and edits forgotten
  \E i \in DOMAIN log :
    /\ i > RowId(b.op)
    /\ \E d \in log[i].deleted : d.entry.month <= b.month /\ d.entry.kind # "reallocate"
MovedSince(b) ==
  \/ \E r \in revisions :
       /\ txns[r.txn].month <= b.month /\ txns[r.txn].kind # "reallocate"
       /\ Involved(txns[r.txn]) # {}
       /\ RowId(r.op) > RowId(b.op)
  \/ \E i \in DOMAIN log :
       /\ i > RowId(b.op)
       /\ \E d \in log[i].deleted : d.entry.month <= b.month /\ d.entry.kind # "reallocate"

ReconciliationCurrent(b) == ~MovedSince(b)

----------------------------------------------------------------------------
(* Category corrections and the month close. *)

\* The signed category deltas only concern the budget and are left out.
Correct(o, s, t) ==
  /\ Present(t)
  /\ Frozen(txns[t].month)
  /\ RequireOpen(today)
  /\ corrections' = corrections \cup {[op |-> o, txn |-> t, applied |-> today]}
  /\ Commit(Receipt(o, s, [type |-> "correct", txn |-> t], << >>, {}))
  /\ UNCHANGED <<today, txns, revisions, balance, ledgerRevision, batches, closures>>

FullBatches(m) == {b \in batches : b.month = m /\ DOMAIN b.items = Accounts}
LatestFull(m) ==
  CHOOSE b \in FullBatches(m) : \A c \in FullBatches(m) : RowId(c.op) <= RowId(b.op)

EarlierMonthsAny(m) == FirstMonth <= m   \* mutant: a later month may close first
EarlierMonthsClosed(m) == FirstMonth <= m /\ \A k \in FirstMonth..(m - 1) : Closed(k)

Close(o, s, m) ==
  /\ m < today
  /\ FullBatches(m) # {}
  /\ ~Closed(m)
  /\ ReconciliationCurrent(LatestFull(m))
  /\ EarlierMonthsClosed(m)
  /\ closures' = closures \cup {[month |-> m, op |-> o]}
  /\ Commit(Receipt(o, s, [type |-> "close", month |-> m], << >>, {}))
  /\ UNCHANGED <<today, txns, revisions, balance, ledgerRevision, batches, corrections>>

----------------------------------------------------------------------------
(* Retries. *)

\* What a handler looks for before it takes a known operation id for a retry of
\* its own kind of request.
Evidence(receipt) ==
  CASE receipt.request.type = "create" -> \E r \in revisions : r.op = receipt.op
    [] receipt.request.type = "edit" ->
         \E r \in revisions : r.op = receipt.op /\ r.txn = receipt.request.txn
    [] receipt.request.type = "delete" -> receipt.deleted # {}
    [] receipt.request.type = "reconcile" -> \E b \in batches : b.op = receipt.op
    [] receipt.request.type = "correct" -> \E c \in corrections : c.op = receipt.op
    [] receipt.request.type = "close" ->
         \E c \in closures : c.op = receipt.op /\ c.month = receipt.request.month

SameActor(receipt, s, q) == receipt.actor = s   \* mutant
SameRequest(receipt, s, q) == receipt.actor = s /\ receipt.request = q

\* A request whose operation id is already logged: the exact retry gets the stored
\* response, anything else is refused.  A client may reuse an id with any
\* payload the household ever sent.
Retry(o, s, q) ==
  /\ o \in Logged
  /\ LET stored == log[RowId(o)]
     IN /\ SameRequest(stored, s, q)
        /\ Evidence(stored)
        /\ reply' = {Answer(s, q, stored)}
  /\ UNCHANGED <<today, txns, revisions, balance, ledgerRevision, log, batches,
                 corrections, closures>>

NextMonth ==
  /\ today < LastMonth
  /\ today' = today + 1
  /\ UNCHANGED <<txns, revisions, balance, ledgerRevision, log, batches,
                 corrections, closures, reply>>

----------------------------------------------------------------------------
(* Behaviours. *)

\* The workbook import leaves its entries in the months before the first canonical
\* month, or in that month itself; their effect is part of the balances.
Init ==
  /\ today = FirstMonth
  /\ \E m \in [Imported -> 0..FirstMonth], a \in [Imported -> Accounts] :
       txns = [t \in AllTxns |->
                 IF t \in Imported
                 THEN [Absent EXCEPT !.kind = "expense", !.month = m[t], !.from = a[t],
                                     !.amount = 1, !.revision = 1]
                 ELSE Absent]
  /\ revisions = {}
  /\ balance = [a \in Accounts |-> Opening[a] + Total(a, AllTxns)]
  /\ ledgerRevision = [a \in Accounts |-> 0]
  /\ log = << >>
  /\ batches = {} /\ corrections = {} /\ closures = {} /\ reply = {}

Write(o, s) ==
  \/ \E t \in TxnIds, w \in Writes : Create(o, s, t, w)
  \/ \E t \in AllTxns, w \in Writes :
       \E r \in 1..txns[t].revision, e \in Expectations(Involved(txns[t]) \cup Involved(w)) :
         Edit(o, s, t, w, r, e)
  \/ \E t \in AllTxns :
       \E r \in 1..txns[t].revision, e \in Expectations(Involved(txns[t])) :
         Delete(o, s, t, r, e)
  \/ \E m \in Months, observed \in BOOLEAN, A \in SUBSET Accounts :
       \E after \in SUBSET (Later(m) \cap Recent),
          actual \in [A -> Observations], e \in Expectations(A) :
         Reconcile(o, s, m, observed, after, actual, e)
  \/ \E t \in AllTxns : Correct(o, s, t)
  \/ \E m \in Months : Close(o, s, m)

Next ==
  \/ \E o \in OpIds \ Logged, s \in Subjects : Write(o, s)
  \/ \E o \in Logged, s \in Subjects : \E i \in DOMAIN log : Retry(o, s, log[i].request)
  \/ NextMonth

Spec == Init /\ [][Next]_vars

----------------------------------------------------------------------------
(* Properties. *)

IsEntry(e) ==
  /\ e.kind \in EditableKinds \cup {"reconciliation", "absent"}
  /\ e.month \in 0..today
  /\ {e.from, e.to} \subseteq Accounts \cup {External}
  /\ e.corrects \subseteq AllTxns
  /\ e.revision \in Nat

IsRow(r) == r.txn \in AllTxns /\ r.op \in Logged /\ IsEntry(r.entry)

IsReceipt(x) ==
  /\ x.op \in OpIds /\ x.actor \in Subjects
  /\ DOMAIN x.accounts \subseteq Accounts
  /\ DOMAIN Expected(x.request) \subseteq Accounts
  /\ \A d \in x.deleted : IsEntry(d.entry) /\ \A r \in d.audit : IsRow(r)

IsBatch(b) ==
  /\ b.op \in Logged /\ b.month \in 0..today
  /\ DOMAIN b.items \subseteq Accounts

\* What the tables hold.  Entries are dated no later than today, only completed
\* months are closed, and audit rows, batches, corrections and closes name a
\* logged operation.  (That money is an integer is part of BalanceMatchesLedger.)
TypeOK ==
  /\ today \in Months \ {0}
  /\ DOMAIN txns = AllTxns /\ \A t \in AllTxns : IsEntry(txns[t])
  /\ \A r \in revisions : IsRow(r)
  /\ DOMAIN balance = Accounts
  /\ ledgerRevision \in [Accounts -> Nat]
  /\ log \in Seq(Range(log)) /\ \A x \in Range(log) : IsReceipt(x)
  /\ \A b \in batches : IsBatch(b)
  /\ \A c \in corrections : c.op \in Logged /\ c.txn \in AllTxns /\ c.applied \in 1..today
  /\ \A c \in closures : c.op \in Logged /\ c.month \in 0..(today - 1)
  /\ \A x \in reply : x.answer \in Range(log)

\* The incrementally maintained balance of every account is its opening balance
\* plus the effect of every entry in the table, whatever was created, edited,
\* deleted or re-reconciled in between.
BalanceMatchesLedger ==
  \A a \in Accounts : balance[a] \in Int /\ balance[a] = Opening[a] + Total(a, AllTxns)

\* An entry's audit rows number its revisions 1..n without gap or repetition, the
\* last one is the entry as stored, and each was written by the logged
\* operation it names, which for an edit was computed from the revision before.
AuditOf(rows, entry) ==
  /\ {r.entry.revision : r \in rows} = 1..entry.revision
  /\ \A r, q \in rows : r.entry.revision = q.entry.revision => r = q
  /\ \A r \in rows : r.entry.revision = entry.revision => r.entry = entry

WrittenBy(r) ==
  \E i \in DOMAIN log :
    LET q == log[i].request
    IN /\ log[i].op = r.op
       /\ \/ q.type = "create" /\ q.txn = r.txn /\ r.entry.revision = 1
          \/ q.type = "edit" /\ q.txn = r.txn /\ q.revision + 1 = r.entry.revision
          \/ q.type = "reconcile" /\ q.month = r.entry.month /\ r.entry.from \in DOMAIN q.actual

RevisionAudit ==
  /\ \A t \in AllTxns \ Imported : AuditOf(RowsOf(t), txns[t])
  /\ \A r \in revisions : WrittenBy(r)
  /\ \A i \in DOMAIN log : \A d \in log[i].deleted : AuditOf(d.audit, d.entry)

\* Two accepted operations never both build on the same account state: a request
\* that states the ledger revision it saw is accepted only if it saw the effect
\* of every earlier operation on that account.
NoLostUpdate ==
  \A i, j \in DOMAIN log :
    i < j =>
      \A a \in DOMAIN log[i].accounts \cap DOMAIN Expected(log[j].request) :
        Expected(log[j].request)[a] >= log[i].accounts[a].revision

\* The whole of it as an abstract specification: every step applies one new
\* operation to the account revisions it was computed from, or answers one
\* again with the receipt of that member's very request, or changes neither
\* balances, ledger revisions nor receipts.
Abstract == INSTANCE OperationReceipts WITH version <- ledgerRevision
ImplementsReceipts == Abstract!Spec

\* An entry that is, or was when it was deleted, a reallocation after having
\* moved account a.
Reclassified(a, m) ==
  \/ \E t \in AllTxns :
       /\ txns[t].kind = "reallocate" /\ txns[t].month <= m
       /\ \E r \in RowsOf(t) : a \in Involved(r.entry)
  \/ \E i \in DOMAIN log : \E d \in log[i].deleted :
       /\ d.entry.kind = "reallocate" /\ d.entry.month <= m
       /\ \E r \in d.audit : a \in Involved(r.entry)

\* A reconciliation that observed the balances and is still judged current gives
\* the month-end balance of the ledger, for every account no entry of which was
\* turned into a reallocation: no backdated create, edit or deletion of account
\* activity goes unnoticed by the freshness check the close relies on.
FreshBatchMatchesLedger ==
  \A b \in batches :
    b.observed /\ ReconciliationCurrent(b) =>
      \A a \in DOMAIN b.items :
        MonthEnd(a, b.month) = b.items[a].closing \/ Reclassified(a, b.month)

\* The same without the exception, as the comment on reconciliation_current
\* promises: "Reconciliation stays valid until a later operation changes
\* account activity on or before its closing date."
FreshBatchExact ==
  \A b \in batches :
    b.observed /\ ReconciliationCurrent(b) =>
      \A a \in DOMAIN b.items : MonthEnd(a, b.month) = b.items[a].closing

\* The closed months are an initial segment of the canonical months, each closed
\* once and by an operation of its own.
ClosedInOrder ==
  /\ \A c \in closures : FirstMonth <= c.month /\ \A k \in FirstMonth..c.month : Closed(k)
  /\ \A c, d \in closures : c.month = d.month \/ c.op = d.op => c = d

\* Every close rests on a reconciliation of all the accounts that no operation in
\* between overtook: every entry dated in the month or before it that was created,
\* edited, adjusted or deleted after that reconciliation and before the close is
\* a reallocation.  The exception is wider than it reads: the freshness check
\* judges an entry by what it has become and a deleted one by what it was last,
\* so account activity that was edited into a reallocation in between is excepted
\* too (FreshBatchExact); no other is, whatever is written after the close.
Between(b, o, c) == RowId(b.op) < RowId(o) /\ RowId(o) < RowId(c.op)

ClosedOnFreshReconciliation ==
  \A c \in closures : \E b \in batches :
    /\ b.month = c.month /\ DOMAIN b.items = Accounts
    /\ RowId(b.op) < RowId(c.op)
    /\ \A r \in revisions :
         LET e == txns[r.txn]
         IN Between(b, r.op, c) => e.month > c.month \/ e.kind = "reallocate"
    /\ \A i \in DOMAIN log : \A d \in log[i].deleted :
         Between(b, log[i].op, c) => d.entry.month > c.month \/ d.entry.kind = "reallocate"

\* Once closed, a month stays closed and no step adds, changes or removes an
\* entry dated in it.
ClosedMonthFrozen ==
  [][/\ closures \subseteq closures'
     /\ \A t \in AllTxns :
          \/ Present(t) /\ Closed(txns[t].month)
          \/ txns'[t].kind # "absent" /\ Closed(txns'[t].month)
          => txns'[t] = txns[t]
    ]_vars

\* Corrections, of categories and of accounts, keep pointing at an existing entry
\* of a closed or historical month: nobody can delete or reopen it afterwards.
CorrectionsReferToFrozenMonths ==
  /\ \A c \in corrections : Present(c.txn) /\ Frozen(txns[c.txn].month)
  /\ \A t \in AllTxns : \A x \in txns[t].corrects :
       Present(x) /\ Frozen(txns[x].month)
====
