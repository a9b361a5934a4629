---------------------------- MODULE BudgetLedger ----------------------------
(***************************************************************************)
(* The household's budget plan (server/src/budget_ledger.rs and            *)
(* server/src/budget.rs, with the handlers of server/src/server.rs that    *)
(* call them): recurring allocations and expected income, the receipts     *)
(* that settle it, the append-only movements in which the plan's facts are *)
(* materialised, the balances read from them, and their freezing at the    *)
(* close of a month.                                                       *)
(*                                                                         *)
(* Every handler is one SQLite transaction begun with BEGIN IMMEDIATE and  *)
(* is one step.  Abstracted: amounts are integer cents; a date is its      *)
(* month, and receipts of one month are ordered by their id; the accounts  *)
(* are one pot of euros; the movements of one source are kept as their     *)
(* sum; corrections of one category and month are kept as their sum.  The  *)
(* accounts, the revisions, the operation receipts and the freshness of    *)
(* the reconciliation a close needs are in FinanceLedger.                  *)
(***************************************************************************)
EXTENDS Integers, FiniteSets, FiniteSetsExt, Functions

CONSTANTS
  Categories,   \* ids of spending categories, existing or to be created
  Imported,     \* monthly amounts of those the import brought
  Unallocated,  \* the id of the Unallocated bucket
  External,     \* any system category
  TxnIds,       \* ids of entries, ordered as the database orders them
  Requests,     \* the entries clients ask for
  Plans,        \* the amounts of income members expect, with their currency
  DefaultPlan,  \* the expectation while no setting exists
  Allocations,  \* monthly amounts members give a category
  Observations, \* the adjustments a reconciliation may post
  Corrections,  \* the changes of categories a correction may record
  UsdPerEur,    \* exchange rate of each month
  LastMonth,    \* bound: the calendar stops in this month
  MaxOps        \* bound: operations members ask for

Months == 1..LastMonth
FirstMonth == 1
Buckets == Categories \cup {Unallocated}
Currencies == {"EUR", "USD"}
Money == [amount : Nat, currency : Currencies]
Kinds == {"expense", "income", "reallocate"}

ASSUME ConstantsAssumption ==
  /\ IsFiniteSet(Categories)
  /\ DOMAIN Imported \subseteq Categories /\ Imported \in [DOMAIN Imported -> Nat]
  /\ Unallocated \notin Categories /\ External \notin Buckets
  /\ IsFiniteSet(TxnIds) /\ TxnIds \subseteq Nat
  /\ LastMonth \in Nat \ {0}
  /\ Requests \subseteq [kind : Kinds, from : Buckets \cup {External},
                         to : Buckets \cup {External}, amount : Nat \ {0},
                         currency : Currencies,
                         treatment : SUBSET {"salary", "unexpected", "refund"},
                         expected : SUBSET Months]
  /\ \A r \in Requests : \A x, y \in r.treatment : x = y    \* both are optional
  /\ \A r \in Requests : \A x, y \in r.expected : x = y
  /\ Plans \subseteq Money /\ DefaultPlan \in Money
  /\ Allocations \subseteq Nat
  /\ Observations \subseteq Int \ {0}
  /\ \A d \in Corrections : d \in [DOMAIN d -> Int \ {0}] /\ DOMAIN d \subseteq Buckets
  /\ UsdPerEur \in [Months -> Nat \ {0}]
  /\ MaxOps \in Nat

VARIABLES
  month,        \* the current month in Madrid
  start,        \* budget_ledger_state.start_month: {} or {m}
  opening,      \* budget_ledger_state.opening_unallocated_eur
  drift,        \* what Drift was at activation (only PlanBacked reads it)
  categories,   \* finance_categories that exist, without Unallocated
  periods,      \* category_budget_periods: month -> amount, of each category
  settings,     \* budget_income_expectations: month -> expected amount
  plan,         \* budget_plan_income: month -> instance
  txns,         \* finance_transactions, with their latest valuation
  receipts,     \* budget_income_receipts
  adjusted,     \* net reconciliation adjustments of each month
  corrections,  \* finance_category_correction_items, by month applied
  ledger,       \* budget_ledger_movements, by month
  frozen,       \* budget_month_closures and budget_coverage_closures
  ops           \* how many operations members asked for

facts == <<categories, periods, settings, txns, receipts, adjusted, corrections>>
vars == <<month, start, opening, drift, plan, facts, ledger, frozen, ops>>

----------------------------------------------------------------------------
(* Amounts. *)

HalfEven(n, d) ==
  LET q == n \div d
      r == n % d
  IN  IF 2 * r > d \/ (2 * r = d /\ q % 2 = 1) THEN q + 1 ELSE q

Positive(n) == IF n < 0 THEN 0 ELSE n

Eur(money, m) ==
  IF money.currency = "EUR" THEN money.amount ELSE HalfEven(money.amount, UsdPerEur[m])

\* A setting applies from its month until the next one.
Applicable(table, m) == table[Max({k \in DOMAIN table : k <= m})]

Expected(m) ==
  IF \E k \in DOMAIN settings : k <= m THEN Applicable(settings, m) ELSE DefaultPlan

Allocation(c, m) == Applicable(periods[c], m)

TotalAllocation(m) == SumFunction([c \in categories |-> Allocation(c, m)])

----------------------------------------------------------------------------
(* Months. *)

Closed == DOMAIN frozen
Started(m) == \E s \in start : s <= m
RequireOpen(m) == FirstMonth <= m /\ m <= month /\ m \notin Closed

Known == categories \cup (IF start = {} THEN {} ELSE {Unallocated})

----------------------------------------------------------------------------
(* Expected income and the receipts that settle it. *)

Instance(m) ==
  [amount |-> Expected(m).amount, currency |-> Expected(m).currency,
   eur |-> Eur(Expected(m), m), completed |-> {}, shortfall |-> 0]

\* ensure_income for every open month from the start.
Materialised(instances) ==
  [m \in DOMAIN instances \cup {k \in Months : Started(k) /\ RequireOpen(k)} |->
     IF m \in DOMAIN instances THEN instances[m] ELSE Instance(m)]

Treatment(t) == IF t \in DOMAIN receipts THEN receipts[t].treatment ELSE "none"

MatchedReceipts(k, through) ==
  {t \in DOMAIN txns \cap DOMAIN receipts :
     /\ txns[t].kind = "income" /\ txns[t].month <= through
     /\ receipts[t].expected = {k}
     /\ receipts[t].treatment \in {"salary", "legacy"}}

\* How much of the expectation a receipt settles, in the expectation's currency.
Native(t, p) ==
  IF txns[t].currency = p.currency THEN txns[t].amount
  ELSE IF p.currency = "EUR" THEN txns[t].eur
  ELSE IF p.eur = 0 THEN 0
  ELSE HalfEven(txns[t].eur * p.amount, p.eur)

FundingPortion(native, p) ==
  IF p.amount = 0 THEN 0 ELSE HalfEven(native * p.eur, p.amount)

ReceivedAmount(k, rows) == SumFunction([t \in rows |-> Native(t, plan[k])])

CompletedBy(k, through) == \E m \in plan[k].completed : m <= through

\* What is still expected of k, were it to stand as instance p.
Remainder(k, p, through) ==
  LET received == SumFunction([t \in MatchedReceipts(k, through) |-> Native(t, p)])
  IN  FundingPortion(Positive(p.amount - received), p)

Outstanding(k, through) ==
  IF CompletedBy(k, through) THEN 0 ELSE Remainder(k, plan[k], through)

Earlier(t, rows) ==
  {u \in rows : \/ txns[u].month < txns[t].month
                \/ txns[u].month = txns[t].month /\ u < t}

\* The part of the planned euros a receipt covers, given the receipts before it.
CoveredBy(k, t) ==
  LET rows == Earlier(t, MatchedReceipts(k, month))
      settled(S) == Min({plan[k].amount, ReceivedAmount(k, S)})
  IN  FundingPortion(settled(rows \cup {t}), plan[k]) - FundingPortion(settled(rows), plan[k])

\* (Mutant: legacy receipts, whose income a category has, counted as well.)
ExcessWithLegacy(k, m) ==
  SumFunction([t \in {u \in MatchedReceipts(k, month) : txns[u].month = m} |->
                 txns[t].eur - CoveredBy(k, t)])

\* Income of month m beyond the planned euros of expectation k.
Excess(k, m) ==
  SumFunction([t \in {u \in MatchedReceipts(k, month) :
                        txns[u].month = m /\ receipts[u].treatment # "legacy"} |->
                 txns[t].eur - CoveredBy(k, t)])

----------------------------------------------------------------------------
(* Movements: a key is <<bucket, kind, source>>, the source a month or an  *)
(* entry.                                                                  *)

EntriesOf(m) == {t \in DOMAIN txns : txns[t].month = m}

Sides(t, bucket, amount) ==
  (IF txns[t].to = bucket THEN amount ELSE 0) - (IF txns[t].from = bucket THEN amount ELSE 0)

\* (Mutant: income from before the activation forgotten.)
SpendsWithoutLegacy(t) ==
  \/ txns[t].kind = "expense"
  \/ txns[t].kind = "income" /\ Treatment(t) = "refund"

Spends(t) ==
  \/ txns[t].kind = "expense"
  \/ txns[t].kind = "income" /\ Treatment(t) \in {"refund", "legacy"}

Unplanned(t) == txns[t].kind = "income" /\ Treatment(t) \in {"unexpected", "none"}

\* What the facts ask of a movement's source in month m: zero when it is gone.
Wanted(m, key) ==
  LET bucket == key[1]
      kind   == key[2]
      source == key[3]
      posted == source \in EntriesOf(m)
  IN CASE kind = "funding" -> plan[m].eur
       [] kind = "allocation" ->
            IF bucket = Unallocated THEN -TotalAllocation(m) ELSE Allocation(bucket, m)
       [] kind = "spending" ->
            IF posted /\ Spends(source) THEN Sides(source, bucket, txns[source].eur) ELSE 0
       [] kind = "reallocation" ->
            IF posted /\ txns[source].kind = "reallocate"
            THEN Sides(source, bucket, txns[source].amount) ELSE 0
       [] kind = "income" ->
            IF posted /\ Unplanned(source) THEN txns[source].eur ELSE 0
       [] kind = "excess" -> Excess(source, m)
       [] kind = "settlement" ->
            IF plan[source].completed = {m} THEN -plan[source].shortfall ELSE 0
       [] kind = "correction" -> -corrections[m][bucket]

Sources(m) ==
  {<<Unallocated, "funding", m>>}
  \cup {<<c, kind, m>> : c \in Known, kind \in {"allocation", "correction"}}
  \cup {<<c, kind, t>> : c \in Known, kind \in {"spending", "reallocation"}, t \in EntriesOf(m)}
  \cup {<<Unallocated, "income", t>> : t \in EntriesOf(m)}
  \cup {<<Unallocated, kind, k>> : kind \in {"excess", "settlement"}, k \in DOMAIN plan}

\* Differences are appended, never rows changed: a source that has movements
\* keeps them, and they now add up to what the facts of the next state want.
Appended(m) ==
  [key \in DOMAIN ledger[m] \cup {k \in Sources(m)' : Wanted(m, k)' # 0} |-> Wanted(m, key)']

Sync ==
  ledger' = [m \in Months |-> IF RequireOpen(m) /\ Started(m)' THEN Appended(m) ELSE ledger[m]]

----------------------------------------------------------------------------
(* Balances: computed from the facts before the start, from the movements  *)
(* since, and read from the snapshot where the month is closed.            *)

Moved(bucket, kinds, m) ==
  SumFunctionOnSet(ledger[m], {key \in DOMAIN ledger[m] : key[1] = bucket /\ key[2] \in kinds})

Entered(c, m) ==
  SumFunction([t \in EntriesOf(m) |->
                 Sides(t, c, IF txns[t].kind = "reallocate" THEN txns[t].amount ELSE txns[t].eur)])

Monthly(c, m) ==
  IF Started(m) /\ m \in DOMAIN plan THEN Moved(c, {"allocation"}, m) ELSE Allocation(c, m)

\* history_at: what month m adds to the balance of a spending category.
CategoryChange(c, m) ==
  Monthly(c, m) - corrections[m][c]
    + (IF Started(m) THEN Moved(c, {"spending", "reallocation"}, m) ELSE Entered(c, m))

\* (Mutant: the forecast of a month forgets what it allocates.)
UnallocatedChangeUnspent(m) ==
  LET funded == <<Unallocated, "funding", m>> \in DOMAIN ledger[m]
  IN  Moved(Unallocated, {"spending", "reallocation", "income", "excess", "settlement",
                          "correction"}, m)
        + (IF funded THEN Moved(Unallocated, {"funding", "allocation"}, m)
           ELSE Eur(Expected(m), m))

\* apply: what month m adds to Unallocated; a month that is not materialised
\* shows its forecast.
UnallocatedChange(m) ==
  LET funded == <<Unallocated, "funding", m>> \in DOMAIN ledger[m]
      forecast == Eur(Expected(m), m) - SumFunction([c \in categories |-> Monthly(c, m)])
  IN  Moved(Unallocated, {"spending", "reallocation", "income", "excess", "settlement",
                          "correction"}, m)
        + (IF funded THEN Moved(Unallocated, {"funding", "allocation"}, m) ELSE forecast)

\* The balances month after month, the months of "snapshots" as they were frozen.
\* A category missing from a snapshot keeps its balance.
History(snapshots) ==
  LET balance[m \in 0..month] ==
        [c \in Known |->
           IF m = 0 THEN IF c = Unallocated THEN opening ELSE 0
           ELSE IF m \in DOMAIN snapshots THEN
             IF c \in DOMAIN snapshots[m].balances THEN snapshots[m].balances[c]
             ELSE balance[m - 1][c]
           ELSE IF c # Unallocated THEN balance[m - 1][c] + CategoryChange(c, m)
           ELSE IF Started(m) THEN balance[m - 1][c] + UnallocatedChange(m)
           ELSE balance[m - 1][c]]
  IN  balance

Shown == History(frozen)

\* What a statement of month m lists: Unallocated only from the start.
Listed(m) == {c \in Known : c # Unallocated \/ Started(m)}

CashChange(t) ==
  CASE txns[t].kind = "expense" -> -txns[t].eur
    [] txns[t].kind = "income" -> txns[t].eur
    [] txns[t].kind = "reallocate" -> 0

\* cash at the end of month m, or today in the current month.
Cash(m) ==
  SumFunction([t \in {u \in DOMAIN txns : txns[u].month <= m} |-> CashChange(t)])
    + SumFunctionOnSet(adjusted, 1..m)

\* coverage, of the balances in "statement".
Coverage(m, statement) ==
  [cash |-> Cash(m),
   assigned |-> SumFunctionOnSet(statement, DOMAIN statement \ {Unallocated}),
   unallocated |-> statement[Unallocated],
   outstanding |-> SumFunction([k \in {j \in DOMAIN plan : j <= m} |-> Outstanding(k, m)])]

Statement(history, m) ==
  LET balances == Restrict(history[m], Listed(m))
  IN  [balances |-> balances,
       coverage |-> IF Started(m) THEN {Coverage(m, balances)} ELSE {}]

\* What separates the plan from the cash through month m: reconciliations and
\* one-sided corrections, which change only one of the two; entries before the
\* start that involve Unallocated; an expectation whose receipts changed after it
\* was completed; and legacy receipts, which credited a category and count as
\* received too.
Drift(m) ==
  LET planned == {k \in DOMAIN plan : k <= m}
      before == {t \in DOMAIN txns : ~Started(txns[t].month)}
      covered(k, treatment) ==
        SumFunction([t \in {u \in MatchedReceipts(k, m) : receipts[u].treatment = treatment} |->
                       CoveredBy(k, t)])
      gone(k) == IF CompletedBy(k, m)
                 THEN plan[k].shortfall + covered(k, "salary") - plan[k].eur
                 ELSE -covered(k, "legacy")
  IN  SumFunction([k \in 1..m |-> adjusted[k] + SumFunctionOnSet(corrections[k], Buckets)])
        + SumFunction([t \in before |-> Sides(t, Unallocated, txns[t].eur)])
        + SumFunction([k \in planned |-> gone(k)])

----------------------------------------------------------------------------
(* Entries: create, edit and delete of finance_transactions.               *)

\* normalize: income without a category belongs to Unallocated.
Into(r) ==
  IF r.kind = "income" /\ r.to = External /\ r.treatment # {"refund"} THEN Unallocated ELSE r.to

\* A reallocation moves an amount of euros between two categories.
InEuros(r) == r.kind = "reallocate" => r.currency = "EUR"

Valid(r) ==
  /\ InEuros(r)
  /\ CASE r.kind = "expense" -> r.from \in Known \ {Unallocated} /\ r.to = External
       [] r.kind = "income" -> r.from = External /\ Into(r) \in Known
       [] r.kind = "reallocate" -> {r.from, r.to} \subseteq Known /\ r.from # r.to
  /\ r.kind # "income" => r.treatment = {} /\ r.expected = {}
  /\ r.treatment = {"refund"} => r.to # Unallocated

Entry(r, m) ==
  [kind |-> r.kind, month |-> m, from |-> r.from, to |-> Into(r),
   amount |-> r.amount, currency |-> r.currency, eur |-> Eur(r, m)]

\* receipt: only the month of the receipt is matched by itself, other months
\* are chosen.
Chosen(r) == IF r.treatment = {} THEN "salary" ELSE CHOOSE x \in r.treatment : TRUE
Target(r, m) == IF r.expected = {} THEN {m} ELSE r.expected

NoOptions(r) == r.treatment = {} /\ r.expected = {}

ReceiptKept(t, r) == r.kind = "income" /\ NoOptions(r) /\ t \in DOMAIN receipts

Completed(k) == k \in DOMAIN plan /\ plan[k].completed # {}

\* (Mutant: salary matched with any month the client names.)
ReceiptAllowedAnyMonth(t, r, m) ==
  \/ start = {}
  \/ r.kind # "income"
  \/ ReceiptKept(t, r)
  \/ Chosen(r) # "salary" => r.expected = {}

ReceiptAllowed(t, r, m) ==
  \/ start = {}
  \/ r.kind # "income"
  \/ ReceiptKept(t, r)
  \/ Chosen(r) # "salary" /\ r.expected = {}
  \/ /\ Chosen(r) = "salary"
     /\ \A k \in Target(r, m) :
          /\ k <= m /\ Started(k)
          /\ \/ ~Completed(k)
             \/ t \in DOMAIN receipts /\ receipts[t] = [treatment |-> "salary", expected |-> {k}]

WithReceipt(t, r, m) ==
  LET dropped == t \in DOMAIN receipts /\ receipts[t].treatment # "legacy"
      receipt == [treatment |-> Chosen(r),
                  expected |-> IF Chosen(r) = "salary" THEN Target(r, m) ELSE {}]
  IN  IF start = {} \/ ReceiptKept(t, r) THEN receipts
      ELSE IF r.kind = "income"
           THEN [u \in DOMAIN receipts \cup {t} |-> IF u = t THEN receipt ELSE receipts[u]]
      ELSE IF dropped THEN Restrict(receipts, DOMAIN receipts \ {t})
      ELSE receipts

Book(t, r, m) ==
  /\ ops < MaxOps
  /\ RequireOpen(m)
  /\ Valid(r)
  /\ ReceiptAllowed(t, r, m)
  /\ txns' = [u \in DOMAIN txns \cup {t} |-> IF u = t THEN Entry(r, m) ELSE txns[u]]
  /\ receipts' = WithReceipt(t, r, m)
  /\ plan' = Materialised(plan)
  /\ ops' = ops + 1
  /\ UNCHANGED <<month, start, opening, drift, categories, periods, settings, adjusted,
                 corrections, frozen>>
  /\ Sync

\* Clients draw a fresh id for every entry: the server would attach the receipt
\* row a deleted entry left behind to an entry that takes its id again.
Create(t, r, m) == t \notin DOMAIN txns \cup DOMAIN receipts /\ Book(t, r, m)

\* An edit stays in its month.
Edit(t, r) == t \in DOMAIN txns /\ Book(t, r, txns[t].month)

\* (Mutant: the month not checked.)
Stored(t) == t \in DOMAIN txns

Deletable(t) == t \in DOMAIN txns /\ RequireOpen(txns[t].month)

\* The receipt's row is not deleted with its entry.
Delete(t) ==
  /\ ops < MaxOps
  /\ Deletable(t)
  /\ txns' = Restrict(txns, DOMAIN txns \ {t})
  /\ plan' = Materialised(plan)
  /\ ops' = ops + 1
  /\ UNCHANGED <<month, start, opening, drift, categories, periods, settings, receipts,
                 adjusted, corrections, frozen>>
  /\ Sync

----------------------------------------------------------------------------
(* The plan: activation, allocations, expected income, corrections.        *)

\* A reconciliation posts its adjustments and leaves the plan alone.
Reconcile(m, delta) ==
  /\ ops < MaxOps
  /\ RequireOpen(m)
  /\ adjusted' = [adjusted EXCEPT ![m] = @ + delta]
  /\ ops' = ops + 1
  /\ UNCHANGED <<month, start, opening, drift, categories, periods, settings, plan, txns,
                 receipts, corrections, ledger, frozen>>

\* Startup in a database without a plan.  What income already did to the
\* categories stays: its receipts are marked legacy.
Activate ==
  LET remaining == SumFunctionOnSet(Shown[month], categories)
      funding == Eur(Expected(month), month) - TotalAllocation(month)
  IN  /\ start = {}
      /\ start' = {month}
      /\ UNCHANGED <<month, categories, periods, settings, txns, adjusted, corrections, frozen, ops>>
      /\ receipts' = [t \in {u \in DOMAIN txns : txns[u].kind = "income"} |->
                        [treatment |-> "legacy",
                         expected |-> IF txns[t].month = month THEN {month} ELSE {}]]
      /\ plan' = [m \in {month} |-> Instance(m)]
      /\ opening' = Cash(month) - remaining + Outstanding(month, month)' - funding
      /\ drift' = Drift(month)'
      /\ Sync

\* Startup and every read of the finances.
Read ==
  /\ start # {}
  /\ plan' = Materialised(plan)
  /\ UNCHANGED <<month, start, opening, drift, facts, frozen, ops>>
  /\ Sync

\* The categories' amounts from the current or a later month on.
SaveBudget(c, m, amount) ==
  /\ ops < MaxOps
  /\ month <= m /\ \A k \in Closed : k < m
  /\ c \in categories
  /\ periods' = [periods EXCEPT ![c] =
                   [k \in DOMAIN @ \cup {m} |-> IF k = m THEN amount ELSE @[k]]]
  /\ plan' = Materialised(plan)
  /\ ops' = ops + 1
  /\ UNCHANGED <<month, start, opening, drift, categories, settings, txns, receipts, adjusted,
                 corrections, frozen>>
  /\ Sync

\* A scheduled change is withdrawn before its month comes.
CancelBudget(c, m) ==
  /\ ops < MaxOps
  /\ month < m /\ \A k \in Closed : k < m
  /\ c \in categories
  /\ periods' = [periods EXCEPT ![c] = Restrict(@, DOMAIN @ \ {m})]
  /\ ops' = ops + 1
  /\ UNCHANGED <<month, start, opening, drift, categories, settings, plan, txns, receipts,
                 adjusted, corrections, ledger, frozen>>

CreateCategory(c, amount) ==
  /\ ops < MaxOps
  /\ RequireOpen(month)
  /\ c \in Categories \ categories
  /\ categories' = categories \cup {c}
  /\ periods' = [periods EXCEPT ![c] =
                   [m \in {FirstMonth, month} |-> IF m = month THEN amount ELSE 0]]
  /\ plan' = Materialised(plan)
  /\ ops' = ops + 1
  /\ UNCHANGED <<month, start, opening, drift, settings, txns, receipts, adjusted, corrections,
                 frozen>>
  /\ Sync

\* The expectations of open months that are not complete follow the setting.
Repriced(from) ==
  [m \in DOMAIN plan |->
     IF m >= from /\ plan[m].completed = {} /\ m \notin Closed THEN Instance(m)' ELSE plan[m]]

SaveIncome(m, money) ==
  /\ ops < MaxOps
  /\ month <= m /\ \A k \in Closed : k < m
  /\ settings' = [k \in DOMAIN settings \cup {m} |-> IF k = m THEN money ELSE settings[k]]
  /\ plan' = [k \in DOMAIN Materialised(plan) |->
                IF k \in DOMAIN plan THEN Repriced(m)[k] ELSE Instance(k)']
  /\ ops' = ops + 1
  /\ UNCHANGED <<month, start, opening, drift, categories, periods, txns, receipts, adjusted,
                 corrections, frozen>>
  /\ Sync

\* complete_budget_income: the remainder of the expectation is given up.
Complete(k) ==
  LET synced == Materialised(plan)
  IN  /\ ops < MaxOps
      /\ start # {} /\ RequireOpen(month)
      /\ k <= month /\ k \in DOMAIN synced /\ ~Completed(k)
      /\ plan' = [synced EXCEPT ![k].completed = {month},
                                ![k].shortfall = Remainder(k, synced[k], month)]
      /\ ops' = ops + 1
      /\ UNCHANGED <<month, start, opening, drift, facts, frozen>>
      /\ Sync

\* record_category_correction: an entry of a closed month, or of the months
\* before the first (month 0), is put right in the current month.
Correct(original, deltas) ==
  /\ ops < MaxOps
  /\ original < FirstMonth \/ (original \in Closed /\ EntriesOf(original) # {})
  /\ RequireOpen(month)
  /\ DOMAIN deltas \subseteq Known
  /\ corrections' = [corrections EXCEPT ![month] =
                       [c \in Buckets |-> @[c] + (IF c \in DOMAIN deltas THEN deltas[c] ELSE 0)]]
  /\ plan' = Materialised(plan)
  /\ ops' = ops + 1
  /\ UNCHANGED <<month, start, opening, drift, categories, periods, settings, txns, receipts,
                 adjusted, frozen>>
  /\ Sync

\* (Mutant: months closed in any order.)
AnyOrder(m) == m \in Months

InOrder(m) == \A k \in FirstMonth..(m - 1) : k \in Closed

\* The results are frozen as the movements, brought up to date, give them.
Close(m) ==
  /\ m < month /\ m \notin Closed
  /\ InOrder(m)
  /\ plan' = Materialised(plan)
  /\ UNCHANGED <<month, start, opening, drift, facts, ops>>
  /\ Sync
  /\ \E closes \in {frozen} :
       frozen' = [k \in DOMAIN closes \cup {m} |->
                    IF k = m THEN Statement(History(closes), m)' ELSE closes[k]]

Tick ==
  /\ month < LastMonth
  /\ month' = month + 1
  /\ UNCHANGED <<start, opening, drift, plan, facts, ledger, frozen, ops>>

Empty == [m \in {} |-> 0]

Init ==
  /\ month = FirstMonth
  /\ start = {} /\ opening = 0 /\ drift = 0
  /\ categories = DOMAIN Imported
  /\ periods = [c \in Categories |->
                  IF c \in DOMAIN Imported THEN [m \in {FirstMonth} |-> Imported[c]] ELSE Empty]
  /\ settings = Empty /\ plan = Empty /\ txns = Empty /\ receipts = Empty
  /\ adjusted = [m \in Months |-> 0]
  /\ corrections = [m \in Months |-> [c \in Buckets |-> 0]]
  /\ ledger = [m \in Months |-> Empty]
  /\ frozen = Empty
  /\ ops = 0

Next ==
  \/ \E t \in TxnIds, r \in Requests :
       \/ \E m \in Months : Create(t, r, m)
       \/ Edit(t, r)
  \/ \E t \in TxnIds : Delete(t)
  \/ \E m \in Months, delta \in Observations : Reconcile(m, delta)
  \/ Activate
  \/ Read
  \/ \E c \in Categories, m \in Months, amount \in Allocations : SaveBudget(c, m, amount)
  \/ \E c \in Categories, m \in Months : CancelBudget(c, m)
  \/ \E c \in Categories, amount \in Allocations : CreateCategory(c, amount)
  \/ \E m \in Months, money \in Plans : SaveIncome(m, money)
  \/ \E k \in Months : Complete(k)
  \/ \E original \in 0..LastMonth, deltas \in Corrections : Correct(original, deltas)
  \/ \E m \in Months : Close(m)
  \/ Tick

Spec == Init /\ [][Next]_vars

----------------------------------------------------------------------------
(* Properties. *)

\* Every table holds rows of its kind, months that are closed have begun, and
\* every category that exists has an allocation from the first month on.
TypeOK ==
  /\ month \in Months
  /\ start \in SUBSET Months /\ Cardinality(start) <= 1
  /\ opening \in Int /\ drift \in Int
  /\ categories \in SUBSET Categories
  /\ \A c \in categories :
       /\ DOMAIN periods[c] \subseteq Months /\ FirstMonth \in DOMAIN periods[c]
       /\ \A m \in DOMAIN periods[c] : periods[c][m] \in Nat
  /\ DOMAIN settings \subseteq Months
  /\ DOMAIN plan \subseteq 1..month
  /\ \A k \in DOMAIN plan :
       plan[k] \in [amount : Nat, currency : Currencies, eur : Nat,
                    completed : SUBSET Months, shortfall : Nat]
  /\ \A t \in DOMAIN txns :
       txns[t] \in [kind : Kinds, month : Months, from : Buckets \cup {External},
                    to : Buckets \cup {External}, amount : Nat, currency : Currencies,
                    eur : Nat]
  /\ DOMAIN receipts \subseteq TxnIds
  /\ \A t \in DOMAIN receipts : receipts[t].expected \subseteq DOMAIN plan
  /\ adjusted \in [Months -> Int]
  /\ corrections \in [Months -> [Buckets -> Int]]
  /\ \A m \in Months : \A key \in DOMAIN ledger[m] :
       key[1] \in Buckets /\ ledger[m][key] \in Int
  /\ Closed \subseteq 1..(month - 1)
  /\ ops \in 0..MaxOps

\* From the activation on, cash and what is still expected back the categories
\* and Unallocated together, whatever is posted, edited, deleted, allocated,
\* moved, received, completed, closed or created since, but for the known drift.
\* Each expectation that is not complete may be off by a cent, as the part received
\* and the part outstanding are rounded by themselves, and so may the opening, which
\* was taken when part of the first expectation had been received.
PlanBacked ==
  \A m \in {k \in Months : Started(k) /\ k <= month /\ k \in DOMAIN plan} :
    LET c == Coverage(m, Shown[m])
        gap == c.cash + c.outstanding - c.assigned - c.unallocated - (Drift(m) - drift)
        cents == 1 + Cardinality({k \in DOMAIN plan : k <= m /\ ~CompletedBy(k, m)})
    IN  gap \in -cents..cents

\* The movements of a closed month, which nothing may touch, are still what the
\* facts ask for: no accepted operation in a later month changes what a closed
\* month should have recorded.
ClosedBooksAgree ==
  \A m \in Closed :
    Started(m) /\ m \in DOMAIN plan =>
      /\ \A key \in DOMAIN ledger[m] : ledger[m][key] = Wanted(m, key)
      /\ \A key \in Sources(m) \ DOMAIN ledger[m] : Wanted(m, key) = 0

\* A frozen statement is what the facts and movements still give when every
\* month is computed again from the opening: no backdated change slips past it.
FrozenAgree ==
  LET replayed == History(Empty)
  IN  \A m \in Closed :
        /\ \A c \in DOMAIN frozen[m].balances : replayed[m][c] = frozen[m].balances[c]
        /\ \A c \in Known \ DOMAIN frozen[m].balances : c # Unallocated => replayed[m][c] = 0
        /\ frozen[m].coverage # {} =>
             frozen[m].coverage = {Coverage(m, Restrict(replayed[m], DOMAIN frozen[m].balances))}

\* What an open month of the plan adds to Unallocated is what was posted to it there,
\* as the comment of apply says: no later setting changes a month whose expectation
\* has its fixed euros. (It does: a month that expects nothing has no funding movement,
\* and apply takes it for one that is still to be materialised.)
RebuiltFromMovements ==
  \A m \in DOMAIN plan \ Closed :
    UnallocatedChange(m) =
      SumFunctionOnSet(ledger[m], {key \in DOMAIN ledger[m] : key[1] = Unallocated})

\* Switching the ledger on changes no category's balance in any month.
ActivationPreserves ==
  [][Activate => \A m \in 1..month, c \in categories : Shown'[m][c] = Shown[m][c]]_vars

\* A reading that materialises the current month shows the balances that were
\* forecast without it: posting the recurring plan counts nothing twice.
ReadChangesNothing ==
  [][Read => \A m \in 1..month : \A c \in Known : Shown'[m][c] = Shown[m][c]]_vars
=============================================================================
