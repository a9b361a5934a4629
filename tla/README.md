# Presto: a verification development

TLA+ models of the household finance application in this repository, TLC
configurations that check them on small instances, and TLAPS proofs of what
matters most for every instance. Paths below are relative to `src/`.

## 1. The system

Two household members share one budget. A Rust server (`server/`) keeps the
canonical finance ledger in one SQLite database; a browser workspace
(`web/`) and a native Android app (`native-android/`) write to it; the app works
offline and synchronises later; the server alerts the partner's phones through
Firebase Cloud Messaging; an older path reaches a Google spreadsheet through an
Apps Script (`apps-script/`).

| Component | Source | State it keeps | Operations |
|---|---|---|---|
| Canonical finance ledger | `server/src/server.rs` 2463–5584, `budget.rs`, migrations 0004, 0007 | transactions and their audit revisions, account balances and ledger revisions, operation receipts, reconciliation batches, category corrections, month closes | create, edit, delete, reconcile, correct, close a month, retry |
| Budget plan ledger | `server/src/budget_ledger.rs`, migration 0014 | activation, expected income, receipts, append-only movements | sync of a transaction's movements, complete, coverage |
| Budget months | `server/src/budget.rs`, `server.rs` 5102–5583 | categories, their recurring allocations, frozen statements of closed months | create a category, set an allocation, read a month, close it |
| Valuation and decimals | `server/src/finance_model.rs` | none | decimal text arithmetic, prior-rate selection, TARGET calendar, projections |
| Finance read model | `server/src/finance_read_model.rs` | none | snapshot, search, paging |
| Login and sessions | `server/src/server.rs` 318–988, 1150–1176, 5586–5848, migrations 0001, 0002, 0010, 0015 | sign-in states, handoffs, sessions, consents, Google sessions and account | sign in, exchange, sign out, consent, refresh, revoke |
| Partner alerts | `server/src/push.rs`, `PartnerPush.kt`, migration 0016 | device registrations, alert outbox; on the phone: owner, preference, alerts seen | register, enqueue, drain, receive |
| Android entries and sync | `Repository.kt`, `Storage.kt`, `Sync.kt`, `core/Entry.kt` | Room: outbox, confirmed cache, draft; preferences: deletion being retried; memory: draft on screen, autosave | compose, save, review, retry, sync, delete, sign in and out |
| Android session | `Repository.kt`, `Api.kt`, `MainActivity.kt` | vault with the bearer session | login, logout, expire |
| Backup and restore | `server.rs` 1755–2125, `Recovery.kt`, `Repository.kt` 825–860, `presto-admin.rs` 2166–2575 and 2976–3268 | on the phone: generations of encrypted copies, throttle; the operator's file | export, keep, prune, restore, import |
| Spreadsheet gateway | `server.rs` run_gateway, `apps-script/Code.js` | spreadsheet rows, in the service | append, edit |
| Importer and administration | `server/src/bin/presto-admin.rs` | archives | build, verify and compare an archive; import and file copies see Backup |
| Screens, entry form logic, web client, deployment | `Ui.kt`, `core/*.kt`, `web/App.tsx`, `scripts/` | nothing durable | |

How they interact:

- The clients call the server over HTTPS with an *operation id*. A write is one
  SQLite transaction begun with `BEGIN IMMEDIATE`: it inserts the operation's
  receipt first (`ON CONFLICT DO NOTHING`), so that a second request with the
  same id finds it and is either answered with the stored response or refused.
- A create commits its alert rows in the same transaction; a worker drains them
  every five seconds and calls the provider between transactions.
- A closed month is read by every handler that writes an entry; a
  reconciliation is read by the close; both look at rows written by other
  handlers since.
- The app keeps every confirmed write in Room until a snapshot of the server has
  been merged over it. Its three mutexes (`authMutex`, `syncMutex`, `mutation`)
  are never held across *all* of a network exchange, so sign-in, saving and
  autosave interleave with a sync.
- A phone's backup reads the whole ledger table by table while the others write; its
  copy outlives the server and comes back through a restore on a server that has lost
  its database.
- The budget plan's movements are written in the transaction of the entry they come
  from; the close freezes what they add up to.
- A request to the identity provider or to Google lasts arbitrarily long. Sign-out,
  revocation and other callbacks run in between; each handler re-reads what it
  needs in the statement that writes.

What is hard here, and what a unit test hardly reaches: two members computing
writes from the same balances; a freshness check on rows that were edited or
deleted since; retries and late requests after lost answers; a process that
dies between two stores; a session that ends while somebody else's answer is on
its way; an alert whose recipient changes while the provider holds it.
`PROJECT.json` lists each such place under `hazards`, at its line, with the
properties that watch it, or with a note where none does yet.

What makes each component correct, in a sentence each:

- *Ledger*: balances are the sum of the entries; every revision is audited; an
  operation takes effect once and on what its author saw; closed months do not
  change; months close in order and on a reconciliation nothing overtook.
- *Entries and sync*: nothing confirmed is lost, doubled, hidden or applied to another
  version of the entry than it was composed on, and what waits is at last sent.
- *Alerts*: shown to the right member, on the phone where that member is signed
  in, once; a good registration stays; the outbox drains.
- *Sessions*: a sign-in and a handoff are worth one credential; ending a session
  ends everything under it, whatever was under way.
- *Budget plan*: categories, Unallocated and what is still expected together stay
  backed by the cash; what a closed month's books record is what its facts ask for;
  neither switching the plan on nor reading it changes a balance.
- *Recovery*: every copy is one committed moment and can be restored; a restore is all
  or nothing and overwrites nothing; what is written gets into a copy on a phone in use.
- *Valuation* (modelled only as far as the ledgers need it): the decimal operations are
  exact within their stated scale; a rate is the last published one.

## 2. Modules

| Module | What it is | Lines of code behind it |
|---|---|---|
| `FinanceLedger` | the server's ledger, one action per handler | `server.rs`, `budget.rs`, migration 0004 |
| `OperationReceipts` | abstract specification that `FinanceLedger` implements | none: what the operations promise |
| `MobileSync` | the phone's entries and the server it relies on | `Repository.kt`, `Entry.kt`, `Sync.kt`, and the handlers again |
| `PartnerAlerts` | registrations, outbox, worker, provider, phone | `push.rs`, `PartnerPush.kt`, `Repository.kt` |
| `LoginSessions` | sign-in, handoff, Google sessions, revocation | `server.rs` |
| `BudgetLedger` | the budget plan: allocations, expected income, receipts, movements, coverage, closes | `budget_ledger.rs`, `budget.rs`, `server.rs` |
| `Recovery` | backups, restores, import, lost databases | `server.rs`, `Recovery.kt`, `Repository.kt`, `presto-admin.rs` |
| `FinanceLedgerProofs`, `LoginSessionsProofs`, `MobileSyncProofs`, `MobileSeenProofs`, `PartnerAlertsProofs`, `BudgetLedgerProofs`, `RecoveryProofs` | theorems | |
| `FiniteSums` | what a sum over a finite set returns: lemmas for the two ledgers and the alerts | none |
| `MC*` | constants and symmetry for TLC | |

The `map` of `PROJECT.json` gives the lines behind each definition.
Definitions marked `\* mutant` are faulty variants of the definition that
follows them; each property is shown to fail when one of them is put in its
place. They are not part of the specifications.

### FinanceLedger

| Variable | Code |
|---|---|
| `today` | `budget::today()`, Madrid time, by month |
| `txns` | `finance_transactions`; an id without a row is `Absent` |
| `revisions` | `finance_transaction_revisions`, deleted by cascade with the entry |
| `balance`, `ledgerRevision` | `finance_accounts.current_native_balance`, `.ledger_revision` |
| `log` | `finance_operations` in rowid order, with the stored response |
| `batches` | `reconciliation_batches` with their items |
| `corrections` | `finance_category_corrections` |
| `closures` | `budget_month_closures` |
| `reply` | the last success sent to a client |

An action is a whole accepted request: `Create`, `Edit`, `Delete`, `Reconcile`,
`Correct`, `Close` include the receipt, the audit row, the balances and their
revisions; `Retry` is the conflict branch all of them share; `NextMonth` is the
calendar. A refused or crashed request is rolled back by SQLite and is no step.
Clients may state any entry revision and any account revisions they once loaded,
so every interleaving of loading and writing by several members is covered
without modelling the clients. The conflict branches look for evidence of the
first request (an audit row, a batch, a correction, a close) besides comparing
member and payload: `Evidence` is that lookup.

Abstracted: one currency and integer cents; a date is its month, month 0 standing
for all months before the first canonical one; categories, texts and rate lookup
are left out; the payload fingerprint is the payload; `sync_transactions` of the
budget plan, which create, edit and delete call, is in `BudgetLedger`, which in turn
leaves out accounts, revisions and receipts. `Init` is what the importer leaves.

### MobileSync

`server`, `receipts` are the tables the phone relies on, `late` the requests the
HTTP client gave up that may still arrive. `outbox`, `cache`, `stored` (Room) and
`deletion`, `session` (preferences, vault) survive a crash; `draft`, `autosave`,
`holder` (the sync mutex), `own`, `todo`, `call`, `fresh` do not. `issued`,
`spent`, `withdrawn` are history variables used by the properties only (and by the
bounds on fresh ids).

A Room transaction is one step (`Save`, `Review`, `Merge`, `SyncReply` ...); the
network between them is not: `SyncSend`, `Answer`, `Disconnect`, `SyncReply` are
four steps, and `Partner`, `Straggler`, `Login`, `Logout`, `Crash`, and every editing
action, may run between any two. The server may also refuse a request for reasons
that are not modelled here, since a closed month or a stale account revision look
the same to the phone. Left out: the demo owner, completion and restore, budget
overlays, the network calls inside login and logout (one step here).

### PartnerAlerts

`session`, `device`, `actor`, `outbox`, `queue`, `expired` are the server's tables
(`expired` and `queue` abstract the clock: operations older than a day, alerts
that are due). `worker` is the drain in memory: purge, select, authenticate, check,
send and settle are separate steps, with `Stop` in between. `provider` holds
accepted messages, which may be delivered late and repeatedly. Per phone: `signed`,
`bound` (the owner alerts are accepted for), `enabled`, `seen`, `posted`, and the
registration under way `reg`, whose steps (read the session, bind, ask for the
token, be admitted, be served, finish) interleave with everything, also with
`Expire`, which does not take the registration's mutex. Left out: the filter on
allowed members, signing, wording; the window of 256 remembered alerts is a set;
showing and remembering an alert is one step.

### LoginSessions

`pocket`, `signin`, `handoff`, `consent`, `google`, `account` are tables; `jar` are
cookies; `work` holds the requests under way, each between two database statements;
`issued`, `origin` are history. Each statement or explicit transaction is a step, so
that a provider call is the gap between two steps of a request, in which any other
request, expiry or `Stop` may run. Left out: the allow-lists (every member is
allowed), several Google accounts, origin checks, PKCE and encryption, which are
identities here. A read and the deletion it triggers at once (`ReadGoogle`), and a
lookup and the statement that follows it without a call in between (`BeginGoogle`,
`GoogleCallback`, `Gateway`), are one step. That a session of the app runs out is
noticed by `AppLogout`'s step, which does the same to the tables.

### BudgetLedger

| Variable | Code |
|---|---|
| `month` | the current month in Madrid |
| `start`, `opening` | `budget_ledger_state` |
| `categories`, `periods` | `finance_categories`, `category_budget_periods` |
| `settings`, `plan` | `budget_income_expectations`, `budget_plan_income` |
| `txns`, `receipts` | `finance_transactions` with their latest valuation, `budget_income_receipts` |
| `adjusted`, `corrections` | reconciliation adjustments and category corrections, summed by month |
| `ledger` | `budget_ledger_movements`, summed by source |
| `frozen` | `budget_month_closures`, `budget_coverage_closures` |
| `drift` | history: what `PlanBacked` excepts, as it stood at the activation |

Every handler ends in the sync of the movements it made stale (`Sync`), which appends,
for each source of each open month, the difference between what the source asks for now
(`Wanted`) and what its movements add up to. `History` carries balances from month to
month, `Coverage` is the statement of a month, `Close` freezes both. `Read` is a request
that materialises the current month; `Activate` is the start-up that switches the plan on.

Abstracted: the accounts are one pot of euros, opening balances zero; receipts of one
month are ordered by their id; corrections and movements are kept as sums; a close's
reconciliation is checked in `FinanceLedger`; a create has a fresh id, as the clients
draw them.

### Recovery

`db` is the server's finance database, cut down to the four tables whose rows constrain
each other: receipts (`finance_operations`), import runs (without one no month can be
read), plan movements (which a trigger refuses in a closed month) and month closures.
`reading` holds the exports under way, each with the content its read transaction sees
and the tables read so far, `restoring` the restores. A restore's inserts are invisible
until its commit; what others notice of it before is the writer lock it takes with its
first insert (`Locks`), which is why the emptiness checks of two restores, or of a
restore and an import, can both succeed and only one of them can write.

`phase`, `generations`, `attempt`, `success` and `outbox` are a phone's: how far the
app's sync and its backup are, its copies, the two clocks of the throttle, and unsent
entries. Only a sync of the opened app (`Refresh`) may reserve a backup; entries are also
delivered by the background worker's (`Deliver` when idle). `archive` is
the operator's `export-sqlite` file; `importing` is an import that has found the tables
empty and not yet begun its transaction. `Lose` is a lost database: the server comes up
on an empty one, which has lost the sessions too. `history` collects every content a
write committed.

Abstracted: encryption, digests and the database check are whether a copy verifies
(`intact`); a copy of another schema version is refused before a restore begins and is
left out; leftover `.partial` directories are never read. `export-sqlite`,
`restore-sqlite` and the writes of an import are one step each: the first two work on
files nobody else opens, the last is one transaction. `CloseMonth` inserts its rows; its
conditions are in `FinanceLedger` and `BudgetLedger`. The clocks are ages, so a clock that is set back, which delays a
backup until it has caught up, is not covered. The handlers that fail, refuse or find
nothing to do change nothing and are no steps. A phone of a lost server whose backup was
asked for gets a 401 (`orphaned`): sessions are in the same database. That, and the read
model's refusal of a database without an import, are what keeps an empty database from
becoming the newest copy.

## 3. What the runs check

Every passing run explores its whole state space. Where the
configurations declare symmetry, the permuted values are only ever compared, and
only safety is checked. Runs with liveness use none.

| Run | Instance | States | Properties |
|---|---|---|---|
| `ledger` | 1 subject, 2 accounts, 1 live and 1 imported transaction, 3 operations, the months up to the third | 1.2 M | `TypeOK`, `BalanceMatchesLedger`, `RevisionAudit`, `NoLostUpdate`, `FreshBatchMatchesLedger`, `ClosedInOrder`, `ClosedOnFreshReconciliation`, `CorrectionsReferToFrozenMonths`, `ImplementsReceipts`, `ClosedMonthFrozen` |
| `ledger_reclassified` | 1 account, 1 live and 1 imported transaction, 4 operations | violated | `FreshBatchExact` |
| `mobile_sync` | 2 operations, 2 entries, 2 browser writes, window of 1, 1 late request | 4.1 M | `TypeOK`, `NoDuplicateEntry`, `OneWritePerEntry`, `NothingLost`, `SavedStaysVisible`, `OverwritesOnlyItsBase` |
| `mobile_pending` | 2 writes, 2 entries, fair | 0.1 M | `PendingResolved` |
| `alerts_sessions` | 1 phone, 2 members' sessions, 2 tokens, 1 create | 2.5 M | `AlertsBelong`, `AlertedOnce`, `GoodRegistrationsStay` |
| `alerts_transfer` | 2 phones, 3 tokens, 1 late request | 2.1 M | `TypeOK` |
| `alerts_drained` | 2 creates, batch of 1, fair | 0.2 M | `Drained` |
| `alerts_expired` | 1 phone, 1 session | violated | `SignedOutSilent` |
| `budget_plan` | 2 categories, 2 entries of 6 kinds, 3 operations, 3 months | 0.5 M | `TypeOK`, `PlanBacked`, `ClosedBooksAgree`, `FrozenAgree`, `ActivationPreserves`, `ReadChangesNothing` |
| `budget_rebuilt` | the same, and a member may expect nothing | violated | `RebuiltFromMovements` |
| `recovery` | 1 phone with 2 generations, 1 entry, 1 close, 2 restores at a time, 1 loss, 1 fault or restart, fair | 0.9 M | `TypeOK`, `CopiesAreMoments`, `ServerIsAMoment`, `CopiesRestore`, `NothingOverwritten`, `LatestStays`, `BackedUp` |
| `login_sessions` | 1 browser, 3 sign-ins (1 of the app), 1 handoff, 3 sessions, 2 consents, 2 Google sessions, 2 concurrent requests | 1.0 M | `TypeOK`, `IssuedOnce`, `ExchangedOnce`, `RevokedHasNothing`, `CalledUnderSession` |

### Bounds, and why they are enough

- *Ledger.* A lost update needs two operations of two members on one
  account, and a balance error after re-reconciling needs create, reconcile,
  reconcile: three operations. A close on a stale reconciliation needs
  reconcile, a backdated write and the close, with a second account so that a
  batch can be partial. `ledger_reclassified` has four operations: create,
  reconcile, edit and close. Two canonical months are over when the third begins, so
  the second can be reconciled while the first is open, and only the order of months
  keeps it from being closed: that takes two operations. Closing both in their order
  takes four (each needs its reconciliation); `budget_plan` has it, where a close is one
  operation, and `MonthsCloseInOrder` is proved for every number of operations. One
  subject is enough, since who asks
  matters only to a retry's comparison, which is proved. The symmetry over `Accounts` is sound
  because the opening balances are equal.
- *Mobile.* A window of one entry makes rows leave the snapshot with two entries;
  two composed entries are enough to have one refused and replaced while another
  waits, or to have an entry created and then edited or deleted. With two browser
  writes one makes an edit stale and the other, or the first, is what its review is
  based on. One late request at a time is one attempt against its repetition or its
  replacement. Longer sequences need no instance: the six
  properties are proved for every number of operations, entries, browser writes and late
  requests.
- *Alerts.* The session changes hands once, and so does the token; one alert is
  enough for misdelivery and repetition, two with a batch of one for starvation.
  `alerts_sessions` leaves out late registrations (`MaxLate = 0`), which
  `alerts_transfer` has. One attempt per alert stands for twelve: the counter is
  compared only with its maximum.
- *Budget plan.* Three months let a receipt settle an earlier expectation whose month has
  closed meanwhile; the salaries asked for are more and less than the six dollars
  expected, and the monthly rates (2, 1 and 2 dollars a euro) make halves of a cent,
  also in the opening. `budget_rebuilt` has an expectation of nothing as well.
  Three operations are enough to post, close and then edit, delete or move; opening the
  plan, reading, and the calendar are not counted. Every amount is positive: a zero
  amount is an observation below. Refunds, unexpected income, a reallocation out of
  Unallocated, one-sided and balanced corrections occur once each.
- *Recovery.* One entry and one close give every order of movement and closure in a copy;
  two generations make pruning happen; one loss is one return from a copy, with
  everything that can be done before and after it; an export after the last loss could
  not come back and is not taken. One fault is a restart, a cut download or restore, a
  crash of the phone, a lost answer or a damaged copy. With as many damaged copies as
  generations are kept the newest usable one may be pruned, because retention counts
  damaged generations too: the program keeps eight.
- *Login.* Two requests at a time are a callback sent twice, a handoff presented
  twice, a consent against a sign-out, or a renewal against a revocation; three
  sessions let a browser sign in, be replaced and end while the app signs in.
  The proofs cover any number of each.

### What the properties say

- `BalanceMatchesLedger`: the balance maintained by adding and subtracting deltas
  is the opening balance plus every entry's effect, including the reconciliation
  adjustment, which is replaced and not added to.
- `RevisionAudit`: revisions of an entry are numbered without gap, the last is the
  stored entry, each was written by the operation it names; a deleted entry's
  audit is in the deletion's receipt.
- `NoLostUpdate`: an accepted operation saw every earlier operation on the accounts
  whose revisions it states.
- `ImplementsReceipts`: refinement of `OperationReceipts`: an operation id is applied
  once, to exactly the stated revisions; a balance moves only with its revision; a
  retry is answered with the receipt of that member's very request.
- `ClosedInOrder`, `ClosedOnFreshReconciliation`, `ClosedMonthFrozen`: the closes.
  The second is stated over the history of operations and not over the query that
  decides freshness. It excepts an entry of the account that was turned into a
  reallocation in between (the first finding), as does `FreshBatchMatchesLedger`.
- `FreshBatchMatchesLedger`: a reconciliation that is still judged current gives
  the month-end balance the entries add up to, unless an entry of the account was
  turned into a reallocation (the finding below).
- `CorrectionsReferToFrozenMonths`: no correction dangles or points into an open month.
- `NothingLost`, `NoDuplicateEntry`, `OneWritePerEntry`, `SavedStaysVisible`,
  `OverwritesOnlyItsBase`: the app's promises (`docs/native-android-client-plan.md:28-32`)
  under process death, lost answers, late requests and reviews. The last one has two
  exceptions, which it names: a reviewed edit (see the observations, where the promise
  is not kept), and an entry that a late attempt of a replaced create started again
  after its deletion (`Reborn`): its revisions start over at 1.
- `PendingResolved`: a pending write is at last answered, also behind a refused one.
- `AlertsBelong`, `AlertedOnce`, `GoodRegistrationsStay`, `Drained`: the alerts.
- `IssuedOnce`, `ExchangedOnce`, `RevokedHasNothing`, `CalledUnderSession`: the sessions.
- `PlanBacked`: cash and outstanding expectations equal the categories and Unallocated, up
  to a cent for each expectation that is not complete, a cent for the opening, and the
  drift named below. It ties the movements, the settlements and the coverage together,
  which are computed by different code. The members of `budget_plan` expect something; what
  happens with an expectation of nothing is the third finding.
- `ClosedBooksAgree`, `FrozenAgree`: what a later operation does to the facts never
  makes a closed month's movements, or its frozen statement, wrong.
- `ActivationPreserves`, `ReadChangesNothing`: the opening offsets what was there; a
  month that is materialised late is not counted twice.
- `CopiesAreMoments`, `CopiesRestore`, `LatestStays`, `BackedUp`: a phone's copies. The
  last is conditional: on phones whose app is opened again and again (`Used`).
  `ServerIsAMoment`, `NothingOverwritten`: the database they come back to.

### Fairness

The ledger, budget and login specifications have none: their properties are safety.

`MobileSync!FairSpec`: eventually the process stops dying and nobody signs in
over a live session (`LeftAlone`); a sync that can take a step takes it (the
foreground loop and WorkManager's persistent work start one after every failure:
`Sync.kt` schedules it whenever a write is queued); and a request that is sent for
ever gets a definite answer that is received (strong fairness of `Resolves` and
`Resolved`). The last is an assumption about the network and the server, not a
fact of the code; without it nothing offline-first can promise delivery.
`mobile_pending` has no browser writes and no late requests, which cannot keep a
write from being answered: the server answers whatever its tables hold.

`Recovery!FairSpec`: time passes, and a sync of the opened app goes on to its end, with
the backup it may have reserved; the server's answers are part of its steps, and a dying
process or a broken connection is one of the bounded faults. Nothing makes the user open
the app: `Refresh` has no fairness. The work that WorkManager schedules (`Sync.kt:24-50`:
after a save, and every six hours as a fallback) delivers entries and never backs up
(`Repository.kt:284-297`), so a phone whose app stays in the background gets no copy.
`BackedUp` therefore has the user's part as its hypothesis, `Used`: again and again a sync
of the app is under way. A sync that hangs satisfies the hypothesis and would refute
the conclusion. A refresh within a minute of the last read does nothing
(`Repository.kt:703-708`) and is no use of the app in this sense. A phone that is signed
out for good is excepted by the property.

`PartnerAlerts!FairSpec`: the worker's loop runs for ever, delays pass, and the
server eventually stops no more. Nothing is assumed of the provider: the attempts
are bounded by the code.

### Findings

- `ledger_reclassified`: `reconciliation_current` (`server/src/budget.rs:347`) says
  that a reconciliation "stays valid until a later operation changes account
  activity on or before its closing date". Editing an expense, income or
  transfer into a reallocation after the reconciliation does change it, but the
  query looks at the entry's latest kind and skips reallocations: the month can be
  closed on a balance the ledger no longer has.
- `alerts_expired`: `expire()` does not take the registration's mutex. A
  registration that has read the session before `expire()` clears the owner binds
  the dropped session again, and a message the provider already holds is shown
  with nobody signed in (`native-android/README.md:111`).
- `budget_rebuilt`: `apply` (`server/src/budget_ledger.rs:576`) promises to "Reconstruct
  category components from movements, preserving earlier history". It takes a month
  without a funding movement for one that is not materialised. But the server accepts an
  expectation of 0, and no movement is recorded of an amount of 0, so a month
  materialised with it has none: when the expectation is raised after the month was
  completed, the instance stays at its fixed 0 euros, no movement is added, and
  Unallocated shows the raised amount nevertheless. `PlanBacked` fails with it, which is
  how it was met: its proof needs every expectation to be worth something.

One disagreement is stated in a property and has no run of its own. "Revision conflicts
never silently overwrite another writer's changes" (`native-android/README.md:86`, also
`docs/native-android-client-plan.md:32`) does not hold after a review.
`reviewBlockedOnIo` (`Repository.kt:882-925`) fills the form from the refused write's own
values and takes the confirmed row only as `original`, from which the new edit states
its revision; of the confirmed row the form shows the description in "Editing ..."
(`EntryScreen.kt:110`), and the lists show the user's values over it. So an edit that was
refused because the partner had written first, reviewed and saved again, takes effect on
the partner's version, which was never on screen. In the model `shown` is what the user
has seen of an entry, `revision` and `by` what the edit will state. `OverwritesOnlyItsBase`
holds with the disjunct for reviews and TLC finds it violated in `mobile_sync` without.

Observations that contradict no text and are no findings:

- A create or edit retried after its entry was deleted is refused (409), because the
  audit rows that prove the first request went with the entry. It is never
  applied twice.
- An acknowledged edit that is not merged yet is shown with the revision it was
  based on, so a draft opened then is refused by the server and has to be reviewed.
- Rows older than the snapshot's window stay in the phone's cache after the partner
  deleted them, until the server holds no more than the window.
- A late first attempt of a create that was refused, replaced and answered may leave
  the replacement blocked for good.
- Deletion holds the mutation lock during its network call, so autosave waits for it.
- Reconciling a historical month after later months closed moves their cumulative
  month-end balances, without changing an entry of theirs.
- A refused refresh deletes every Google session of the account, newer ones too.
- The opening is taken from what is outstanding of the current month's expectation. Where
  part of it had been received, that is a rounded part (`budget_ledger.rs:437`), so the
  plan may start a cent beside the cash and stay there: with six dollars expected at two
  dollars a euro and one received, half a cent is rounded away on each side.
- Editing or deleting a salary receipt after the expectation it settled was completed
  leaves the settlement with the shortfall of the completion (`budget_ledger.rs:298`).
  `Drift` holds such differences, and `PlanBacked` excepts them:
  `docs/budget-model.md` promises agreement for movements, not for settlements.
- Unexpected income and reallocations to Unallocated dated before the plan's start have
  no effect on the plan; they are in `Drift` as well.
- Income entered before receipts existed counts both as received in its month and as
  credited to its category; the opening offsets it once.
- `budget_income_receipts` rows survive the deletion of their entry; an entry created
  again under that id would inherit the treatment. The clients draw fresh ids.
- A phone's entry of a month that a restored server has closed stays queued for review.
- `presto-admin import` checks for emptiness before its transaction. A restore in between
  is caught only by the unique digest of the import run, which every copy brings along.
- The second consent may be recorded for a session revoked meanwhile; it cannot be used.

## 4. What is proved

All theorems hold for any sets of accounts, ids, members, browsers, sessions, phones and
amounts that satisfy the named assumptions `ConstantsAssumption`, `LoginAssumption`,
`MobileAssumption`, `AlertAssumption` and `RecoveryAssumption`, which TLC evaluates in
every run of the module that states them.

`FinanceLedgerProofs`

| Theorem | Property | Argument |
|---|---|---|
| `TypeCorrect` | `TypeOK` | inductive by itself; one lemma per handler |
| `LedgerImplementsReceipts` | `ImplementsReceipts` | under `TypeOK`, each handler is an `Apply` of the receipt it appends, a retry is a `Replay`, `NextMonth` a stutter |
| `LostUpdatesRefused` | `NoLostUpdate` | needs `RevisionsReached`: an account's revision is at least every revision a receipt reported. Proved on the *abstract* steps, through the refinement |
| `AdjustmentsStay` | | an adjustment row is always dated at the month end its id names, whichever batch replaced it last: inductive, one lemma per handler |
| `ClosedMonthsFrozen` | `ClosedMonthFrozen` | every handler respects the closed months. For `Reconcile` this needs `AdjustmentsStay`, since the row it replaces must lie in the open period it was given |
| `CorrectionsKeepTheirEntry` | `CorrectionsReferToFrozenMonths` | from the previous step lemma: what is frozen stays |
| `MonthsCloseInOrder` | `ClosedInOrder` | inductive with `TypeOK`; a close appends one new month after its predecessors |
| `BalancesMatch` | `BalanceMatchesLedger` | `BalanceKept`: the same equation, inductive with `TypeOK`. A handler changes one entry, or the adjustment rows of one batch, which are each of another account, and the sum over the entries changes by that entry's effect on the account (`FiniteSums`) |
| `FreshBatchesMatch` | `FreshBatchMatchesLedger` | `BatchInv`: every observed batch is tracked forever, current or not. An account's reported balance is the sum over the entries up to that month, as the adjustment has made it, until something moves that very account in those months (`MovedOn`), and a movement leaves an audit row. That the batch is still current means there is no such row, except of an entry since turned into a reallocation |
| `ClosesRestOnFreshReconciliation` | `ClosedOnFreshReconciliation` | `FreshInv` adds that an operation id is logged once, so the row ids the property compares never change, and that an entry with audit rows that is no reallocation counts for an account, and an adjustment stays a reconciliation (`KindsMove`); an entry since turned into a reallocation is the exception the property names. A later edit lies in an open month, after every closed one (`ClosedInOrder`); a replaced adjustment had an audit row, so it was there (`AuditInv`) and is dated as before; that the latest full batch exists is the well-foundedness of row ids |
| `RevisionsAudited` | `RevisionAudit` | `AuditInv` adds that absent client entries have no audit rows, which `Create` needs to start at 1 |

`LoginSessionsProofs`

| Theorem | Property | Argument |
|---|---|---|
| `TypeCorrect` | `TypeOK` | inductive; includes that a deleted Google session belongs to no session |
| `SignInsIssueOnce` | `IssuedOnce` | inductive with `TypeOK`: `issued` grows only where a sign-in goes from open to used |
| `RevocationIsComplete` | `RevokedHasNothing` | inductive with `TypeOK`: whatever revokes also unlinks, whatever links looks at the session in the same statement |
| `HandoffsExchangeOnce` | `ExchangedOnce` | `ExchangeInv`: a handoff held by a request or behind a session is spent, and held by one request or session at most. `ExchangedOnce` alone is not inductive, since it says nothing of a handoff that is under way |
| `CallsAreUnderSessions` | `CalledUnderSession` | `GatewayInv`: a request holds at most one Google session, and while it renews that session's token the row, if still there, belongs to the request's session. Then the renewal's condition on the row is one on the session |

`MobileSyncProofs`, all from one invariant `IndInv` (theorem `Invariance`), which TLC also
confirmed on the instances of the runs

| Theorem | Property | Argument |
|---|---|---|
| `TypeCorrect` | `TypeOK` | every write that is queued, kept, under way or late was confirmed by the user and has an operation id of its own (`Issuing`, `Queueing`, `Calling`, `Keeping`) |
| `WritesSurvive` | `NothingLost` | a row leaves the outbox only when it is acknowledged, and what is acknowledged, or answered "ok", the server has done (`Queueing`, `Calling`); a deletion under way is the kept one, so its answer drops no other (`Keeping`) |
| `WritesDoNotOvertake` | `OneWritePerEntry` | `Save` refuses an entry with a row, and an answer only changes the row it is about |
| `ComposedOnce` | `NoDuplicateEntry` | all creates of one draft are of one transaction id (`Issuing`), because a draft whose entry was saved names that id, also after a crash between the write and the draft (`Drafting`); and whatever the server holds for a draft came from such a create (`Serving`) |

`MobileSeenProofs` adds to `IndInv` what relates the phone's views to what the server holds
later; TLC confirmed these invariants on the instances too

| Theorem | Property | Argument |
|---|---|---|
| `WritesApplyToTheirBase` | `OverwritesOnlyItsBase` | every revision the phone is told, caches, shows or states in a write is `Good`: the entry had it by that author, and if the server now holds the id at that revision or an older one, it is the same version, or the entry was reborn. `Good` is stable because the entry is `Settled`: all creates of its id that the user did not replace have been served (`Lineage`), so only a replaced one can start it again. For an acknowledged edit the shown revision is the one before its own. A write states the revision of a version the user has seen or, after a review, of the one confirmed then (`Stated`) |
| `SavedEntriesStayVisible` | `SavedStaysVisible` | `Visible`: an entry whose create is on the server is in the cache or waits in the outbox. A merge keeps that by `Snapshots`: nothing is acknowledged between the download and the merge, and a snapshot as large as the table holds every entry that was there; a deletion does by `Buried`: after it was served, no create of the entry that was not replaced is left or can still arrive |

`PartnerAlertsProofs`, all from one invariant `IndInv` (theorem `Invariance`) and, for the
types, from the queue's own

| Theorem | Property | Argument |
|---|---|---|
| `TypeCorrect` | `TypeOK` | inductive with `IndInv`: the queue holds each undelivered alert once. What the removal of alerts leaves of the queue (`Without`) is shown for the shortest part of the queue on which it would fail |
| `ShownBelongs` | `AlertsBelong` | `Shown` strengthens it: the entry of what is shown was created, and by someone else. Needs `Sent`, the same of every alert in the outbox and at the provider (a registration is of one session, so `Others` excludes the creator for every row it makes), and `Bound`: while a registration runs, the phone is signed in to its session or to none, and bound to it or to none. So `Bind` never rebinds a phone that shows something else, although a refused sync may have dropped the session meanwhile |
| `ShownOnce` | `AlertedOnce` | `Remembered`: what was ever shown is in the phone's preferences |
| `RegistrationsStay` | `GoodRegistrationsStay` | `Working`: the worker sends to one token at a time, and one the provider calls unregistered is of no installation and never comes back. That needs `Issued`: tokens in the table, in requests under way and in the worker's hands have been issued before, so no rotation hands one of them out again |

The token of an installation is assigned by the provider; that a token nobody has does
not come back is an assumption on it (`Rotate`), stated in the module.

`RecoveryProofs`

| Theorem | Property | Argument |
|---|---|---|
| `TypeCorrect` | `TypeOK` | from the invariant `IndInv` below |
| `CopiesAreCommitted` | `CopiesAreMoments` | `Moment`: an export under way holds exactly the tables it has read so far (`Before`) of one content in `history`. Needs that a backup which was asked for finds a committed content when it begins: a lost database takes the session with it |
| `ServerHoldsAMoment` | `ServerIsAMoment` | `Moment`: what restores and archives carry is in `history` |
| `CopiesCanBeRestored` | `CopiesRestore` | every content in `history` has its references (`Moments`), and movements come before closures in the table list |
| `LatestCopyStays` | `LatestStays` | assumes `MaxFaults < Keep`: fewer copies are damaged than a phone keeps. `DamageCounted`, inductive with `IndInv`: every damaged copy was one of the faults so far. So among the newest `Keep` copies one is intact, and pruning does not reach the newest intact one. Without the assumption the property is false (see the bounds) |
| `RestoresOverwriteNothing` | `NothingOverwritten` | `Alone`: a restore with the lock faces an empty database and is the only one with it. A restore that has inserted everything has the lock, because a committed content is never empty |

`BudgetLedgerProofs`

| Theorem | Property | Argument |
|---|---|---|
| `TypeCorrect` | `TypeOK` | from `TypesKept`, the inductive `TypeInv`: movements name sources that exist, receipts name months of the plan no later than their entry's, months of the plan that are closed are materialised, and a snapshot lists every category of the earlier ones |
| `ClosedBooksStayRight` | `ClosedBooksAgree` | `BooksKept`. Every request satisfies `Kept`, a frame of what it may change at all: entries, receipts, allocations and corrections of closed months stay, the terms of a closed month's expectation stay, and an expectation is completed only once and in the current month. Under that frame every amount a closed month asks for is the one before (`StepKeeps`); a category created later asks for nothing in it |
| `FrozenStayRight` | `FrozenAgree` | `FrozenKeptRight`. Computing a month again depends on the movements, facts and snapshots up to that month only; these stay by the frame above, so the recomputation gives the same balances and coverage month after month, by the least month on which it would not. What is frozen at a close is what it gives then |
| `OpenBooksKept` | | what the two below rest on, and TLC has confirmed on the instance: `OpenInv` says that the books of every month of the plan, open ones too, agree with the facts (`PlanAgrees`), that a month not materialised yet has no entry and no correction (`WaitingInv`), and that expectations are completed in months of the plan only |
| `ReadingsChangeNothing` | `ReadChangesNothing` | since the books agree with the facts, materialising a month moves exactly what `Asked` says it asks for (`MovedExactly`), and nothing in any other month. By `WaitingInv` the month has no entry and no correction, so that is its allocations and the funding of its expectation, which is what the forecast had counted for it |
| `ActivationChangesNothing` | `ActivationPreserves` | months before the current one are still computed from their entries. The movements posted for the current one add up, bucket by bucket, to its allocations and entries (`PostedExactly`); income from before is marked legacy in the same transaction and therefore counts as spending does |
| `PlanStaysBacked` | `PlanBacked` | under `PlansWorth`: what members expect is worth at least a cent in euros. From `BackedKept`, see below |

`PlanBacked` is not inductive: it says nothing of the parts the gap is made of. The
invariant is `BackedInv` (confirmed by TLC on the instance of `budget_plan`), on top of
`TypeInv`, `OpenInv` and `FrozenInv`:

- `PlanFacts`, what the accounting needs of the tables: an entry takes its euros from one
  bucket and brings them to another or crosses the border of cash (`Shapes`), salary is
  income of an expectation (`Salaries`), nothing corrects Unallocated before the start
  (`Unused`), the months of the plan are all months from the start to the last one
  materialised (`Unbroken`), an expectation is completed once (`CompletedOnce`) and is
  worth something (`Worth`).
- `Held`: the opening and what the months before the start allocate (`Spare`) are the
  drift there was at the activation, to a cent.

Then the gap is computed, in four steps. What the entries, corrections and settlements of
one month add to all categories and Unallocated together is its cash flow, its funding and
what it settles (`MonthAdds`, `MonthAddsBefore`): allocations and moves cancel across the
buckets. Month after month these add up to everything shown (`TotalIs`), by `FrozenInv`
also where it is read from a frozen statement (`ShownReplayed`). What an expectation has
taken back telescopes over its receipts in their order (`SettlementsThrough`), so that,
with what is outstanding, only the rounding of the part received is left of it
(`ExpectationLeft`, `RoundingNear`), or nothing once it is complete. So the gap is one
rounding for each open expectation and what `Held` says (`GapIs`, `LeftsNear`).

`Held` is established by the activation, which takes the opening from the same figures
(`StartHeld`), and no later step changes what it relates (`HeldStays`): allocations of a
month before the start stay as they are, since budgets are set for the current month or a
later one. The hypothesis `PlansWorth` is needed for `Worth` alone and excludes exactly the
third finding: with an expectation of nothing the statement is false.

`FiniteSums` shows what `SumFunctionOnSet` and `SumFunction` of the community modules
return over any finite set: the value at any member plus the sum over the others
(`SumRemove`), and from there sums over unions, of sums, by groups (`SumByGroup`), in
either order (`SumExchange`), of functions that differ at one place, and the bound of a
sum of cents (`SumBounded`). The fold is defined by recursion over subsets; that the recursion has a
solution, and only one, is shown with a subset of least cardinality on which it would
fail, as the library's induction theorems cannot be instantiated.

Only model-checked:

- `PlanBacked` where members expect nothing is false, see `budget_rebuilt`; every other
  safety property of a passing run is stated by a theorem.
- `BackedUp`, `Drained` and the other liveness properties under fairness, which
  the prover does not support.

## 5. Not modelled, and the plan

Not modelled for good: screens, entry form logic (pure functions on texts with unit
tests), web rendering, deployment scripts, Apps Script's own service and the gateway to
it, whose locking is in that service; building, verifying and comparing an import
archive, a sequential program over files; searching and paging, which only read.

What is left, in order:

1. `MobileSession`: login, logout, expire and deletion on the vault, with the lock
   order `authMutex`, `syncMutex`, `mutation` and the network steps now folded into
   one. Property: a session stored later is never cleared by an older refusal.
2. `FinanceModel`: prior-rate selection and the TARGET calendar, decimal operations,
   as functions checked against reference definitions.

The number of runs stays small on purpose: each instance answers several questions,
and a new module takes one run where its state allows.

## 6. Running it

In this directory: `tlc -workers 2 -config ledger.cfg MCFinanceLedger` (and
so on, see `PROJECT.json`), and `tlapm FinanceLedgerProofs.tla`,
`tlapm LoginSessionsProofs.tla`, `tlapm MobileSyncProofs.tla`,
`tlapm MobileSeenProofs.tla`, `tlapm FiniteSums.tla`, `tlapm BudgetLedgerProofs.tla`,
`tlapm PartnerAlertsProofs.tla`, `tlapm RecoveryProofs.tla`. No run takes more than a few minutes.
