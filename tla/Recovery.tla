-------------------------------- MODULE Recovery --------------------------------
(***************************************************************************)
(* Copies of the finance database and the way back from them: the snapshot *)
(* the server exports table by table while entries keep arriving           *)
(* (server/src/server.rs), the encrypted generations a phone keeps of it   *)
(* (Recovery.kt, Repository.kt), the restore of a phone's generation into  *)
(* an empty server, and the same by files with presto-admin.               *)
(*                                                                         *)
(* A database is its finance tables, cut down to the four whose rows       *)
(* constrain each other: operation receipts (whose row order decides which *)
(* reconciliation is current), import runs (without one nothing can be     *)
(* read), plan movements (refused in a closed month) and month closures.   *)
(* A restore is one transaction and nobody sees its rows before it         *)
(* commits.  A server that is lost takes its sessions with it.             *)
(***************************************************************************)
EXTENDS Integers, Sequences, FiniteSets

CONSTANTS
  Phones,
  Entries,       \* operation ids of entries, and of month closings
  Closings,
  Months,
  ImportRun,     \* the row of the spreadsheet import a database starts with
  Keep,          \* generations a phone retains: 8
  Retry,         \* clock ticks between two attempts at a backup: 15 minutes
  Interval,      \* clock ticks after a successful one: 6 hours
  Requests,      \* bound: restores the server handles at a time
  MaxLosses,     \* bound: databases lost
  MaxFaults      \* bound: restarts, broken connections, crashes of a phone, damaged copies

ASSUME RecoveryAssumption ==
  /\ Keep \in Nat \ {0} /\ Retry \in Nat /\ Interval \in Nat
  /\ MaxLosses \in Nat /\ MaxFaults \in Nat

VARIABLES
  db,            \* the server's finance tables
  mode,          \* "writing", or "recovery" when the administrator enabled restores
  sessions,      \* phones signed in to this server
  reading,       \* exports a phone's backup is reading: at most one each
  restoring,     \* the restore transactions under way
  phase,         \* how far a phone's backup is
  generations,   \* the phone's copies, oldest first
  attempt,       \* clock ticks since the last attempt, and since the last success
  success,
  outbox,        \* entries of a phone the server has not acknowledged
  archive,       \* the file export-sqlite wrote
  importing,     \* presto-admin import has found the tables empty
  budget,        \* losses and faults so far
  history        \* history: every content a write has committed

server == <<db, mode, sessions>>
clock == <<attempt, success>>
admin == <<archive, importing>>
vars == <<server, reading, restoring, phase, generations, clock, outbox, admin, budget, history>>

----------------------------------------------------------------------------
(* Tables. *)

OutOfOrder ==    \* mutant
  <<"finance_operations", "finance_import_runs", "budget_month_closures", "budget_ledger_movements">>
FINANCE_BACKUP_TABLES ==
  <<"finance_operations", "finance_import_runs", "budget_ledger_movements", "budget_month_closures">>

Tables == {"finance_operations", "finance_import_runs", "budget_ledger_movements", "budget_month_closures"}
Steps == 1..Len(FINANCE_BACKUP_TABLES)
Done == Len(FINANCE_BACKUP_TABLES) + 1

Empty == [t \in Tables |-> <<>>]
Imported == [Empty EXCEPT !["finance_import_runs"] = <<ImportRun>>]

Ops == Entries \cup Closings

Elements(s) == {s[i] : i \in DOMAIN s}
Closed(tables) == {row.month : row \in Elements(tables["budget_month_closures"])}
Known(tables) == Elements(tables["finance_operations"])

\* The first n - 1 tables of a snapshot.
Before(tables, n) ==
  [t \in Tables |-> IF \E i \in 1..(n - 1) : FINANCE_BACKUP_TABLES[i] = t THEN tables[t] ELSE <<>>]

\* A trigger refuses movements of a month that is already closed.
Accepts(work, t, rows) ==
  t = "budget_ledger_movements" => \A row \in Elements(rows) : row.month \notin Closed(work)
Insertable(tables, n) ==
  Accepts(Before(tables, n), FINANCE_BACKUP_TABLES[n], tables[FINANCE_BACKUP_TABLES[n]])

\* The foreign keys, deferred to the commit.
References(tables) ==
  \A t \in {"budget_ledger_movements", "budget_month_closures"} :
     \A row \in Elements(tables[t]) : row.op \in Known(tables)
Restorable(tables) == (\A n \in Steps : Insertable(tables, n)) /\ References(tables)

\* A month's budget can be read once there was an import.
Loads(tables) == tables["finance_import_runs"] # <<>>

----------------------------------------------------------------------------
(* Writes. *)

Issued ==
  UNION {Known(tables) : tables \in history}
    \cup {e.op : e \in UNION {outbox[p] : p \in Phones}}

Appended(t, op, row) ==
  [db EXCEPT !["finance_operations"] = Append(@, op), ![t] = Append(@, row)]

Save(p, op, m) ==
  /\ op \notin Issued
  /\ outbox' = [outbox EXCEPT ![p] = @ \cup {[op |-> op, month |-> m]}]
  /\ UNCHANGED <<server, reading, restoring, phase, generations, clock, admin, budget, history>>

Recorded(e) == IF e.op \in Known(db) THEN db ELSE Appended("budget_ledger_movements", e.op, e)

\* A sync, of the app or of the background worker, delivers a saved entry; a repeated
\* delivery is only answered, an entry of a closed month is blocked for review, and
\* the answer may be lost.
Deliver(p, e) ==
  /\ p \in sessions /\ phase[p] \in {"idle", "syncing"} /\ mode = "writing" /\ Loads(db)
  /\ e \in outbox[p]
  /\ e.op \in Known(db) \/ e.month \notin Closed(db)
  /\ db' = Recorded(e)
  /\ history' = history \cup {db'}
  /\ \/ outbox' = [outbox EXCEPT ![p] = @ \ {e}] /\ UNCHANGED budget
     \/ /\ budget.faults < MaxFaults
        /\ budget' = [budget EXCEPT !.faults = @ + 1]
        /\ UNCHANGED outbox
  /\ UNCHANGED <<mode, sessions, reading, restoring, phase, generations, clock, admin>>

CloseMonth(op, m) ==
  /\ mode = "writing" /\ sessions # {} /\ Loads(db)
  /\ op \notin Issued /\ m \notin Closed(db)
  /\ db' = Appended("budget_month_closures", op, [op |-> op, month |-> m])
  /\ history' = history \cup {db'}
  /\ UNCHANGED <<mode, sessions, reading, restoring, phase, generations, clock, outbox, admin, budget>>

----------------------------------------------------------------------------
(* A phone's backup, and the export it and the administrator read. *)

\* The app is opened or used and syncs.  The worker's syncs, which only deliver, take
\* no backup; a refresh within a minute of the last one does nothing.
Refresh(p) ==
  /\ phase[p] = "idle" /\ p \in sessions
  /\ phase' = [phase EXCEPT ![p] = "syncing"]
  /\ UNCHANGED <<server, reading, restoring, generations, clock, outbox, admin, budget, history>>

Due(p) == attempt[p] >= Retry /\ success[p] >= Interval
\* The snapshot can be downloaded and a backup is due.
Reserves(p) == p \in sessions /\ Loads(db) /\ Due(p)

SyncEnds(p) ==
  /\ phase[p] = "syncing" /\ ~Reserves(p)
  /\ phase' = [phase EXCEPT ![p] = "idle"]
  /\ UNCHANGED <<server, reading, restoring, generations, clock, outbox, admin, budget, history>>

Reserve(p) ==
  /\ phase[p] = "syncing" /\ Reserves(p)
  /\ attempt' = [attempt EXCEPT ![p] = 0]
  /\ phase' = [phase EXCEPT ![p] = "asked"]
  /\ UNCHANGED <<server, reading, restoring, generations, success, outbox, admin, budget, history>>

\* One read transaction sees one content throughout.
Opened == {[view |-> db, tables |-> Empty, next |-> 1]}

BackupBegins(p) ==
  /\ phase[p] = "asked" /\ p \in sessions
  /\ phase' = [phase EXCEPT ![p] = "reading"]
  /\ reading' = [reading EXCEPT ![p] = Opened]
  /\ UNCHANGED <<server, restoring, generations, clock, outbox, admin, budget, history>>

ReadLive(r, t) == db[t]    \* mutant
Read(r, t) == r.view[t]

ReadTable(p) ==
  \E r \in reading[p] :
     /\ r.next \in Steps
     /\ LET t == FINANCE_BACKUP_TABLES[r.next]
        IN reading' = [reading EXCEPT ![p] = {[r EXCEPT !.tables[t] = Read(r, t), !.next = @ + 1]}]
     /\ UNCHANGED <<server, restoring, phase, generations, clock, outbox, admin, budget, history>>

\* The copy arrives, is verified and encrypted beside the others, and renamed.
Publish(p) ==
  \E r \in reading[p] :
     /\ r.next = Done
     /\ generations' = [generations EXCEPT ![p] = Append(@, [tables |-> r.tables, intact |-> TRUE])]
     /\ phase' = [phase EXCEPT ![p] = "published"]
     /\ reading' = [reading EXCEPT ![p] = {}]
     /\ UNCHANGED <<server, restoring, clock, outbox, admin, budget, history>>

Oldest(s) == SubSeq(s, 1, IF Len(s) < Keep THEN Len(s) ELSE Keep)    \* mutant
Newest(s) == IF Len(s) <= Keep THEN s ELSE SubSeq(s, Len(s) - Keep + 1, Len(s))

Finish(p) ==
  /\ phase[p] = "published"
  /\ generations' = [generations EXCEPT ![p] = Newest(@)]
  /\ success' = [success EXCEPT ![p] = 0]
  /\ phase' = [phase EXCEPT ![p] = "idle"]
  /\ UNCHANGED <<server, reading, restoring, attempt, outbox, admin, budget, history>>

\* The server is gone or has refused; the next attempt is another sync of the app.
KeepsTrying(p) ==    \* mutant
  /\ phase[p] = "orphaned"
  /\ phase' = [phase EXCEPT ![p] = "idle"]
  /\ UNCHANGED <<server, reading, restoring, generations, clock, outbox, admin, budget, history>>
BackupFails(p) ==
  /\ phase[p] = "orphaned" \/ (phase[p] = "reading" /\ reading[p] = {})
  /\ phase' = [phase EXCEPT ![p] = "idle"]
  /\ UNCHANGED <<server, reading, restoring, generations, clock, outbox, admin, budget, history>>

----------------------------------------------------------------------------
(* Restores. *)

Usable(p) == {k \in DOMAIN generations[p] : generations[p][k].intact}
\* The newest generation that verifies.
LatestOf(p) == {k \in Usable(p) : \A i \in Usable(p) : i <= k}
Latest(p) == {generations[p][k].tables : k \in LatestOf(p)}

RestoreBegins(p, q) ==
  /\ p \in sessions /\ outbox[p] = {} /\ restoring[q] = {}
  /\ mode = "recovery" /\ db = Empty
  /\ \E tables \in Latest(p) : restoring' = [restoring EXCEPT ![q] = {[tables |-> tables, next |-> 1]}]
  /\ UNCHANGED <<server, reading, phase, generations, clock, outbox, admin, budget, history>>

\* A transaction that has inserted rows holds the database's only writer lock; one
\* that has not may take it while the content is still the one it saw.
Locks(q) == \E r \in restoring[q] : Before(r.tables, r.next) # Empty
MayWriteStale(q) == Locks(q) \/ \A other \in Requests : ~Locks(other)    \* mutant
MayWrite(q) == Locks(q) \/ (db = Empty /\ \A other \in Requests : ~Locks(other))

InsertVisibly(q) ==    \* mutant
  \E r \in restoring[q] :
     /\ r.next \in Steps
     /\ r.tables[FINANCE_BACKUP_TABLES[r.next]] # <<>> => MayWrite(q)
     /\ Insertable(r.tables, r.next)
     /\ restoring' = [restoring EXCEPT ![q] = {[r EXCEPT !.next = @ + 1]}]
     /\ db' = Before(r.tables, r.next + 1)
     /\ UNCHANGED <<mode, sessions, reading, phase, generations, clock, outbox, admin, budget, history>>
InsertTable(q) ==
  \E r \in restoring[q] :
     /\ r.next \in Steps
     /\ r.tables[FINANCE_BACKUP_TABLES[r.next]] # <<>> => MayWrite(q)
     /\ Insertable(r.tables, r.next)
     /\ restoring' = [restoring EXCEPT ![q] = {[r EXCEPT !.next = @ + 1]}]
     /\ UNCHANGED <<server, reading, phase, generations, clock, outbox, admin, budget, history>>

RestoreCommits(q) ==
  \E r \in restoring[q] :
     /\ r.next = Done /\ References(r.tables)
     /\ db' = r.tables
     /\ restoring' = [restoring EXCEPT ![q] = {}]
     /\ UNCHANGED <<mode, sessions, reading, phase, generations, clock, outbox, admin, budget, history>>

\* Another restore came first.
RestoreRefused(q) ==
  \E r \in restoring[q] :
     /\ ~MayWrite(q)
     /\ restoring' = [restoring EXCEPT ![q] = {}]
     /\ UNCHANGED <<server, reading, phase, generations, clock, outbox, admin, budget, history>>

\* export-sqlite reads the same tables in one transaction, here one step, into a new
\* file.  An export after the last loss the bounds allow would never be used.
Export ==
  /\ archive = {} /\ budget.losses < MaxLosses
  /\ archive' = {db}
  /\ UNCHANGED <<server, reading, restoring, phase, generations, clock, outbox, importing, budget, history>>

\* presto-admin import, a process of its own: it looks for rows in every finance
\* table before its transaction begins, and inserts only an archive that no copy
\* restored in between has brought with it (the digest is unique).
ImportChecks ==
  /\ db = Empty /\ ~importing
  /\ importing' = TRUE
  /\ UNCHANGED <<server, reading, restoring, phase, generations, clock, outbox, archive, budget, history>>

Digests(tables) == Elements(tables["finance_import_runs"])
ImportCommits ==
  /\ importing /\ \A q \in Requests : ~Locks(q)
  /\ db' = IF ImportRun \in Digests(db) THEN db ELSE Imported
  /\ history' = history \cup {db'}
  /\ importing' = FALSE
  /\ UNCHANGED <<mode, sessions, reading, restoring, phase, generations, clock, outbox, archive, budget>>

----------------------------------------------------------------------------
(* Restarts, losses and faults. *)

Fault == budget.faults < MaxFaults /\ budget' = [budget EXCEPT !.faults = @ + 1]

Orphaned ==
  [p \in Phones |-> IF phase[p] \in {"syncing", "asked"} THEN "orphaned" ELSE phase[p]]
Interrupted ==
  /\ reading' = [p \in Phones |-> {}]
  /\ restoring' = [q \in Requests |-> {}]

Restart(m) ==
  /\ Fault
  /\ mode' = m
  /\ Interrupted
  /\ UNCHANGED <<db, sessions, phase, generations, clock, outbox, admin, history>>

\* The database is lost and the server starts on a new one, without its sessions.
Lose(m) ==
  /\ budget.losses < MaxLosses
  /\ budget' = [budget EXCEPT !.losses = @ + 1]
  /\ db' = Empty /\ sessions' = {} /\ mode' = m
  /\ phase' = Orphaned /\ importing' = FALSE
  /\ Interrupted
  /\ UNCHANGED <<generations, clock, outbox, archive, history>>

\* restore-sqlite makes a new file, fills it in one transaction, tells its operator
\* only when every check has passed, and never goes over a file an interrupted run
\* has left; the server that lost its database starts on the finished one.
RestoreSqlite(m) ==
  \E tables \in archive :
     /\ db = Empty
     /\ \A n \in Steps : Insertable(tables, n)
     /\ References(tables)
     /\ db' = tables /\ sessions' = {} /\ mode' = m
     /\ archive' = {}
     /\ phase' = Orphaned /\ importing' = FALSE
     /\ Interrupted
     /\ UNCHANGED <<generations, clock, outbox, budget, history>>

SignIn(p) ==
  /\ p \notin sessions
  /\ sessions' = sessions \cup {p}
  /\ UNCHANGED <<db, mode, reading, restoring, phase, generations, clock, outbox, admin, budget, history>>

\* A download is cut off: its digest does not match.
Cut(p) ==
  /\ Fault /\ reading[p] # {}
  /\ reading' = [reading EXCEPT ![p] = {}]
  /\ UNCHANGED <<server, restoring, phase, generations, clock, outbox, admin, history>>

\* A restore that is cut off rolls back.
Rollback(q) ==
  /\ Fault /\ restoring[q] # {}
  /\ restoring' = [restoring EXCEPT ![q] = {}]
  /\ UNCHANGED <<server, reading, phase, generations, clock, outbox, admin, history>>

PhoneCrash(p) ==
  /\ Fault /\ phase[p] # "idle"
  /\ phase' = [phase EXCEPT ![p] = "idle"]
  /\ reading' = [reading EXCEPT ![p] = {}]
  /\ UNCHANGED <<server, restoring, generations, clock, outbox, admin, history>>

Damage(p, k) ==
  /\ Fault /\ generations[p][k].intact
  /\ generations' = [generations EXCEPT ![p][k].intact = FALSE]
  /\ UNCHANGED <<server, reading, restoring, phase, clock, outbox, admin, history>>

Ages ==    \* mutant
  /\ attempt' = [p \in Phones |-> attempt[p] + 1]
  /\ success' = [p \in Phones |-> success[p] + 1]
  /\ UNCHANGED <<server, reading, restoring, phase, generations, outbox, admin, budget, history>>
Tick ==
  /\ attempt' = [p \in Phones |-> IF attempt[p] < Retry THEN attempt[p] + 1 ELSE Retry]
  /\ success' = [p \in Phones |-> IF success[p] < Interval THEN success[p] + 1 ELSE Interval]
  /\ UNCHANGED <<server, reading, restoring, phase, generations, outbox, admin, budget, history>>

----------------------------------------------------------------------------
(* Specification. *)

Modes == {"writing", "recovery"}

Init ==
  /\ db = Empty /\ history = {}
  /\ mode = "writing" /\ sessions = Phones
  /\ reading = [p \in Phones |-> {}]
  /\ restoring = [q \in Requests |-> {}]
  /\ phase = [p \in Phones |-> "idle"]
  /\ generations = [p \in Phones |-> <<>>]
  /\ attempt = [p \in Phones |-> Retry] /\ success = [p \in Phones |-> Interval]
  /\ outbox = [p \in Phones |-> {}]
  /\ archive = {} /\ importing = FALSE
  /\ budget = [losses |-> 0, faults |-> 0]

BackupStep(p) ==
  \/ SyncEnds(p) \/ Reserve(p) \/ BackupBegins(p) \/ ReadTable(p)
  \/ Publish(p) \/ Finish(p) \/ BackupFails(p)

Next ==
  \/ \E p \in Phones : Refresh(p) \/ BackupStep(p)
  \/ \E p \in Phones, op \in Entries, m \in Months : Save(p, op, m)
  \/ \E p \in Phones : \E e \in outbox[p] : Deliver(p, e)
  \/ \E op \in Closings, m \in Months : CloseMonth(op, m)
  \/ \E p \in Phones, q \in Requests : RestoreBegins(p, q)
  \/ \E q \in Requests : InsertTable(q) \/ RestoreCommits(q) \/ RestoreRefused(q) \/ Rollback(q)
  \/ Export \/ ImportChecks \/ ImportCommits
  \/ \E m \in Modes : Restart(m) \/ RestoreSqlite(m) \/ Lose(m)
  \/ \E p \in Phones : SignIn(p) \/ Cut(p) \/ PhoneCrash(p)
  \/ \E p \in Phones : \E k \in DOMAIN generations[p] : Damage(p, k)
  \/ Tick

Spec == Init /\ [][Next]_vars

\* Time passes, and a sync of the app once begun goes on to its end.  Nothing makes the
\* user open the app.
FairSpec == Spec /\ WF_vars(Tick) /\ \A p \in Phones : WF_vars(BackupStep(p))

----------------------------------------------------------------------------
(* Properties. *)

Contents ==
  [Tables -> Seq(Ops \cup {ImportRun} \cup [op : Ops, month : Months])]

\* The state's shape; rows, phases, clocks and budgets as declared.
TypeOK ==
  /\ db \in Contents /\ history \subseteq Contents
  /\ mode \in Modes /\ sessions \subseteq Phones
  /\ \A p \in Phones : \A r \in reading[p] :
        r.view \in Contents /\ r.tables \in Contents /\ r.next \in 1..Done
  /\ \A q \in Requests : \A r \in restoring[q] : r.tables \in Contents /\ r.next \in 1..Done
  /\ phase \in [Phones -> {"idle", "syncing", "asked", "orphaned", "reading", "published"}]
  /\ \A p \in Phones : \A k \in DOMAIN generations[p] :
        generations[p][k].tables \in Contents /\ generations[p][k].intact \in BOOLEAN
  /\ attempt \in [Phones -> 0..Retry] /\ success \in [Phones -> 0..Interval]
  /\ outbox \in [Phones -> SUBSET [op : Ops, month : Months]]
  /\ archive \subseteq Contents /\ importing \in BOOLEAN

Copies == UNION {{generations[p][k].tables : k \in DOMAIN generations[p]} : p \in Phones}

\* Every copy a phone publishes is one content the server once committed, receipts
\* in their order: never a mixture of two moments and never an empty database,
\* whatever was written, lost or signed in again while it was read
\* (get_db_finance_backup, syncOnIo).
CopiesAreMoments == Copies \subseteq history

\* The server holds nothing but a content that writes once committed, or nothing at
\* all: a restore that fails, is cut off or races another leaves no part of itself
\* (restore_db_finance, restore_sqlite_command).
ServerIsAMoment == db = Empty \/ db \in history

\* Every copy, of a phone or of the administrator, can be restored: taken in the
\* order of FINANCE_BACKUP_TABLES no trigger refuses a row and no reference is left
\* open, also when months were closed after their movements were recorded.
CopiesRestore == \A tables \in Copies \cup archive : Restorable(tables)

IsExtended(s, t) == Len(s) <= Len(t) /\ SubSeq(t, 1, Len(s)) = s

\* Short of losing the database, what it holds is only added to: a restore never
\* replaces or mixes with rows that are there, two phones restoring at once included.
NothingOverwritten ==
  [][budget.losses = budget'.losses => \A t \in Tables : IsExtended(db[t], db'[t])]_vars

Damaged(p) ==
  /\ DOMAIN generations'[p] = DOMAIN generations[p]
  /\ \E k \in DOMAIN generations[p] : generations[p][k].intact /\ ~generations'[p][k].intact

\* The copy a restore would use changes only when it is damaged or when a newer one
\* has been published: retention and crashes of the phone never bring back an
\* older one (saveFile, latestInfo).
LatestStays ==
  [][\A p \in Phones :
        Latest(p) # {} /\ Latest(p)' # Latest(p) =>
          \/ Len(generations'[p]) > Len(generations[p])
          \/ Damaged(p)]_vars

Has(p, op) == \E k \in DOMAIN generations[p] : op \in Known(generations[p][k].tables)

\* The app on p is opened again and again, as long as no sync of it is stuck.
Used(p) == []<>(phase[p] # "idle")

\* What is in the database gets into a copy on every phone that stays signed in and
\* whose app is used again and again, whatever attempts fail on the way: throttling
\* delays backups and never stops them (reserve, syncOnIo).  A phone whose app stays
\* in the background backs nothing up (syncInBackground).
BackedUp ==
  \A p \in Phones, op \in Ops :
     Used(p) =>
       (op \in Known(db) /\ p \in sessions
          ~> Has(p, op) \/ op \notin Known(db) \/ p \notin sessions)
=================================================================================
