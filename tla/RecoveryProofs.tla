----------------------------- MODULE RecoveryProofs -----------------------------
(***************************************************************************)
(* Proofs about Recovery, for any phones, entries, months, restores and    *)
(* bounds: its shape, that copies and the server hold committed moments,   *)
(* that every copy can be restored, that a restore overwrites nothing, and *)
(* that pruning keeps the copy a restore would use.                        *)
(***************************************************************************)
EXTENDS Recovery, SequenceTheorems, FiniteSetTheorems, TLAPS

----------------------------------------------------------------------------
(* The inductive invariant. *)

\* A content that can be committed: it has the import's row and its references hold.
Moments == {tables \in Contents : ImportRun \in Digests(tables) /\ References(tables)}

\* An export holds the tables it has read so far of one committed content.
ReadsOf(H) ==
  {r \in [view : H, tables : Contents, next : 1..Done] : r.tables = Before(r.view, r.next)}
RestoresOf(H) == [tables : H, next : 1..Done]
CopiesOf(H) == [tables : H, intact : BOOLEAN]

Phases == {"idle", "syncing", "asked", "orphaned", "reading", "published"}

Shape ==
  /\ mode \in Modes /\ sessions \subseteq Phones /\ importing \in BOOLEAN
  /\ phase \in [Phones -> Phases]
  /\ attempt \in [Phones -> 0..Retry] /\ success \in [Phones -> 0..Interval]
  /\ outbox \in [Phones -> SUBSET [op : Ops, month : Months]]
  /\ budget \in [losses : Nat, faults : Nat]

Moment ==
  /\ history \subseteq Moments
  /\ db \in history \cup {Empty}
  /\ \A p \in Phones : phase[p] = "asked" => db \in history
  /\ reading \in [Phones -> SUBSET ReadsOf(history)]
  /\ restoring \in [Requests -> SUBSET RestoresOf(history)]
  /\ generations \in [Phones -> Seq(CopiesOf(history))]
  /\ archive \subseteq history \cup {Empty}

\* Only a database that is empty, of a server that takes no other writes, is being
\* restored, and by one transaction.
Alone ==
  /\ \A q \in Requests : restoring[q] # {} => mode = "recovery"
  /\ \A q \in Requests : Locks(q) => db = Empty
  /\ \A q1, q2 \in Requests : Locks(q1) /\ Locks(q2) => q1 = q2

IndInv == Shape /\ Moment /\ Alone

----------------------------------------------------------------------------
(* Tables. *)

\* The four tables in their order.
LEMMA TableOrder ==
  /\ Steps = 1..4 /\ Done = 5
  /\ FINANCE_BACKUP_TABLES[1] = "finance_operations"
  /\ FINANCE_BACKUP_TABLES[2] = "finance_import_runs"
  /\ FINANCE_BACKUP_TABLES[3] = "budget_ledger_movements"
  /\ FINANCE_BACKUP_TABLES[4] = "budget_month_closures"
  /\ \A n \in Steps : FINANCE_BACKUP_TABLES[n] \in Tables
BY DEF Steps, Done, FINANCE_BACKUP_TABLES, Tables

\* An empty database is a content.
LEMMA EmptyContent == Empty \in Contents
BY DEF Empty, Contents

\* A snapshot's prefix is a content.
LEMMA BeforeContent ==
  ASSUME NEW tables \in Contents, NEW n \in 1..Done
  PROVE  Before(tables, n) \in Contents
BY TableOrder DEF Before, Contents

\* Nothing is before the first table,
LEMMA BeforeFirst ==
  ASSUME NEW tables \in Contents
  PROVE  Before(tables, 1) = Empty
BY DEF Before, Empty, Contents

\* each table adds itself,
LEMMA BeforeNext ==
  ASSUME NEW tables \in Contents, NEW n \in Steps
  PROVE  Before(tables, n + 1)
           = [Before(tables, n) EXCEPT ![FINANCE_BACKUP_TABLES[n]] = tables[FINANCE_BACKUP_TABLES[n]]]
<1>1. \A t \in Tables :
        (\E i \in 1..(n + 1 - 1) : FINANCE_BACKUP_TABLES[i] = t)
          <=> (FINANCE_BACKUP_TABLES[n] = t \/ \E i \in 1..(n - 1) : FINANCE_BACKUP_TABLES[i] = t)
  BY TableOrder
<1> DEFINE t0 == FINANCE_BACKUP_TABLES[n]
           B == Before(tables, n)
           C == Before(tables, n + 1)
<1>2. \A t \in Tables : C[t] = IF t = t0 THEN tables[t] ELSE B[t]
  <2> TAKE t \in Tables
  <2>1. C[t] = IF \E i \in 1..(n + 1 - 1) : FINANCE_BACKUP_TABLES[i] = t THEN tables[t] ELSE <<>>
    BY TableOrder DEF Before
  <2>2. B[t] = IF \E i \in 1..(n - 1) : FINANCE_BACKUP_TABLES[i] = t THEN tables[t] ELSE <<>>
    BY TableOrder DEF Before
  <2> HIDE DEF B, C
  <2>3. CASE t0 = t
    BY <1>1, <2>1, <2>3
  <2>4. CASE t0 # t
    BY <1>1, <2>1, <2>2, <2>4
  <2> QED BY <2>3, <2>4
<1>3. t0 \in Tables /\ B = [t \in Tables |-> B[t]] /\ C = [t \in Tables |-> C[t]]
  BY TableOrder DEF Before
<1> HIDE DEF B, C, t0
<1>4. C = [t \in Tables |-> IF t = t0 THEN tables[t0] ELSE B[t]]
  <2>1. \A t \in Tables : C[t] = IF t = t0 THEN tables[t0] ELSE B[t]
    BY <1>2
  <2>2. [t \in Tables |-> C[t]] = [t \in Tables |-> IF t = t0 THEN tables[t0] ELSE B[t]]
    BY <2>1
  <2> QED BY <2>2, <1>3
<1>5. [B EXCEPT ![t0] = tables[t0]] = [t \in Tables |-> IF t = t0 THEN tables[t0] ELSE B[t]]
  BY <1>3
<1> QED BY <1>4, <1>5 DEF B, C, t0

\* and after the last one nothing is missing.
LEMMA BeforeDone ==
  ASSUME NEW tables \in Contents
  PROVE  Before(tables, Done) = tables
<1>1. \A t \in Tables : \E i \in 1..(Done - 1) : FINANCE_BACKUP_TABLES[i] = t
  <2>1. 1 \in 1..(Done - 1) /\ 2 \in 1..(Done - 1) /\ 3 \in 1..(Done - 1) /\ 4 \in 1..(Done - 1)
    BY TableOrder
  <2> QED BY <2>1, TableOrder DEF Tables
<1>2. tables = [t \in Tables |-> tables[t]]
  BY DEF Contents
<1> QED BY <1>1, <1>2 DEF Before

\* What a row appended to a sequence does to its elements.
LEMMA ElementsAppend ==
  ASSUME NEW S, NEW s \in Seq(S), NEW x \in S
  PROVE  /\ Append(s, x) \in Seq(S)
         /\ Elements(Append(s, x)) = Elements(s) \cup {x}
         /\ IsExtended(s, Append(s, x))
<1>1. /\ Append(s, x) \in Seq(S) /\ Len(Append(s, x)) = Len(s) + 1
      /\ Append(s, x)[Len(s) + 1] = x
      /\ \A i \in 1..Len(s) : Append(s, x)[i] = s[i]
  BY AppendProperties
<1>2. Elements(Append(s, x)) = Elements(s) \cup {x}
  BY <1>1 DEF Elements
<1>3. SubSeq(Append(s, x), 1, Len(s)) = s
  BY <1>1
<1> QED BY <1>1, <1>2, <1>3 DEF IsExtended

\* Every sequence extends itself and the empty one.
LEMMA Extends ==
  ASSUME NEW S, NEW s \in Seq(S)
  PROVE  IsExtended(s, s) /\ IsExtended(<<>>, s)
BY DEF IsExtended

\* The imported database can be committed, an empty one cannot.
LEMMA ImportedMoment == Imported \in Moments /\ Empty \notin Moments
<1> DEFINE Row == Ops \cup {ImportRun} \cup [op : Ops, month : Months]
<1>1. Imported \in Contents
  <2>1. ImportRun \in Row
    OBVIOUS
  <2> HIDE DEF Row
  <2>2. <<ImportRun>> \in Seq(Row) /\ <<>> \in Seq(Row)
    BY <2>1
  <2>3. Imported \in [Tables -> Seq(Row)]
    BY <2>2 DEF Imported, Empty
  <2> QED BY <2>3 DEF Contents, Row
<1>2. /\ Imported["finance_import_runs"] = <<ImportRun>> /\ Empty["finance_import_runs"] = <<>>
      /\ Imported["budget_ledger_movements"] = <<>> /\ Imported["budget_month_closures"] = <<>>
  BY DEF Imported, Empty, Tables
<1>3. ImportRun \in Digests(Imported) /\ ImportRun \notin Digests(Empty)
  BY <1>2 DEF Digests, Elements
<1>4. References(Imported)
  BY <1>2 DEF References, Elements
<1> QED BY <1>1, <1>3, <1>4 DEF Moments

\* What the writes of entries and closings make of a content.
LEMMA AppendedMoment ==
  ASSUME db \in Moments, NEW t \in {"budget_ledger_movements", "budget_month_closures"},
         NEW row \in [op : Ops, month : Months]
  PROVE  /\ Appended(t, row.op, row) \in Moments
         /\ \A u \in Tables : IsExtended(db[u], Appended(t, row.op, row)[u])
<1> DEFINE Row == Ops \cup {ImportRun} \cup [op : Ops, month : Months]
           new == Appended(t, row.op, row)
           ops == "finance_operations"
<1>1. db \in [Tables -> Seq(Row)] /\ ImportRun \in Digests(db) /\ References(db)
  BY DEF Moments, Contents
<1>2. row \in Row /\ row.op \in Row /\ ops \in Tables /\ t \in Tables /\ t # ops
  BY DEF Tables
<1>3. /\ DOMAIN new = Tables
      /\ new[ops] = Append(db[ops], row.op) /\ new[t] = Append(db[t], row)
      /\ \A u \in Tables \ {ops, t} : new[u] = db[u]
  BY <1>1, <1>2 DEF Appended
<1> HIDE DEF Row
<1>4. /\ new[ops] \in Seq(Row) /\ Elements(new[ops]) = Elements(db[ops]) \cup {row.op}
      /\ IsExtended(db[ops], new[ops])
  BY <1>1, <1>2, <1>3, ElementsAppend
<1>5. /\ new[t] \in Seq(Row) /\ Elements(new[t]) = Elements(db[t]) \cup {row}
      /\ IsExtended(db[t], new[t])
  BY <1>1, <1>2, <1>3, ElementsAppend
<1>6. \A u \in Tables \ {ops, t} : new[u] \in Seq(Row) /\ IsExtended(db[u], new[u])
  BY <1>1, <1>3, Extends
<1>7. new \in Contents
  <2>1. new = [u \in Tables |-> new[u]]
    BY <1>1, <1>2 DEF Appended
  <2>2. \A u \in Tables : new[u] \in Seq(Row)
    BY <1>4, <1>5, <1>6
  <2> HIDE DEF new
  <2> QED BY <2>1, <2>2 DEF Contents, Row
<1>8. ImportRun \in Digests(new)
  <2>1. "finance_import_runs" \in Tables \ {ops, t}
    BY DEF Tables
  <2> QED BY <1>1, <1>3, <2>1 DEF Digests
<1>9. References(new)
  <2> SUFFICES ASSUME NEW u \in {"budget_ledger_movements", "budget_month_closures"},
                      NEW r \in Elements(new[u])
               PROVE  r.op \in Known(new)
    BY DEF References
  <2>1. Known(new) = Known(db) \cup {row.op}
    BY <1>4 DEF Known
  <2>2. u \in Tables /\ u # ops
    BY DEF Tables
  <2>3. CASE u = t
    BY <1>1, <1>5, <2>1, <2>3 DEF References
  <2>4. CASE u # t
    BY <1>1, <1>3, <2>1, <2>2, <2>4 DEF References
  <2> QED BY <2>3, <2>4
<1>10. \A u \in Tables : IsExtended(db[u], new[u])
  BY <1>4, <1>5, <1>6
<1> QED BY <1>7, <1>8, <1>9, <1>10 DEF Moments

\* More has been committed: what was read, copied and is being restored stays so.
LEMMA MoreCommitted ==
  ASSUME NEW H, NEW G, H \subseteq G
  PROVE  /\ ReadsOf(H) \subseteq ReadsOf(G)
         /\ RestoresOf(H) \subseteq RestoresOf(G)
         /\ Seq(CopiesOf(H)) \subseteq Seq(CopiesOf(G))
<1>1. ReadsOf(H) \subseteq ReadsOf(G) /\ RestoresOf(H) \subseteq RestoresOf(G)
  BY DEF ReadsOf, RestoresOf
<1>2. CopiesOf(H) \subseteq CopiesOf(G)
  BY DEF CopiesOf
<1> QED BY <1>1, <1>2

\* Pruning leaves copies that were there.
LEMMA NewestCopies ==
  ASSUME NEW S, NEW s \in Seq(S)
  PROVE  Newest(s) \in Seq(S)
<1>1. CASE Len(s) <= Keep
  BY <1>1 DEF Newest
<1>2. CASE ~(Len(s) <= Keep)
  <2>1. Len(s) \in Nat /\ Keep \in Nat \ {0} /\ Len(s) - Keep + 1 \in 1..Len(s)
    BY <1>2, RecoveryAssumption
  <2>2. SubSeq(s, Len(s) - Keep + 1, Len(s)) \in Seq(S)
    BY <2>1
  <2> QED BY <1>2, <2>2 DEF Newest
<1> QED BY <1>1, <1>2

----------------------------------------------------------------------------
(* The shape. *)

LEMMA ShapeInit == ASSUME Init PROVE Shape
<1>1. /\ mode \in Modes /\ sessions \subseteq Phones /\ importing \in BOOLEAN
      /\ phase \in [Phones -> Phases]
      /\ outbox \in [Phones -> SUBSET [op : Ops, month : Months]]
  BY DEF Init, Modes, Phases
<1>2. attempt \in [Phones -> 0..Retry] /\ success \in [Phones -> 0..Interval]
  BY RecoveryAssumption DEF Init
<1>3. budget \in [losses : Nat, faults : Nat]
  BY DEF Init
<1> QED BY <1>1, <1>2, <1>3 DEF Shape

LEMMA ShapeStep == ASSUME Shape, [Next]_vars PROVE Shape'
<1> USE RecoveryAssumption DEF Shape, server, clock, admin
<1>1. ASSUME NEW p \in Phones, Refresh(p) \/ BackupStep(p) PROVE Shape'
  <2>1. CASE Reserve(p) BY <2>1 DEF Reserve, Phases
  <2>2. CASE BackupBegins(p) BY <2>2 DEF BackupBegins, Phases
  <2>3. CASE ReadTable(p) BY <2>3 DEF ReadTable
  <2>4. CASE Publish(p) BY <2>4 DEF Publish, Phases
  <2>5. CASE Finish(p) BY <2>5 DEF Finish, Phases
  <2>6. CASE BackupFails(p) BY <2>6 DEF BackupFails, Phases
  <2>7. CASE Refresh(p) \/ SyncEnds(p) BY <2>7 DEF Refresh, SyncEnds, Phases
  <2> QED BY <1>1, <2>1, <2>2, <2>3, <2>4, <2>5, <2>6, <2>7 DEF BackupStep
<1>2. ASSUME NEW p \in Phones, NEW op \in Entries, NEW m \in Months, Save(p, op, m) PROVE Shape'
  <2>1. [op |-> op, month |-> m] \in [op : Ops, month : Months]
    BY DEF Ops
  <2> QED BY <1>2, <2>1 DEF Save
<1>3. ASSUME NEW p \in Phones, NEW e \in outbox[p], Deliver(p, e) PROVE Shape'
  BY <1>3 DEF Deliver
<1>4. ASSUME NEW op \in Closings, NEW m \in Months, CloseMonth(op, m) PROVE Shape'
  BY <1>4 DEF CloseMonth
<1>5. ASSUME NEW p \in Phones, NEW q \in Requests, RestoreBegins(p, q) PROVE Shape'
  BY <1>5 DEF RestoreBegins
<1>6. ASSUME NEW q \in Requests,
             InsertTable(q) \/ RestoreCommits(q) \/ RestoreRefused(q) \/ Rollback(q)
      PROVE Shape'
  BY <1>6 DEF InsertTable, RestoreCommits, RestoreRefused, Rollback, Fault
<1>7. CASE Export \/ ImportChecks \/ ImportCommits
  BY <1>7 DEF Export, ImportChecks, ImportCommits
<1>8. ASSUME NEW m \in Modes, Restart(m) \/ RestoreSqlite(m) \/ Lose(m) PROVE Shape'
  <2>1. \A p \in Phones : Orphaned[p] \in Phases
    BY DEF Orphaned, Phases
  <2>2. Orphaned \in [Phones -> Phases]
    BY <2>1 DEF Orphaned
  <2>3. CASE Restart(m) BY <2>3 DEF Restart, Fault
  <2>4. CASE RestoreSqlite(m) BY <2>2, <2>4 DEF RestoreSqlite
  <2>5. CASE Lose(m)
    <3>1. budget' \in [losses : Nat, faults : Nat]
      BY <2>5 DEF Lose
    <3>2. sessions' \subseteq Phones /\ mode' \in Modes /\ phase' \in [Phones -> Phases]
      BY <2>2, <2>5 DEF Lose
    <3> QED BY <2>5, <3>1, <3>2 DEF Lose
  <2> QED BY <1>8, <2>3, <2>4, <2>5
<1>9. ASSUME NEW p \in Phones, SignIn(p) \/ Cut(p) \/ PhoneCrash(p) PROVE Shape'
  BY <1>9 DEF SignIn, Cut, PhoneCrash, Fault, Phases
<1>10. ASSUME NEW p \in Phones, NEW k \in DOMAIN generations[p], Damage(p, k) PROVE Shape'
  BY <1>10 DEF Damage, Fault
<1>11. CASE Tick
  <2>1. \A p \in Phones : attempt[p] \in 0..Retry /\ success[p] \in 0..Interval
    OBVIOUS
  <2>2. /\ attempt' \in [Phones -> 0..Retry]
        /\ success' \in [Phones -> 0..Interval]
    BY <1>11, <2>1 DEF Tick
  <2> QED BY <1>11, <2>2 DEF Tick
<1>12. CASE UNCHANGED vars BY <1>12 DEF vars
<1> QED BY <1>1, <1>2, <1>3, <1>4, <1>5, <1>6, <1>7, <1>8, <1>9, <1>10, <1>11, <1>12 DEF Next
----------------------------------------------------------------------------
(* Committed moments. *)

\* Without an import nothing can be read, so what can be read has been committed.
LEMMA LoadsCommitted == ASSUME Moment, Loads(db) PROVE db \in history /\ db \in Moments
<1>1. ~Loads(Empty)
  BY DEF Loads, Empty, Tables
<1> QED BY <1>1 DEF Moment

\* An export that has read one more table still holds the tables of its moment.
LEMMA ReadsOneMoment ==
  ASSUME NEW H, H \subseteq Moments, NEW r \in ReadsOf(H), r.next \in Steps
  PROVE  [r EXCEPT !.tables[FINANCE_BACKUP_TABLES[r.next]] = Read(r, FINANCE_BACKUP_TABLES[r.next]),
                   !.next = @ + 1] \in ReadsOf(H)
<1> DEFINE t0 == FINANCE_BACKUP_TABLES[r.next]
           s == [r EXCEPT !.tables[t0] = Read(r, t0), !.next = @ + 1]
<1>1. /\ r \in [view : H, tables : Contents, next : 1..Done]
      /\ r.tables = Before(r.view, r.next) /\ r.view \in H /\ r.view \in Contents
  BY DEF ReadsOf, Moments
<1>2. r.next + 1 \in 1..Done
  BY TableOrder
<1>3. /\ s.view = r.view /\ s.next = r.next + 1
      /\ s.tables = [r.tables EXCEPT ![t0] = r.view[t0]]
  BY <1>1 DEF Read
<1>4. s.tables = Before(s.view, s.next)
  BY <1>1, <1>3, BeforeNext
<1>5. s.tables \in Contents
  BY <1>1, <1>2, <1>3, <1>4, BeforeContent
<1>6. s \in [view : H, tables : Contents, next : 1..Done]
  <2>1. DOMAIN s = {"view", "tables", "next"} /\ s = [f \in DOMAIN s |-> s[f]]
    BY <1>1
  <2> HIDE DEF s
  <2> QED BY <1>1, <1>2, <1>3, <1>5, <2>1
<1> HIDE DEF s
<1>7. s \in ReadsOf(H)
  BY <1>1, <1>2, <1>3, <1>4, <1>5, <1>6 DEF ReadsOf
<1> QED BY <1>7 DEF s

\* A write commits a moment and leaves everything else as it was.
LEMMA Written ==
  ASSUME Moment, db' \in Moments, history' = history \cup {db'},
         UNCHANGED <<reading, restoring, generations, phase, archive>>
  PROVE  Moment'
<1>1. /\ ReadsOf(history) \subseteq ReadsOf(history')
      /\ RestoresOf(history) \subseteq RestoresOf(history')
      /\ Seq(CopiesOf(history)) \subseteq Seq(CopiesOf(history'))
  BY MoreCommitted
<1>2. /\ reading' \in [Phones -> SUBSET ReadsOf(history')]
      /\ restoring' \in [Requests -> SUBSET RestoresOf(history')]
      /\ generations' \in [Phones -> Seq(CopiesOf(history'))]
  BY <1>1 DEF Moment
<1>3. history' \subseteq Moments /\ db' \in history' /\ archive' \subseteq history' \cup {Empty}
  BY DEF Moment
<1> QED BY <1>2, <1>3 DEF Moment

LEMMA MomentInit == ASSUME Init PROVE Moment
<1>1. generations \in [Phones -> Seq(CopiesOf(history))]
  BY DEF Init
<1> QED BY <1>1 DEF Init, Moment

LEMMA MomentBackup ==
  ASSUME Shape, Moment, NEW p \in Phones, Refresh(p) \/ BackupStep(p)
  PROVE  Moment'
<1> USE DEF server, clock, admin
<1>1. CASE Reserve(p)
  <2>1. db \in history
    BY <1>1, LoadsCommitted DEF Reserve, Reserves
  <2> QED BY <1>1, <2>1 DEF Reserve, Moment
<1>2. CASE BackupBegins(p)
  <2>1. db \in history /\ db \in Contents
    BY <1>2 DEF BackupBegins, Moment, Moments
  <2>2. Opened \subseteq ReadsOf(history)
    BY <2>1, BeforeFirst, EmptyContent, TableOrder DEF Opened, ReadsOf
  <2>3. reading' \in [Phones -> SUBSET ReadsOf(history')]
    BY <1>2, <2>2 DEF BackupBegins, Moment
  <2>4. \A x \in Phones : phase'[x] = "asked" => phase[x] = "asked"
    BY <1>2 DEF BackupBegins, Shape
  <2> QED BY <1>2, <2>3, <2>4 DEF BackupBegins, Moment
<1>3. CASE ReadTable(p)
  <2>1. PICK r \in reading[p] :
          /\ r.next \in Steps
          /\ LET t == FINANCE_BACKUP_TABLES[r.next]
             IN  reading' = [reading EXCEPT ![p] = {[r EXCEPT !.tables[t] = Read(r, t), !.next = @ + 1]}]
    BY <1>3 DEF ReadTable
  <2>2. r \in ReadsOf(history) /\ history \subseteq Moments
    BY DEF Moment
  <2>3. [r EXCEPT !.tables[FINANCE_BACKUP_TABLES[r.next]] = Read(r, FINANCE_BACKUP_TABLES[r.next]),
                  !.next = @ + 1] \in ReadsOf(history)
    BY <2>1, <2>2, ReadsOneMoment
  <2>4. reading' \in [Phones -> SUBSET ReadsOf(history)]
    BY <2>1, <2>3 DEF Moment
  <2> QED BY <1>3, <2>4 DEF ReadTable, Moment
<1>4. CASE Publish(p)
  <2>1. PICK r \in reading[p] :
          /\ r.next = Done
          /\ generations' = [generations EXCEPT ![p] = Append(@, [tables |-> r.tables, intact |-> TRUE])]
    BY <1>4 DEF Publish
  <2>2. r.view \in history /\ r.view \in Contents /\ r.tables = Before(r.view, Done)
    BY <2>1 DEF Moment, Moments, ReadsOf
  <2>3. r.tables \in history
    BY <2>2, BeforeDone
  <2>4. [tables |-> r.tables, intact |-> TRUE] \in CopiesOf(history)
    BY <2>3 DEF CopiesOf
  <2>5. generations' \in [Phones -> Seq(CopiesOf(history))]
    BY <2>1, <2>4 DEF Moment
  <2>6. reading' \in [Phones -> SUBSET ReadsOf(history)]
    BY <1>4 DEF Publish, Moment
  <2>7. \A x \in Phones : phase'[x] = "asked" => phase[x] = "asked"
    BY <1>4 DEF Publish, Shape
  <2> QED BY <1>4, <2>5, <2>6, <2>7 DEF Publish, Moment
<1>5. CASE Finish(p)
  <2>1. Newest(generations[p]) \in Seq(CopiesOf(history))
    BY NewestCopies DEF Moment
  <2>2. generations' \in [Phones -> Seq(CopiesOf(history))]
    BY <1>5, <2>1 DEF Finish, Moment
  <2>3. \A x \in Phones : phase'[x] = "asked" => phase[x] = "asked"
    BY <1>5 DEF Finish, Shape
  <2> QED BY <1>5, <2>2, <2>3 DEF Finish, Moment
<1>6. CASE BackupFails(p)
  <2>1. \A x \in Phones : phase'[x] = "asked" => phase[x] = "asked"
    BY <1>6 DEF BackupFails, Shape
  <2> QED BY <1>6, <2>1 DEF BackupFails, Moment
<1>7. CASE Refresh(p) \/ SyncEnds(p)
  <2>1. \A x \in Phones : phase'[x] = "asked" => phase[x] = "asked"
    BY <1>7 DEF Refresh, SyncEnds, Shape
  <2> QED BY <1>7, <2>1 DEF Refresh, SyncEnds, Moment
<1> QED BY <1>1, <1>2, <1>3, <1>4, <1>5, <1>6, <1>7 DEF BackupStep

LEMMA MomentWrite ==
  ASSUME Shape, Moment,
         \/ \E p \in Phones : \E e \in outbox[p] : Deliver(p, e)
         \/ \E op \in Closings, m \in Months : CloseMonth(op, m)
         \/ ImportCommits
  PROVE  /\ Moment'
         /\ ~ImportCommits => \A t \in Tables : IsExtended(db[t], db'[t])
<1> USE DEF server, clock, admin
<1>1. ASSUME NEW p \in Phones, NEW e \in outbox[p], Deliver(p, e)
      PROVE  Moment' /\ \A t \in Tables : IsExtended(db[t], db'[t])
  <2>1. db \in Moments /\ db \in Contents
    BY <1>1, LoadsCommitted DEF Deliver, Moments
  <2>2. e \in [op : Ops, month : Months]
    BY DEF Shape
  <2>3. /\ Appended("budget_ledger_movements", e.op, e) \in Moments
        /\ \A t \in Tables : IsExtended(db[t], Appended("budget_ledger_movements", e.op, e)[t])
    BY <2>1, <2>2, AppendedMoment
  <2>4. \A t \in Tables : IsExtended(db[t], db[t])
    BY <2>1, Extends DEF Contents
  <2>5. db' \in Moments /\ \A t \in Tables : IsExtended(db[t], db'[t])
    BY <1>1, <2>1, <2>3, <2>4 DEF Deliver, Recorded
  <2> QED BY <1>1, <2>5, Written DEF Deliver
<1>2. ASSUME NEW op \in Closings, NEW m \in Months, CloseMonth(op, m)
      PROVE  Moment' /\ \A t \in Tables : IsExtended(db[t], db'[t])
  <2>1. db \in Moments
    BY <1>2, LoadsCommitted DEF CloseMonth
  <2> DEFINE row == [op |-> op, month |-> m]
  <2>2. row \in [op : Ops, month : Months] /\ row.op = op
    BY DEF Ops
  <2>3. db' = Appended("budget_month_closures", row.op, row)
    BY <1>2, <2>2 DEF CloseMonth
  <2> HIDE DEF row
  <2>4. db' \in Moments /\ \A t \in Tables : IsExtended(db[t], db'[t])
    BY <2>1, <2>2, <2>3, AppendedMoment
  <2> QED BY <1>2, <2>4, Written DEF CloseMonth
<1>3. ASSUME ImportCommits PROVE Moment'
  <2>1. ImportRun \notin Digests(Empty)
    BY DEF Digests, Elements, Empty, Tables
  <2>2. db' \in Moments
    BY <1>3, <2>1, ImportedMoment DEF ImportCommits, Moment
  <2> QED BY <1>3, <2>2, Written DEF ImportCommits
<1> QED BY <1>1, <1>2, <1>3

LEMMA MomentRestore ==
  ASSUME Shape, Moment, NEW q \in Requests,
         \/ \E p \in Phones : RestoreBegins(p, q)
         \/ InsertTable(q) \/ RestoreCommits(q) \/ RestoreRefused(q) \/ Rollback(q)
  PROVE  Moment'
<1> USE DEF server, clock, admin
<1>1. ASSUME NEW p \in Phones, RestoreBegins(p, q) PROVE Moment'
  <2>1. Latest(p) \subseteq history
    <3>1. generations[p] \in Seq(CopiesOf(history))
      BY DEF Moment
    <3>2. \A k \in DOMAIN generations[p] : generations[p][k] \in CopiesOf(history)
      BY <3>1
    <3>3. \A k \in DOMAIN generations[p] : generations[p][k].tables \in history
      BY <3>2 DEF CopiesOf
    <3> QED BY <3>3 DEF Latest, LatestOf, Usable
  <2>2. PICK tables \in Latest(p) : restoring' = [restoring EXCEPT ![q] = {[tables |-> tables, next |-> 1]}]
    BY <1>1 DEF RestoreBegins
  <2>3. [tables |-> tables, next |-> 1] \in RestoresOf(history)
    BY <2>1, TableOrder DEF RestoresOf
  <2>4. restoring' \in [Requests -> SUBSET RestoresOf(history)]
    BY <2>2, <2>3 DEF Moment
  <2> QED BY <1>1, <2>4 DEF RestoreBegins, Moment
<1>2. CASE InsertTable(q)
  <2>1. PICK r \in restoring[q] :
          /\ r.next \in Steps
          /\ restoring' = [restoring EXCEPT ![q] = {[r EXCEPT !.next = @ + 1]}]
    BY <1>2 DEF InsertTable
  <2>2. [r EXCEPT !.next = @ + 1] \in RestoresOf(history)
    BY <2>1, TableOrder DEF RestoresOf, Moment
  <2>3. restoring' \in [Requests -> SUBSET RestoresOf(history)]
    BY <2>1, <2>2 DEF Moment
  <2> QED BY <1>2, <2>3 DEF InsertTable, Moment
<1>3. CASE RestoreCommits(q)
  <2>1. PICK r \in restoring[q] : db' = r.tables /\ restoring' = [restoring EXCEPT ![q] = {}]
    BY <1>3 DEF RestoreCommits
  <2>2. db' \in history
    BY <2>1 DEF Moment, RestoresOf
  <2>3. restoring' \in [Requests -> SUBSET RestoresOf(history)]
    BY <2>1 DEF Moment
  <2> QED BY <1>3, <2>2, <2>3 DEF RestoreCommits, Moment
<1>4. CASE RestoreRefused(q) \/ Rollback(q)
  <2>1. restoring' = [restoring EXCEPT ![q] = {}]
    BY <1>4 DEF RestoreRefused, Rollback
  <2>2. restoring' \in [Requests -> SUBSET RestoresOf(history)]
    BY <2>1 DEF Moment
  <2> QED BY <1>4, <2>2 DEF RestoreRefused, Rollback, Moment
<1> QED BY <1>1, <1>2, <1>3, <1>4

LEMMA MomentFault ==
  ASSUME Shape, Moment,
         \/ \E m \in Modes : Restart(m) \/ RestoreSqlite(m) \/ Lose(m)
         \/ \E p \in Phones : SignIn(p) \/ Cut(p) \/ PhoneCrash(p)
         \/ \E p \in Phones : \E k \in DOMAIN generations[p] : Damage(p, k)
  PROVE  Moment'
<1> USE DEF server, clock, admin
<1>1. ASSUME Interrupted PROVE /\ reading' \in [Phones -> SUBSET ReadsOf(history)]
                               /\ restoring' \in [Requests -> SUBSET RestoresOf(history)]
  BY <1>1 DEF Interrupted
<1>2. \A p \in Phones : Orphaned[p] # "asked"
  BY DEF Orphaned
<1>3. ASSUME NEW m \in Modes, Restart(m) PROVE Moment'
  BY <1>1, <1>3 DEF Restart, Moment
<1>4. ASSUME NEW m \in Modes, RestoreSqlite(m) PROVE Moment'
  <2>1. db' \in history \cup {Empty} /\ archive' = {} /\ phase' = Orphaned
    BY <1>4 DEF RestoreSqlite, Moment
  <2> QED BY <1>1, <1>2, <1>4, <2>1 DEF RestoreSqlite, Moment
<1>5. ASSUME NEW m \in Modes, Lose(m) PROVE Moment'
  BY <1>1, <1>2, <1>5 DEF Lose, Moment
<1>6. ASSUME NEW p \in Phones, SignIn(p) PROVE Moment'
  BY <1>6 DEF SignIn, Moment
<1>7. ASSUME NEW p \in Phones, Cut(p) PROVE Moment'
  BY <1>7 DEF Cut, Moment
<1>8. ASSUME NEW p \in Phones, PhoneCrash(p) PROVE Moment'
  <2>1. \A x \in Phones : phase'[x] = "asked" => phase[x] = "asked"
    BY <1>8 DEF PhoneCrash, Shape
  <2>2. reading' \in [Phones -> SUBSET ReadsOf(history)]
    BY <1>8 DEF PhoneCrash, Moment
  <2> QED BY <1>8, <2>1, <2>2 DEF PhoneCrash, Moment
<1>9. ASSUME NEW p \in Phones, NEW k \in DOMAIN generations[p], Damage(p, k) PROVE Moment'
  <2>1. generations[p] \in Seq(CopiesOf(history)) /\ generations[p][k] \in CopiesOf(history)
    BY DEF Moment
  <2>2. [generations[p][k] EXCEPT !.intact = FALSE] \in CopiesOf(history)
    BY <2>1 DEF CopiesOf
  <2>3. [generations[p] EXCEPT ![k].intact = FALSE] \in Seq(CopiesOf(history))
    BY <2>1, <2>2
  <2>4. generations' \in [Phones -> Seq(CopiesOf(history))]
    BY <1>9, <2>3 DEF Damage, Moment
  <2> QED BY <1>9, <2>4 DEF Damage, Moment
<1> QED BY <1>3, <1>4, <1>5, <1>6, <1>7, <1>8, <1>9

LEMMA MomentStep == ASSUME Shape, Moment, [Next]_vars PROVE Moment'
<1> USE DEF server, clock, admin
<1>1. ASSUME NEW p \in Phones, NEW op \in Entries, NEW m \in Months, Save(p, op, m) PROVE Moment'
  BY <1>1 DEF Save, Moment
<1>2. CASE Export \/ ImportChecks
  BY <1>2 DEF Export, ImportChecks, Moment
<1>3. CASE Tick BY <1>3 DEF Tick, Moment
<1>4. CASE UNCHANGED vars BY <1>4 DEF vars, Moment
<1> QED BY <1>1, <1>2, <1>3, <1>4, MomentBackup, MomentWrite, MomentRestore, MomentFault DEF Next
----------------------------------------------------------------------------
(* One restore at a time writes, into an empty database.                  *)

\* Without restores, and with none that has taken the lock, nothing is to be shown.
LEMMA NoneAlone ==
  ASSUME \A q \in Requests : restoring[q] = {}
  PROVE  Alone
BY DEF Alone, Locks

\* A restore has taken the lock once it has inserted everything.
LEMMA LastLocks ==
  ASSUME Moment, NEW q \in Requests, NEW r \in restoring[q], r.next = Done
  PROVE  Locks(q)
<1>1. r.tables \in Moments /\ r.tables \in Contents
  BY DEF Moment, RestoresOf, Moments
<1>2. Before(r.tables, r.next) # Empty
  BY <1>1, BeforeDone, ImportedMoment
<1> QED BY <1>2 DEF Locks

\* A restore whose next insert is the first one needs what MayWrite asks for; one with
\* the lock has it already.
LEMMA InsertAlone ==
  ASSUME Moment, Alone, NEW q \in Requests, InsertTable(q)
  PROVE  Alone'
<1>1. PICK r \in restoring[q] :
        /\ r.next \in Steps
        /\ r.tables[FINANCE_BACKUP_TABLES[r.next]] # <<>> => MayWrite(q)
        /\ restoring' = [restoring EXCEPT ![q] = {[r EXCEPT !.next = @ + 1]}]
        /\ db' = db /\ mode' = mode
  BY DEF InsertTable, server
<1> DEFINE t0 == FINANCE_BACKUP_TABLES[r.next]
           s == [r EXCEPT !.next = @ + 1]
<1>2. r \in RestoresOf(history) /\ r.tables \in Contents
  BY DEF Moment, Moments, RestoresOf
<1>3. s.tables = r.tables /\ s.next = r.next + 1
  BY <1>2 DEF RestoresOf
<1>4. /\ restoring'[q] = {s}
      /\ \A x \in Requests \ {q} : restoring'[x] = restoring[x]
  BY <1>1 DEF Moment
<1>5. Locks(q)' => Before(r.tables, r.next + 1) # Empty
  BY <1>3, <1>4 DEF Locks
<1>6. \A x \in Requests \ {q} : Locks(x)' <=> Locks(x)
  BY <1>4 DEF Locks
<1>7. Before(r.tables, r.next + 1) = [Before(r.tables, r.next) EXCEPT ![t0] = r.tables[t0]]
  BY <1>1, <1>2, BeforeNext
<1>8. ASSUME Locks(q)' PROVE Locks(q) \/ MayWrite(q)
  <2>1. CASE r.tables[t0] # <<>>
    BY <1>1, <2>1
  <2>2. CASE r.tables[t0] = <<>>
    <3>1. SUFFICES ASSUME Before(r.tables, r.next) = Empty PROVE FALSE
      BY DEF Locks
    <3>2. t0 \in Tables
      BY <1>1, TableOrder
    <3>3. [Empty EXCEPT ![t0] = <<>>] = Empty
      BY <3>2 DEF Empty
    <3> QED BY <1>5, <1>7, <1>8, <2>2, <3>1, <3>3
  <2> QED BY <2>1, <2>2
<1>9. ASSUME Locks(q)' PROVE db = Empty /\ \A x \in Requests \ {q} : ~Locks(x)
  BY <1>8, <1>9 DEF MayWrite, Alone
<1>10. \A x \in Requests : restoring'[x] # {} => mode' = "recovery"
  BY <1>1, <1>4 DEF Alone
<1>11. \A x \in Requests : Locks(x)' => db' = Empty
  BY <1>1, <1>6, <1>9 DEF Alone
<1>12. \A x, y \in Requests : Locks(x)' /\ Locks(y)' => x = y
  BY <1>6, <1>9 DEF Alone
<1> QED BY <1>10, <1>11, <1>12 DEF Alone

\* A restore that ends, whatever its end, leaves the others without the lock if it
\* had it.
LEMMA EndAlone ==
  ASSUME Moment, Alone, NEW q \in Requests,
         RestoreCommits(q) \/ RestoreRefused(q) \/ Rollback(q)
  PROVE  Alone'
<1>1. restoring' = [restoring EXCEPT ![q] = {}] /\ mode' = mode
  BY DEF RestoreCommits, RestoreRefused, Rollback, server
<1>2. restoring'[q] = {} /\ \A x \in Requests \ {q} : restoring'[x] = restoring[x]
  BY <1>1 DEF Moment
<1>3. ~Locks(q)' /\ \A x \in Requests \ {q} : Locks(x)' <=> Locks(x)
  BY <1>2 DEF Locks
<1>4. CASE RestoreCommits(q)
  <2>1. Locks(q)
    BY <1>4, LastLocks DEF RestoreCommits
  <2>2. \A x \in Requests : ~Locks(x)'
    BY <1>3, <2>1 DEF Alone
  <2> QED BY <1>1, <1>2, <2>2 DEF Alone
<1>5. CASE RestoreRefused(q) \/ Rollback(q)
  <2>1. db' = db
    BY <1>5 DEF RestoreRefused, Rollback, server
  <2> QED BY <1>1, <1>2, <1>3, <2>1 DEF Alone
<1> QED BY <1>4, <1>5

LEMMA BeginAlone ==
  ASSUME Moment, Alone, NEW p \in Phones, NEW q \in Requests, RestoreBegins(p, q)
  PROVE  Alone'
<1>1. PICK tables \in Latest(p) : restoring' = [restoring EXCEPT ![q] = {[tables |-> tables, next |-> 1]}]
  BY DEF RestoreBegins
<1>2. restoring'[q] = {[tables |-> tables, next |-> 1]} /\ \A x \in Requests \ {q} : restoring'[x] = restoring[x]
  BY <1>1 DEF Moment
<1>3. Before(tables, 1) = Empty
  BY DEF Before, Empty
<1>4. ~Locks(q)' /\ \A x \in Requests \ {q} : Locks(x)' <=> Locks(x)
  BY <1>2, <1>3 DEF Locks
<1>5. db' = db /\ mode' = mode /\ mode = "recovery"
  BY DEF RestoreBegins, server
<1> QED BY <1>2, <1>4, <1>5 DEF Alone
LEMMA AloneStep == ASSUME Shape, Moment, Alone, [Next]_vars PROVE Alone'
<1> USE DEF server, clock, admin
<1>1. ASSUME UNCHANGED <<db, mode, restoring>> PROVE Alone'
  BY <1>1 DEF Alone, Locks
<1>2. ASSUME \A q \in Requests : restoring'[q] = {} PROVE Alone'
  BY <1>2 DEF Alone, Locks
<1>3. ASSUME mode = "writing", restoring' = restoring PROVE Alone'
  BY <1>2, <1>3 DEF Alone
<1>4. ASSUME NEW p \in Phones, Refresh(p) \/ BackupStep(p) PROVE Alone'
  BY <1>1, <1>4 DEF Refresh, BackupStep, SyncEnds, Reserve, BackupBegins, ReadTable, Publish, Finish, BackupFails
<1>5. ASSUME NEW p \in Phones, NEW op \in Entries, NEW m \in Months, Save(p, op, m) PROVE Alone'
  BY <1>1, <1>5 DEF Save
<1>6. ASSUME NEW p \in Phones, NEW e \in outbox[p], Deliver(p, e) PROVE Alone'
  BY <1>3, <1>6 DEF Deliver
<1>7. ASSUME NEW op \in Closings, NEW m \in Months, CloseMonth(op, m) PROVE Alone'
  BY <1>3, <1>7 DEF CloseMonth
<1>8. CASE ImportCommits
  BY <1>8 DEF ImportCommits, Alone, Locks
<1>9. CASE Export \/ ImportChecks \/ Tick \/ UNCHANGED vars
  BY <1>1, <1>9 DEF Export, ImportChecks, Tick, vars
<1>10. ASSUME NEW m \in Modes, Restart(m) \/ RestoreSqlite(m) \/ Lose(m) PROVE Alone'
  BY <1>2, <1>10 DEF Restart, RestoreSqlite, Lose, Interrupted
<1>11. ASSUME NEW p \in Phones, SignIn(p) \/ Cut(p) \/ PhoneCrash(p) PROVE Alone'
  BY <1>1, <1>11 DEF SignIn, Cut, PhoneCrash
<1>12. ASSUME NEW p \in Phones, NEW k \in DOMAIN generations[p], Damage(p, k) PROVE Alone'
  BY <1>1, <1>12 DEF Damage
<1> QED BY <1>4, <1>5, <1>6, <1>7, <1>8, <1>9, <1>10, <1>11, <1>12,
           BeginAlone, InsertAlone, EndAlone DEF Next

LEMMA Invariance == Spec => []IndInv
<1>1. Init => IndInv
  BY ShapeInit, MomentInit, NoneAlone DEF Init, IndInv
<1>2. IndInv /\ [Next]_vars => IndInv'
  BY ShapeStep, MomentStep, AloneStep DEF IndInv
<1> QED BY <1>1, <1>2, PTL DEF Spec

----------------------------------------------------------------------------
(* Damaged copies. *)

BrokenIn(s) == {k \in DOMAIN s : ~s[k].intact}

\* Every copy a phone keeps damaged was one of the faults so far.
DamageCounted ==
  /\ budget.faults <= MaxFaults
  /\ \A p \in Phones : Cardinality(BrokenIn(generations[p])) <= budget.faults

LEMMA BrokenFinite ==
  ASSUME NEW S, NEW s \in Seq(S)
  PROVE  IsFiniteSet(BrokenIn(s)) /\ Cardinality(BrokenIn(s)) \in Nat
<1>1. IsFiniteSet(1..Len(s))
  BY FS_Interval
<1>2. BrokenIn(s) \in SUBSET (1..Len(s))
  BY DEF BrokenIn
<1> QED BY <1>1, <1>2, FS_Subset, FS_CardinalityType

\* A new copy is intact.
LEMMA BrokenAppend ==
  ASSUME NEW S, NEW s \in Seq(S), NEW c \in S, c.intact
  PROVE  BrokenIn(Append(s, c)) = BrokenIn(s)
<1>1. DOMAIN Append(s, c) = 1..(Len(s) + 1) /\ DOMAIN s = 1..Len(s) /\ Len(s) \in Nat
  OBVIOUS
<1>2. Append(s, c)[Len(s) + 1] = c /\ \A k \in 1..Len(s) : Append(s, c)[k] = s[k]
  OBVIOUS
<1> HIDE DEF BrokenIn
<1> QED BY <1>1, <1>2 DEF BrokenIn

\* What pruning keeps, when it removes anything: the last Keep copies.
LEMMA NewestAre ==
  ASSUME NEW S, NEW s \in Seq(S), Len(s) > Keep
  PROVE  /\ Len(Newest(s)) = Keep /\ DOMAIN Newest(s) = 1..Keep
         /\ \A k \in 1..Keep : Newest(s)[k] = s[k + (Len(s) - Keep)]
<1>1. Len(s) \in Nat /\ Keep \in Nat \ {0}
  BY RecoveryAssumption
<1>2. Newest(s) = SubSeq(s, Len(s) - Keep + 1, Len(s))
  BY <1>1 DEF Newest
<1>3. Newest(s) = [k \in 1..Keep |-> s[k + (Len(s) - Keep)]]
  BY <1>1, <1>2
<1> QED BY <1>1, <1>3, NewestCopies

LEMMA BrokenNewest ==
  ASSUME NEW S, NEW s \in Seq(S)
  PROVE  Cardinality(BrokenIn(Newest(s))) <= Cardinality(BrokenIn(s))
<1>1. CASE Len(s) <= Keep
  BY <1>1, BrokenFinite DEF Newest
<1>2. CASE Len(s) > Keep
  <2> DEFINE f == [k \in BrokenIn(Newest(s)) |-> k + (Len(s) - Keep)]
  <2>1. Len(s) \in Nat /\ Keep \in Nat \ {0}
    BY RecoveryAssumption
  <2>2. \A k \in BrokenIn(Newest(s)) :
           k \in 1..Keep /\ k + (Len(s) - Keep) \in BrokenIn(s)
    BY <1>2, <2>1, NewestAre DEF BrokenIn
  <2>3. f \in [BrokenIn(Newest(s)) -> BrokenIn(s)]
    BY <2>2
  <2>4. \A a, b \in BrokenIn(Newest(s)) : f[a] = f[b] => a = b
    BY <2>1, <2>2
  <2>5. f \in Injection(BrokenIn(Newest(s)), BrokenIn(s))
    BY <2>3, <2>4 DEF Injection, IsInjective
  <2> HIDE DEF f
  <2> QED BY <2>5, BrokenFinite, FS_Injection
<1>3. Len(s) \in Nat /\ Keep \in Nat
  BY RecoveryAssumption
<1> QED BY <1>1, <1>2, <1>3

\* Among more copies than are damaged, one is intact.
LEMMA OneIntact ==
  ASSUME NEW S, NEW s \in Seq(S), Len(s) > Keep, Cardinality(BrokenIn(s)) < Keep
  PROVE  \E k \in DOMAIN s : s[k].intact /\ k > Len(s) - Keep
<1> SUFFICES ASSUME \A k \in DOMAIN s : k > Len(s) - Keep => ~s[k].intact PROVE FALSE
  OBVIOUS
<1>1. Len(s) \in Nat /\ Keep \in Nat \ {0} /\ DOMAIN s = 1..Len(s)
  BY RecoveryAssumption
<1>2. (Len(s) - Keep + 1)..Len(s) \in SUBSET BrokenIn(s)
  BY <1>1 DEF BrokenIn
<1>3. Cardinality((Len(s) - Keep + 1)..Len(s)) = Keep
  BY <1>1, FS_Interval
<1>4. Keep <= Cardinality(BrokenIn(s))
  BY <1>2, <1>3, BrokenFinite, FS_Subset
<1> QED BY <1>1, <1>4, BrokenFinite

\* Only a publication, the pruning after it and damage change the copies.
LEMMA CopiesChange ==
  ASSUME [Next]_vars
  PROVE  \/ generations' = generations
         \/ \E p \in Phones : Publish(p) \/ Finish(p)
         \/ \E p \in Phones : \E k \in DOMAIN generations[p] : Damage(p, k)
<1> USE DEF server, clock, admin
<1>1. ASSUME NEW p \in Phones, Refresh(p) \/ BackupStep(p)
      PROVE  generations' = generations \/ Publish(p) \/ Finish(p)
  BY <1>1 DEF Refresh, BackupStep, SyncEnds, Reserve, BackupBegins, ReadTable, BackupFails
<1>2. ASSUME NEW p \in Phones, NEW op \in Entries, NEW m \in Months, Save(p, op, m)
      PROVE  generations' = generations
  BY <1>2 DEF Save
<1>3. ASSUME NEW p \in Phones, NEW e \in outbox[p], Deliver(p, e) PROVE generations' = generations
  BY <1>3 DEF Deliver
<1>4. ASSUME NEW op \in Closings, NEW m \in Months, CloseMonth(op, m)
      PROVE  generations' = generations
  BY <1>4 DEF CloseMonth
<1>5. ASSUME NEW p \in Phones, NEW q \in Requests, RestoreBegins(p, q)
      PROVE  generations' = generations
  BY <1>5 DEF RestoreBegins
<1>6. ASSUME NEW q \in Requests,
             InsertTable(q) \/ RestoreCommits(q) \/ RestoreRefused(q) \/ Rollback(q)
      PROVE  generations' = generations
  BY <1>6 DEF InsertTable, RestoreCommits, RestoreRefused, Rollback
<1>7. CASE Export \/ ImportChecks \/ ImportCommits \/ Tick \/ UNCHANGED vars
  BY <1>7 DEF Export, ImportChecks, ImportCommits, Tick, vars
<1>8. ASSUME NEW m \in Modes, Restart(m) \/ RestoreSqlite(m) \/ Lose(m)
      PROVE  generations' = generations
  BY <1>8 DEF Restart, RestoreSqlite, Lose
<1>9. ASSUME NEW p \in Phones, SignIn(p) \/ Cut(p) \/ PhoneCrash(p)
      PROVE  generations' = generations
  BY <1>9 DEF SignIn, Cut, PhoneCrash
<1> QED BY <1>1, <1>2, <1>3, <1>4, <1>5, <1>6, <1>7, <1>8, <1>9 DEF Next

\* Faults are counted up to their bound.
LEMMA FaultsCounted ==
  ASSUME Shape, [Next]_vars
  PROVE  /\ budget.faults <= budget'.faults
         /\ budget.faults <= MaxFaults => budget'.faults <= MaxFaults
<1> USE RecoveryAssumption DEF Shape, server, clock, admin
<1>1. budget.faults \in Nat /\ MaxFaults \in Nat
  OBVIOUS
<1>2. ASSUME budget' = budget PROVE budget.faults <= budget'.faults /\ budget'.faults = budget.faults
  BY <1>1, <1>2
<1>3. ASSUME budget.faults < MaxFaults, budget' = [budget EXCEPT !.faults = @ + 1]
      PROVE  budget.faults <= budget'.faults /\ budget'.faults <= MaxFaults
  BY <1>1, <1>3
<1>4. ASSUME NEW p \in Phones, Refresh(p) \/ BackupStep(p) PROVE budget' = budget
  BY <1>4 DEF Refresh, BackupStep, SyncEnds, Reserve, BackupBegins, ReadTable, Publish, Finish, BackupFails
<1>5. ASSUME NEW p \in Phones, NEW op \in Entries, NEW m \in Months, Save(p, op, m)
      PROVE  budget' = budget
  BY <1>5 DEF Save
<1>6. ASSUME NEW p \in Phones, NEW e \in outbox[p], Deliver(p, e)
      PROVE  \/ budget' = budget
             \/ budget.faults < MaxFaults /\ budget' = [budget EXCEPT !.faults = @ + 1]
  BY <1>6 DEF Deliver
<1>7. ASSUME NEW op \in Closings, NEW m \in Months, CloseMonth(op, m) PROVE budget' = budget
  BY <1>7 DEF CloseMonth
<1>8. ASSUME NEW p \in Phones, NEW q \in Requests, RestoreBegins(p, q) PROVE budget' = budget
  BY <1>8 DEF RestoreBegins
<1>9. ASSUME NEW q \in Requests, InsertTable(q) \/ RestoreCommits(q) \/ RestoreRefused(q)
      PROVE  budget' = budget
  BY <1>9 DEF InsertTable, RestoreCommits, RestoreRefused
<1>10. ASSUME Export \/ ImportChecks \/ ImportCommits \/ Tick \/ UNCHANGED vars
       PROVE  budget' = budget
  BY <1>10 DEF Export, ImportChecks, ImportCommits, Tick, vars
<1>11. ASSUME NEW m \in Modes, Lose(m) PROVE budget'.faults = budget.faults
  BY <1>11 DEF Lose
<1>12. ASSUME NEW m \in Modes, RestoreSqlite(m) PROVE budget' = budget
  BY <1>12 DEF RestoreSqlite
<1>13. ASSUME NEW p \in Phones, SignIn(p) PROVE budget' = budget
  BY <1>13 DEF SignIn
<1>14. ASSUME Fault PROVE budget.faults <= budget'.faults /\ budget'.faults <= MaxFaults
  BY <1>3, <1>14 DEF Fault

<1>16. ASSUME NEW m \in Modes, Restart(m) PROVE Fault
  BY <1>16 DEF Restart
<1>17. ASSUME NEW p \in Phones, Cut(p) \/ PhoneCrash(p) PROVE Fault
  BY <1>17 DEF Cut, PhoneCrash
<1>18. ASSUME NEW q \in Requests, Rollback(q) PROVE Fault
  BY <1>18 DEF Rollback
<1>19. ASSUME NEW p \in Phones, NEW k \in DOMAIN generations[p], Damage(p, k) PROVE Fault
  BY <1>19 DEF Damage
<1>20. budget'.faults = budget.faults \/ (budget.faults <= budget'.faults /\ budget'.faults <= MaxFaults)
  <2> USE <1>2, <1>3, <1>14
  <2>1. CASE \E m \in Modes : Restart(m) \/ RestoreSqlite(m) \/ Lose(m)
    BY <2>1, <1>11, <1>12, <1>16
  <2>2. CASE \E q \in Requests : InsertTable(q) \/ RestoreCommits(q) \/ RestoreRefused(q) \/ Rollback(q)
    BY <2>2, <1>9, <1>18
  <2>3. CASE \E p \in Phones : SignIn(p) \/ Cut(p) \/ PhoneCrash(p)
    BY <2>3, <1>13, <1>17
  <2>4. CASE \E p \in Phones : \E k \in DOMAIN generations[p] : Damage(p, k)
    BY <2>4, <1>19
  <2>5. CASE \E p \in Phones : \E e \in outbox[p] : Deliver(p, e)
    BY <2>5, <1>6
  <2>6. CASE \E p \in Phones : Refresh(p) \/ BackupStep(p)
    BY <2>6, <1>4
  <2>7. CASE \E p \in Phones, op \in Entries, m \in Months : Save(p, op, m)
    BY <2>7, <1>5
  <2>8. CASE \E op \in Closings, m \in Months : CloseMonth(op, m)
    BY <2>8, <1>7
  <2>9. CASE \E p \in Phones, q \in Requests : RestoreBegins(p, q)
    BY <2>9, <1>8
  <2>10. CASE Export \/ ImportChecks \/ ImportCommits \/ Tick \/ UNCHANGED vars
    BY <2>10, <1>10
  <2> QED BY <2>1, <2>2, <2>3, <2>4, <2>5, <2>6, <2>7, <2>8, <2>9, <2>10 DEF Next
<1> QED BY <1>1, <1>20

LEMMA DamageInit == ASSUME Init PROVE DamageCounted
<1>1. \A p \in Phones : BrokenIn(generations[p]) = {}
  BY DEF Init, BrokenIn
<1>2. budget.faults = 0
  BY DEF Init
<1> QED BY <1>1, <1>2, RecoveryAssumption, FS_EmptySet DEF DamageCounted

LEMMA DamageStep == ASSUME IndInv, DamageCounted, [Next]_vars PROVE DamageCounted'
<1> DEFINE B(p) == Cardinality(BrokenIn(generations[p]))
<1>1. \A p \in Phones : generations[p] \in Seq(CopiesOf(history))
  BY DEF IndInv, Moment
<1>2. budget.faults <= budget'.faults /\ budget'.faults <= MaxFaults
  BY FaultsCounted DEF IndInv, DamageCounted
<1>3. budget.faults \in Nat /\ budget'.faults \in Nat
  BY ShapeStep DEF IndInv, Shape
<1>4. SUFFICES \A p \in Phones :
                 Cardinality(BrokenIn(generations'[p])) <= B(p) \/ Cardinality(BrokenIn(generations'[p])) <= budget'.faults
  <2>1. Moment'
    BY MomentStep DEF IndInv
  <2>2. ASSUME NEW p \in Phones PROVE Cardinality(BrokenIn(generations'[p])) \in Nat
    <3>1. generations'[p] \in Seq(CopiesOf(history'))
      BY <2>1 DEF Moment
    <3> QED BY <3>1, BrokenFinite
  <2>3. ASSUME NEW p \in Phones PROVE B(p) \in Nat /\ B(p) <= budget.faults
    BY <1>1, BrokenFinite DEF DamageCounted
  <2> QED BY <1>2, <1>3, <2>2, <2>3 DEF DamageCounted
<1>5. TAKE p \in Phones
<1>6. B(p) \in Nat /\ B(p) <= budget.faults
  BY <1>1, BrokenFinite DEF DamageCounted
<1>7. CASE generations'[p] = generations[p]
  BY <1>6, <1>7
<1>8. ASSUME NEW q \in Phones, Publish(q) \/ Finish(q)
      PROVE  Cardinality(BrokenIn(generations'[p])) <= B(p)
  <2>1. generations \in [Phones -> Seq(CopiesOf(history))]
    BY DEF IndInv, Moment
  <2>2. CASE q # p
    <3>1. generations'[p] = generations[p]
      BY <1>8, <2>1, <2>2 DEF Publish, Finish
    <3> QED BY <3>1, <1>6
  <2>3. CASE q = p /\ Finish(q)
    <3>1. generations'[p] = Newest(generations[p])
      BY <2>1, <2>3 DEF Finish
    <3> QED BY <1>1, <3>1, BrokenNewest
  <2>4. CASE q = p /\ Publish(q)
    <3>1. PICK r \in reading[p] :
            r.next = Done
            /\ generations' = [generations EXCEPT ![p] = Append(@, [tables |-> r.tables, intact |-> TRUE])]
      BY <2>4 DEF Publish
    <3> DEFINE c == [tables |-> r.tables, intact |-> TRUE]
    <3>2. generations'[p] = Append(generations[p], c)
      BY <2>1, <3>1
    <3>3. c.intact /\ c \in CopiesOf(history) \cup {c}
      OBVIOUS
    <3>4. generations[p] \in Seq(CopiesOf(history) \cup {c})
      BY <1>1
    <3> HIDE DEF c
    <3> QED BY <1>6, <3>2, <3>3, <3>4, BrokenAppend
  <2> QED BY <1>8, <2>2, <2>3, <2>4
<1>9. ASSUME NEW q \in Phones, NEW k \in DOMAIN generations[q], Damage(q, k)
      PROVE  Cardinality(BrokenIn(generations'[p])) <= budget'.faults
  <2>1. generations \in [Phones -> Seq(CopiesOf(history))]
    BY DEF IndInv, Moment
  <2>2. budget'.faults = budget.faults + 1
    BY <1>9 DEF Damage, Fault, IndInv, Shape
  <2>3. CASE q # p
    <3>1. generations'[p] = generations[p]
      BY <1>9, <2>1, <2>3 DEF Damage
    <3> QED BY <3>1, <1>2, <1>3, <1>6
  <2>4. CASE q = p
    <3>1. generations'[p] = [generations[p] EXCEPT ![k].intact = FALSE]
      BY <1>9, <2>1, <2>4 DEF Damage
    <3>2. \A i \in DOMAIN generations[p] : i # k => generations'[p][i] = generations[p][i]
      BY <3>1
    <3>3. DOMAIN generations'[p] = DOMAIN generations[p]
      BY <3>1
    <3>4. BrokenIn(generations'[p]) \subseteq BrokenIn(generations[p]) \cup {k}
      BY <3>2, <3>3 DEF BrokenIn
    <3>5. IsFiniteSet(BrokenIn(generations[p]))
      BY <1>1, BrokenFinite
    <3>6. /\ IsFiniteSet(BrokenIn(generations[p]) \cup {k})
          /\ Cardinality(BrokenIn(generations[p]) \cup {k}) \in {B(p), B(p) + 1}
      BY <3>5, FS_AddElement
    <3>7. /\ Cardinality(BrokenIn(generations'[p])) <= Cardinality(BrokenIn(generations[p]) \cup {k})
          /\ Cardinality(BrokenIn(generations'[p])) \in Nat
      BY <3>4, <3>6, FS_Subset, FS_CardinalityType
    <3> HIDE DEF B
    <3> QED BY <1>3, <1>6, <2>2, <3>6, <3>7
  <2> QED BY <2>3, <2>4
<1> QED BY <1>7, <1>8, <1>9, CopiesChange

----------------------------------------------------------------------------
(* Theorems. *)

\* The state keeps its shape.
THEOREM TypeCorrect == Spec => []TypeOK
<1>1. ASSUME IndInv PROVE TypeOK
  <2>1. db \in Contents /\ history \subseteq Contents /\ archive \subseteq Contents
    BY <1>1, EmptyContent DEF IndInv, Moment, Moments
  <2>2. \A p \in Phones : \A r \in reading[p] :
          r.view \in Contents /\ r.tables \in Contents /\ r.next \in 1..Done
    BY <1>1, <2>1 DEF IndInv, Moment, ReadsOf
  <2>3. \A q \in Requests : \A r \in restoring[q] : r.tables \in Contents /\ r.next \in 1..Done
    BY <1>1, <2>1 DEF IndInv, Moment, RestoresOf
  <2>4. \A p \in Phones : \A k \in DOMAIN generations[p] :
          generations[p][k].tables \in Contents /\ generations[p][k].intact \in BOOLEAN
    <3> TAKE p \in Phones
    <3> TAKE k \in DOMAIN generations[p]
    <3>1. generations[p] \in Seq(CopiesOf(history))
      BY <1>1 DEF IndInv, Moment
    <3>2. generations[p][k] \in CopiesOf(history)
      BY <3>1
    <3> QED BY <2>1, <3>2 DEF CopiesOf
  <2> QED BY <1>1, <2>1, <2>2, <2>3, <2>4 DEF IndInv, Shape, TypeOK, Phases
<1> QED BY <1>1, Invariance, PTL

\* What a phone keeps was committed.
LEMMA CopiesCommitted == ASSUME Moment PROVE Copies \subseteq history
<1> SUFFICES ASSUME NEW p \in Phones, NEW k \in DOMAIN generations[p]
             PROVE  generations[p][k].tables \in history
  BY DEF Copies
<1>1. generations[p] \in Seq(CopiesOf(history))
  BY DEF Moment
<1>2. generations[p][k] \in CopiesOf(history)
  BY <1>1
<1> QED BY <1>2 DEF CopiesOf

\* Every copy of a phone is a committed moment: what its export read is what its read
\* transaction saw, which is not an empty database.
THEOREM CopiesAreCommitted == Spec => []CopiesAreMoments
<1>1. IndInv => CopiesAreMoments
  BY CopiesCommitted DEF IndInv, CopiesAreMoments
<1> QED BY <1>1, Invariance, PTL

\* The server holds a committed moment or nothing: what restores bring back was
\* committed, and they bring it back whole.
THEOREM ServerHoldsAMoment == Spec => []ServerIsAMoment
<1>1. IndInv => ServerIsAMoment
  BY DEF IndInv, Moment, ServerIsAMoment
<1> QED BY <1>1, Invariance, PTL

\* Movements go in before any closure of their month, and what they refer to came with
\* them.
LEMMA MomentRestorable == ASSUME NEW tables \in Moments \cup {Empty} PROVE Restorable(tables)
<1>1. \A n \in Steps : Insertable(tables, n)
  <2> SUFFICES ASSUME NEW n \in Steps, FINANCE_BACKUP_TABLES[n] = "budget_ledger_movements"
               PROVE  Closed(Before(tables, n)) = {}
    BY DEF Insertable, Accepts
  <2>1. n = 3
    BY TableOrder
  <2>2. \A i \in 1..(n - 1) : FINANCE_BACKUP_TABLES[i] # "budget_month_closures"
    BY <2>1, TableOrder
  <2>3. Before(tables, n)["budget_month_closures"] = <<>>
    BY <2>2 DEF Before, Tables
  <2> QED BY <2>3 DEF Closed, Elements
<1>2. References(tables)
  <2>1. CASE tables \in Moments BY <2>1 DEF Moments
  <2>2. CASE tables = Empty
    BY <2>2 DEF References, Elements, Empty, Tables
  <2> QED BY <2>1, <2>2
<1> QED BY <1>1, <1>2 DEF Restorable

\* Every copy can be restored.
THEOREM CopiesCanBeRestored == Spec => []CopiesRestore
<1>1. ASSUME IndInv PROVE CopiesRestore
  <2>1. Copies \cup archive \subseteq Moments \cup {Empty}
    BY <1>1, CopiesCommitted DEF IndInv, Moment
  <2> QED BY <2>1, MomentRestorable DEF CopiesRestore
<1> QED BY <1>1, Invariance, PTL

\* Short of losing the database nothing in it is replaced: the writes append, and what
\* a restore or an import commits it commits into an empty database.
THEOREM RestoresOverwriteNothing == Spec => NothingOverwritten
<1> DEFINE Kept == budget.losses = budget'.losses => \A t \in Tables : IsExtended(db[t], db'[t])
<1>1. ASSUME IndInv, [Next]_vars PROVE [Kept]_vars
  <2> USE DEF server, clock, admin
  <2>1. db \in Contents
    BY <1>1, EmptyContent DEF IndInv, Moment, Moments
  <2>2. ASSUME db' = db PROVE Kept
    BY <2>1, <2>2, Extends DEF Contents
  <2>3. ASSUME db = Empty, db' \in Contents PROVE Kept
    BY <2>3, Extends DEF Contents, Empty
  <2>4. db' \in Contents
    <3>1. Moment'
      BY <1>1, MomentStep DEF IndInv
    <3> QED BY <3>1, EmptyContent DEF Moment, Moments
  <2>5. ASSUME NEW p \in Phones, Refresh(p) \/ BackupStep(p) PROVE db' = db
    BY <2>5 DEF Refresh, BackupStep, SyncEnds, Reserve, BackupBegins, ReadTable, Publish, Finish, BackupFails
  <2>6. ASSUME NEW p \in Phones, NEW op \in Entries, NEW m \in Months, Save(p, op, m) PROVE db' = db
    BY <2>6 DEF Save
  <2>7. ASSUME NEW p \in Phones, NEW e \in outbox[p], Deliver(p, e) PROVE Kept
    <3>1. ~ImportCommits
      BY <2>7 DEF Deliver, ImportCommits
    <3> QED BY <1>1, <2>7, <3>1, MomentWrite DEF IndInv
  <2>8. ASSUME NEW op \in Closings, NEW m \in Months, CloseMonth(op, m) PROVE Kept
    <3>1. ~ImportCommits
      BY <2>8 DEF CloseMonth, ImportCommits
    <3> QED BY <1>1, <2>8, <3>1, MomentWrite DEF IndInv
  <2>9. CASE ImportCommits
    <3>1. db' = db \/ db = Empty
      BY <1>1, <2>9 DEF ImportCommits, IndInv, Moment, Moments
    <3> QED BY <2>2, <2>3, <2>4, <3>1
  <2>10. ASSUME NEW q \in Requests, RestoreCommits(q) PROVE Kept
    <3>1. Locks(q)
      BY <1>1, <2>10, LastLocks DEF RestoreCommits, IndInv
    <3>2. db = Empty
      BY <1>1, <3>1 DEF IndInv, Alone
    <3> QED BY <2>3, <2>4, <3>2
  <2>11. ASSUME NEW q \in Requests, NEW p \in Phones,
                RestoreBegins(p, q) \/ InsertTable(q) \/ RestoreRefused(q) \/ Rollback(q)
         PROVE  db' = db
    BY <2>11 DEF RestoreBegins, InsertTable, RestoreRefused, Rollback
  <2>12. ASSUME NEW q \in Requests, InsertTable(q) \/ RestoreRefused(q) \/ Rollback(q)
         PROVE  db' = db
    BY <2>12 DEF InsertTable, RestoreRefused, Rollback
  <2>13. CASE Export \/ ImportChecks \/ Tick \/ UNCHANGED vars
    BY <2>2, <2>13 DEF Export, ImportChecks, Tick, vars
  <2>14. ASSUME NEW m \in Modes, Restart(m) PROVE db' = db
    BY <2>14 DEF Restart
  <2>15. ASSUME NEW m \in Modes, RestoreSqlite(m) PROVE db = Empty
    BY <2>15 DEF RestoreSqlite
  <2>16. ASSUME NEW m \in Modes, Lose(m) PROVE Kept
    BY <1>1, <2>16 DEF Lose, IndInv, Shape
  <2>17. ASSUME NEW p \in Phones, SignIn(p) \/ Cut(p) \/ PhoneCrash(p) PROVE db' = db
    BY <2>17 DEF SignIn, Cut, PhoneCrash
  <2>18. ASSUME NEW p \in Phones, NEW k \in DOMAIN generations[p], Damage(p, k) PROVE db' = db
    BY <2>18 DEF Damage
  <2> HIDE DEF Kept
  <2> QED BY <1>1, <2>2, <2>3, <2>4, <2>5, <2>6, <2>7, <2>8, <2>9, <2>10, <2>11, <2>12, <2>13,
             <2>14, <2>15, <2>16, <2>17, <2>18 DEF Next
<1> HIDE DEF Kept
<1>2. Spec => [][Kept]_vars
  BY <1>1, Invariance, PTL DEF Spec
<1> QED BY <1>2 DEF NothingOverwritten, Kept
\* Pruning keeps the copy a restore would use, when one of the kept copies is intact.
LEMMA PruningKeepsLatest ==
  ASSUME NEW p \in Phones, IndInv, Finish(p), Cardinality(BrokenIn(generations[p])) < Keep
  PROVE  Latest(p)' = Latest(p)
<1> DEFINE s == generations[p]
           n == Newest(s)
           d == Len(s) - Keep
           U(t) == {k \in DOMAIN t : t[k].intact}
           L(t) == {k \in U(t) : \A i \in U(t) : i <= k}
<1>1. generations \in [Phones -> Seq(CopiesOf(history))] /\ s \in Seq(CopiesOf(history))
  BY DEF IndInv, Moment
<1>2. generations'[p] = n
  BY <1>1 DEF Finish
<1>3. Latest(p) = {s[k].tables : k \in L(s)}
  BY DEF Latest, LatestOf, Usable
<1>4. Latest(p)' = {n[k].tables : k \in L(n)}
  BY <1>2 DEF Latest, LatestOf, Usable
<1>5. Len(s) \in Nat /\ Keep \in Nat \ {0} /\ DOMAIN s = 1..Len(s)
  BY <1>1, RecoveryAssumption
<1>6. CASE Len(s) <= Keep
  <2>1. n = s
    BY <1>6 DEF Newest
  <2> QED BY <1>3, <1>4, <2>1
<1>7. CASE Len(s) > Keep
  <2>1. DOMAIN n = 1..Keep /\ \A k \in 1..Keep : n[k] = s[k + d]
    BY <1>1, <1>7, NewestAre
  <2>2. PICK j \in DOMAIN s : s[j].intact /\ j > d
    BY <1>1, <1>7, OneIntact
  <2> HIDE DEF s, n
  <2>3. d \in Nat
    BY <1>5, <1>7
  <2>4. \A k \in U(n) : k \in 1..Keep /\ k + d \in U(s)
    <3> TAKE k \in U(n)
    <3>1. k \in 1..Keep /\ n[k].intact /\ n[k] = s[k + d]
      BY <2>1
    <3>2. k + d \in 1..Len(s)
      BY <1>5, <2>3, <3>1
    <3> QED BY <1>5, <3>1, <3>2
  <2>5. \A k \in U(s) : k > d => k - d \in U(n) /\ n[k - d] = s[k]
    BY <1>5, <2>1, <2>3
  <2>6. \A k \in L(s) : k \in DOMAIN s /\ k > d
    BY <1>5, <2>2, <2>3
  <2>7. \A k \in L(s) : k - d \in L(n) /\ n[k - d] = s[k]
    <3> TAKE k \in L(s)
    <3>1. k \in U(s) /\ k > d /\ k \in Nat
      BY <1>5, <2>6
    <3>2. ASSUME NEW i \in U(n) PROVE i <= k - d
      <4>1. i + d \in U(s) /\ i \in Nat
        BY <2>4
      <4>2. i + d <= k
        BY <4>1
      <4> QED BY <2>3, <3>1, <4>1, <4>2
    <3> QED BY <2>5, <3>1, <3>2
  <2>8. \A k \in L(n) : k + d \in L(s) /\ n[k] = s[k + d]
    <3> TAKE k \in L(n)
    <3>1. k \in U(n) /\ k \in 1..Keep /\ k + d \in U(s)
      BY <2>4
    <3>2. ASSUME NEW i \in U(s) PROVE i <= k + d
      <4>1. CASE i > d
        <5>1. i - d \in U(n)
          BY <2>5, <4>1
        <5>2. i - d <= k
          BY <5>1
        <5> QED BY <1>5, <2>3, <3>1, <5>2
      <4>2. CASE ~(i > d)
        BY <1>5, <2>3, <3>1, <4>2
      <4> QED BY <4>1, <4>2
    <3> QED BY <2>1, <3>1, <3>2
  <2> HIDE DEF L, d
  <2> QED BY <1>3, <1>4, <2>7, <2>8
<1> QED BY <1>5, <1>6, <1>7

\* While fewer copies are damaged than a phone keeps, the copy a restore would use
\* changes only by damage to it or by a newer one: among the newest Keep copies one is
\* intact, so pruning does not reach the newest intact one (saveFile, latestInfo).
THEOREM LatestCopyStays ==
  ASSUME MaxFaults < Keep
  PROVE  Spec => LatestStays
<1> DEFINE Stays == \A p \in Phones :
             Latest(p) # {} /\ Latest(p)' # Latest(p) =>
               \/ Len(generations'[p]) > Len(generations[p])
               \/ Damaged(p)
<1>1. Spec => []DamageCounted
  <2>1. Init => DamageCounted
    BY DamageInit
  <2>2. IndInv /\ DamageCounted /\ [Next]_vars => DamageCounted'
    BY DamageStep
  <2> QED BY <2>1, <2>2, Invariance, PTL DEF Spec
<1>2. ASSUME IndInv, DamageCounted, [Next]_vars PROVE [Stays]_vars
  <2> SUFFICES ASSUME NEW p \in Phones, Latest(p)' # Latest(p)
               PROVE  Len(generations'[p]) > Len(generations[p]) \/ Damaged(p)
    OBVIOUS
  <2>1. generations \in [Phones -> Seq(CopiesOf(history))] /\ generations[p] \in Seq(CopiesOf(history))
    BY <1>2 DEF IndInv, Moment
  <2>2. generations'[p] # generations[p]
    BY DEF Latest, LatestOf, Usable
  <2>3. ASSUME NEW q \in Phones, Publish(q) PROVE Len(generations'[p]) > Len(generations[p])
    <3>1. q = p
      BY <2>1, <2>2, <2>3 DEF Publish
    <3>2. PICK c : generations'[p] = Append(generations[p], c)
      BY <2>1, <2>3, <3>1 DEF Publish
    <3>3. generations[p] \in Seq(CopiesOf(history) \cup {c}) /\ c \in CopiesOf(history) \cup {c}
      BY <2>1
    <3>4. Len(Append(generations[p], c)) = Len(generations[p]) + 1 /\ Len(generations[p]) \in Nat
      BY <3>3
    <3> QED BY <3>2, <3>4
  <2>4. ASSUME NEW q \in Phones, Finish(q) PROVE FALSE
    <3>1. q = p
      BY <2>1, <2>2, <2>4 DEF Finish
    <3>2. Cardinality(BrokenIn(generations[p])) < Keep
      <4>1. Cardinality(BrokenIn(generations[p])) <= budget.faults /\ budget.faults <= MaxFaults
        BY <1>2 DEF DamageCounted
      <4>2. Cardinality(BrokenIn(generations[p])) \in Nat /\ budget.faults \in Nat
        BY <1>2, <2>1, BrokenFinite DEF IndInv, Shape
      <4> QED BY <4>1, <4>2, RecoveryAssumption
    <3> QED BY <1>2, <2>4, <3>1, <3>2, PruningKeepsLatest
  <2>5. ASSUME NEW q \in Phones, NEW k \in DOMAIN generations[q], Damage(q, k) PROVE Damaged(p)
    <3>1. q = p
      BY <2>1, <2>2, <2>5 DEF Damage
    <3>2. generations'[p] = [generations[p] EXCEPT ![k].intact = FALSE] /\ generations[p][k].intact
      BY <2>1, <2>5, <3>1 DEF Damage
    <3>3. generations[p][k] \in CopiesOf(history)
      BY <2>1, <2>5, <3>1
    <3>4. DOMAIN generations'[p] = DOMAIN generations[p] /\ ~generations'[p][k].intact
      BY <2>5, <3>1, <3>2, <3>3 DEF CopiesOf
    <3> QED BY <2>5, <3>1, <3>2, <3>4 DEF Damaged
  <2> QED BY <1>2, <2>2, <2>3, <2>4, <2>5, CopiesChange
<1> HIDE DEF Stays
<1>3. Spec => [][Stays]_vars
  BY <1>1, <1>2, Invariance, PTL DEF Spec
<1> QED BY <1>3 DEF LatestStays, Stays
=================================================================================
