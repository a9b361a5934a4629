------------------------------ MODULE MobileSync ------------------------------
(***************************************************************************)
(* The entries of the Android client: drafts, the outbox, the confirmed    *)
(* cache and the exchange with the server (native-android/.../Repository.kt*)
(* with Storage.kt and core/Entry.kt), for one owner.                      *)
(*                                                                         *)
(* The client process may die at any moment; Room tables and preferences   *)
(* survive, memory does not.  A request or its answer may be lost, and a   *)
(* request given up by the client may still reach the server later.  The   *)
(* server is the part of server.rs the client relies on: operation ids,    *)
(* entry revisions and the deletion of audit rows with their entry; it may *)
(* also refuse a request for reasons not modelled here (a closed month, a  *)
(* stale account revision, an unknown category).                           *)
(*                                                                         *)
(* Abstracted: what an entry says is the operation that wrote it (or the   *)
(* number of the browser's write); the demo owner has no server and is     *)
(* left out; budget overlays and the duplicate warning do not change what  *)
(* is stored.                                                              *)
(***************************************************************************)
EXTENDS Integers, FiniteSets, FiniteSetsExt

CONSTANTS
  OpIds,      \* operation ids the phone generates
  TxnIds,     \* transaction ids the phone and the browser generate
  Window,     \* entries in a downloaded snapshot, at most (200 in the code)
  MaxDrafts,  \* bound: entries the user composes
  MaxWeb,     \* bound: writes the partner makes in the browser
  MaxLate     \* bound: late requests under way

ASSUME MobileAssumption ==
  /\ IsFiniteSet(TxnIds) /\ OpIds \cap Int = {}
  /\ Window \in Nat \ {0} /\ MaxDrafts \in Nat
  /\ MaxWeb \in Nat /\ MaxLate \in Nat

VARIABLES
  server,     \* finance_transactions: each id's revision, last writer and audit rows
  receipts,   \* finance_operations: what each operation of the phone was answered
  late,       \* requests the client gave up that may still arrive
  outbox,     \* Room: the outbox rows
  cache,      \* Room: the confirmed snapshot
  stored,     \* Room: the persisted draft
  deletion,   \* preferences: the deletion request being retried, per entry
  session,    \* "active"; "expired", the owner stays; "none", signed out
  draft,      \* memory: the draft on screen
  autosave,   \* memory: the draft the delayed autosave will write
  holder,     \* who holds syncMutex: "none", "sync" or "delete"
  own,        \* the session is still the one the sync started with
  todo,       \* operations the sync loaded and has not sent
  call,       \* the write request under way and its answer
  fresh,      \* the snapshot downloaded and not yet merged
  composed,   \* entries composed and entries changed in the browser so far
  web,
  issued,     \* every write and deletion the user ever confirmed
  spent,      \* every transaction id ever used
  alone,      \* the process is not disturbed any more
  withdrawn   \* writes the user replaced after the server refused them, deletions it refused

serverVars == <<server, receipts, late, web>>
phoneVars == <<outbox, cache, stored, deletion, session>>
editorVars == <<draft, autosave, composed>>
syncVars == <<holder, own, todo, call, fresh>>
history == <<issued, spent, withdrawn>>
vars == <<serverVars, phoneVars, editorVars, syncVars, history, alone>>

----------------------------------------------------------------------------
(* Entries, snapshots and drafts. *)

\* No entry under this id.  `row` orders entries by creation (source_row), and
\* `draft` tells which composed entry created it (0: the browser).
Gone == [revision |-> 0, by |-> 0, audit |-> {}, row |-> 0, draft |-> 0]

Present == {t \in TxnIds : server[t].revision > 0}
View(t) == [revision |-> server[t].revision, by |-> server[t].by]

\* The entries created last, and how many there are.
NextRow == 1 + Max({0} \cup {server[t].row : t \in Present})
InWindow == {t \in Present : Cardinality({u \in Present : server[u].row > server[t].row}) < Window}
Snapshot == [rows |-> [t \in InWindow |-> View(t)], count |-> Cardinality(Present)]

Over(f, g) == [t \in DOMAIN f \cup DOMAIN g |-> IF t \in DOMAIN f THEN f[t] ELSE g[t]]
Without(f, t) == [u \in DOMAIN f \ {t} |-> f[u]]

\* A draft: `n` tells composed entries apart, 0 is the default draft.
Blank == [n |-> 0, original |-> {}, replaces |-> {}, txn |-> {}]

\* The version of an entry whose revision an edit will state, and whose versions are
\* on screen with it, told by who wrote them.
Held(t, v, screen) == [txn |-> t, revision |-> v.revision, by |-> v.by, shown |-> screen]
Seen(t, v) == Held(t, v, {v.by})

Used == {w.op : w \in issued}
RowFor(t) == {x \in outbox : x.write.txn = t}
Pending == {x \in outbox : x.status = "pending"}
Blocked == {x \in outbox : x.status = "blocked"}
Acknowledged == {x \in outbox : x.status = "acknowledged"}

\* What the lists show: the cache, covered by the writes not yet merged into it.
\* An acknowledged write newer than the cached row is shown with the revision it
\* was based on (1 for a created entry), as the optimistic entry carries it.
Optimistic(x) ==
  [revision |-> IF x.write.type = "edit" THEN x.write.base ELSE 1, by |-> x.write.op]
Covers(x) ==
  x.status # "acknowledged" \/ x.write.txn \notin DOMAIN cache.rows
    \/ cache.rows[x.write.txn].revision < x.confirmed
Shown ==
  LET covering == {x \in outbox : Covers(x)}
  IN Over([t \in {x.write.txn : x \in covering} |->
             Optimistic(CHOOSE x \in covering : x.write.txn = t)], cache.rows)
ShownPending(t) == \E x \in RowFor(t) : x.status # "acknowledged"

\* Deletion holds the mutation lock (and entryWrite) during its request.
MutationFree == holder # "delete"

----------------------------------------------------------------------------
(* The server. *)

Known(w) == \E r \in receipts : r.op = w.op
Answered(w) == (CHOOSE r \in receipts : r.op = w.op).revision

\* An exact retry is recognised by its audit row, which goes when the entry is
\* deleted; a deletion by its receipt.
Recognised(w) == w.type = "delete" \/ w.op \in server[w.txn].audit

Acceptable(w) ==
  IF w.type = "create" THEN w.txn \notin Present ELSE server[w.txn].revision = w.base

Written(w) ==
  LET old == server[w.txn]
  IN CASE w.type = "create" -> [revision |-> 1, by |-> w.op, audit |-> {w.op},
                                  row |-> NextRow, draft |-> w.draft]
       [] w.type = "edit" -> [old EXCEPT !.revision = @ + 1, !.by = w.op, !.audit = @ \cup {w.op}]
       [] w.type = "delete" -> Gone

Apply(w) ==
  /\ ~Known(w) /\ Acceptable(w)
  /\ server' = [server EXCEPT ![w.txn] = Written(w)]
  /\ receipts' = receipts \cup {[op |-> w.op, revision |-> Written(w).revision]}

\* The revision a successful answer carries: for a retry the stored one.
AnswerTo(w) == IF Known(w) THEN Answered(w) ELSE Written(w).revision

\* The answers the server may give to a request, and what it does.
Serve(w, status) ==
  \/ status = "ok" /\ Apply(w)
  \/ status = "ok" /\ Known(w) /\ Recognised(w) /\ UNCHANGED <<server, receipts>>
  \/ status = "refused" /\ ~(Known(w) /\ Recognised(w)) /\ UNCHANGED <<server, receipts>>
  \/ status \in {"unavailable", "unauthorized"} /\ UNCHANGED <<server, receipts>>

\* The partner writes in the browser.
Partner ==
  /\ web < MaxWeb /\ web' = web + 1
  /\ \E t \in TxnIds :
       \/ /\ t \notin spent /\ spent' = spent \cup {t}
          /\ server' = [server EXCEPT ![t] = [Gone EXCEPT !.revision = 1, !.by = web', !.row = NextRow]]
       \/ /\ t \in Present /\ UNCHANGED spent
          /\ \/ server' = [server EXCEPT ![t].revision = @ + 1, ![t].by = web']
             \/ server' = [server EXCEPT ![t] = Gone]
  /\ UNCHANGED <<receipts, late, phoneVars, editorVars, syncVars, issued, withdrawn>>

\* A request the client gave up arrives; nobody reads the answer.
Straggler ==
  /\ \E w \in late : late' = late \ {w} /\ \E status \in {"ok", "refused"} : Serve(w, status)
  /\ UNCHANGED <<web, phoneVars, editorVars, syncVars, history>>

----------------------------------------------------------------------------
(* Drafts. *)

\* An edit of the draft on screen replaces the delayed autosave of the previous one.
OnScreen(d) == draft' = d /\ autosave' = {d}

\* The user starts a new entry, or changes an entry shown in a list or opened from
\* a notification.
Compose ==
  /\ session # "none" /\ draft = Blank
  /\ composed < MaxDrafts /\ composed' = composed + 1
  /\ \/ OnScreen([Blank EXCEPT !.n = composed'])
     \/ \E t \in DOMAIN Shown :
          /\ ~ShownPending(t)
          /\ OnScreen([Blank EXCEPT !.n = composed', !.original = {Seen(t, Shown[t])}])
     \/ \E t \in Present \ DOMAIN Shown :
          /\ session = "active"
          /\ OnScreen([Blank EXCEPT !.n = composed', !.original = {Seen(t, View(t))}])
  /\ UNCHANGED <<serverVars, phoneVars, syncVars, history>>

Discard ==
  /\ draft # Blank /\ OnScreen(Blank)
  /\ UNCHANGED <<composed, serverVars, phoneVars, syncVars, history>>

\* The delayed write, dropped if a save or a review has replaced the draft since.
Autosave ==
  /\ autosave # {} /\ MutationFree
  /\ stored' = IF draft \in autosave THEN draft ELSE stored
  /\ autosave' = {}
  /\ UNCHANGED <<draft, composed, outbox, cache, deletion, session, serverVars, syncVars, history>>

\* The screen is left.
PersistDraft ==
  /\ MutationFree /\ session # "none"
  /\ stored' = draft /\ autosave' = {}
  /\ UNCHANGED <<draft, composed, outbox, cache, deletion, session, serverVars, syncVars, history>>

----------------------------------------------------------------------------
(* Saving, reviewing and retrying entries. *)

\* Another row of the entry than the one being replaced waits in the outbox.
QueuedNever(t) == FALSE   \* mutant
Queued(t) == \E x \in outbox : x.write.txn = t /\ x.write.op \notin draft.replaces

\* The entry a draft is about: an existing one, the one of the write being
\* replaced, or a new one.
TargetNew == IF draft.original # {} THEN {x.txn : x \in draft.original} ELSE TxnIds \ spent  \* mutant
Target ==
  IF draft.original # {} THEN {x.txn : x \in draft.original}
  ELSE IF draft.txn # {} THEN draft.txn ELSE TxnIds \ spent

\* The revision an edit states is the one on screen when the draft was opened.
BaseCached ==
  {IF x.txn \in DOMAIN cache.rows THEN cache.rows[x.txn].revision ELSE x.revision :
     x \in draft.original}   \* mutant
Base == {x.revision : x \in draft.original}

\* One Room transaction: the write enters the outbox, the row it replaces
\* leaves it and the next draft is stored.
NextDraft == Blank

Save(o, t) ==
  /\ session # "none" /\ draft # Blank /\ MutationFree
  /\ o \notin Used /\ t \in Target /\ ~Queued(t)
  /\ draft.replaces \subseteq {x.write.op : x \in Blocked}
  /\ LET edit == draft.original # {}
         w == [op |-> o, txn |-> t, type |-> IF edit THEN "edit" ELSE "create",
               base |-> IF edit THEN CHOOSE r \in Base : TRUE ELSE 0,
               held |-> {x.by : x \in draft.original},
               seen |-> UNION {x.shown : x \in draft.original},
               review |-> draft.replaces # {}, draft |-> draft.n]
     IN /\ outbox' = {x \in outbox : x.write.op \notin draft.replaces} \cup
                      {[write |-> w, at |-> Cardinality(issued), status |-> "pending", confirmed |-> 0]}
        /\ issued' = issued \cup {w}
  /\ withdrawn' = withdrawn \cup draft.replaces
  /\ spent' = spent \cup {t}
  /\ stored' = NextDraft /\ draft' = Blank /\ autosave' = {}
  /\ UNCHANGED <<composed, cache, deletion, session, serverVars, syncVars>>

\* A refused write becomes a draft again.  An edit then states the revision of the
\* confirmed entry, but the form is filled from the refused write: the confirmed
\* version itself is not shown.  A created entry keeps its transaction id.
Review ==
  /\ session # "none" /\ MutationFree
  /\ \E x \in Blocked :
       LET t == x.write.txn
           edit == x.write.type = "edit"
           d == [n |-> x.write.draft,
                 original |-> IF edit
                   THEN {Held(t, cache.rows[t], x.write.seen \cup {x.write.op})} ELSE {},
                 replaces |-> {x.write.op}, txn |-> {t}]
       IN /\ edit => t \in DOMAIN cache.rows
          /\ draft' = d /\ stored' = d
  /\ UNCHANGED <<autosave, composed, outbox, cache, deletion, session, serverVars, syncVars, history>>

RetryBlocked ==
  /\ session # "none" /\ MutationFree
  /\ \E x \in Blocked : outbox' = (outbox \ {x}) \cup {[x EXCEPT !.status = "pending"]}
  /\ UNCHANGED <<cache, stored, deletion, session, serverVars, editorVars, syncVars, history>>

----------------------------------------------------------------------------
(* Synchronisation.  Mutations of Room are atomic; the network calls between *)
(* them are not. *)

\* The request under way may arrive after the client has given it up.
GivenUp(c) == {late} \cup {l \in {late \cup {c.write}} : c.status = "sent" /\ Cardinality(l) <= MaxLate}

Request(w) == [write |-> w, status |-> "sent", revision |-> 0]
Idle == holder' = "none" /\ own' = FALSE /\ todo' = {} /\ call' = {} /\ fresh' = {}

\* The server no longer accepts the session.  Only the session in use is dropped.
Expire == session' = IF own /\ session = "active" THEN "expired" ELSE session

\* The writes a sync sends: the pending ones, whatever else is blocked.
LoadedUnblocked == {x.write.op : x \in {y \in Pending : \A z \in Blocked : y.at < z.at}}   \* mutant
Loaded == {x.write.op : x \in Pending}

SyncStart ==
  /\ holder = "none" /\ session = "active"
  /\ holder' = "sync" /\ own' = TRUE /\ todo' = Loaded
  /\ UNCHANGED <<call, fresh, serverVars, phoneVars, editorVars, history>>

\* The server refuses the session when the sync validates it.
SyncRefused ==
  /\ holder = "none" /\ session = "active" /\ session' = "expired"
  /\ UNCHANGED <<outbox, cache, stored, deletion, serverVars, editorVars, syncVars, history>>

\* The oldest loaded write goes first.
SyncSend ==
  /\ holder = "sync" /\ own /\ call = {} /\ fresh = {}
  /\ \E x \in outbox :
       /\ x.write.op \in todo
       /\ \A y \in outbox : y.write.op \in todo => x.at <= y.at
       /\ call' = {Request(x.write)}
  /\ UNCHANGED <<holder, own, todo, fresh, serverVars, phoneVars, editorVars, history>>

\* The request reaches the server, which answers.
AnswerWith(statuses) ==
  /\ \E c \in call, status \in statuses :
       /\ c.status = "sent" /\ Serve(c.write, status)
       /\ call' = {[c EXCEPT !.status = status,
                            !.revision = IF status = "ok" THEN AnswerTo(c.write) ELSE 0]}
  /\ UNCHANGED <<late, web, holder, own, todo, fresh, phoneVars, editorVars, history>>
Answer == AnswerWith({"ok", "refused", "unavailable", "unauthorized"})

\* The connection breaks or times out: the request may be lost or late, or only
\* its answer is lost.
Disconnect ==
  /\ \E c \in call :
       /\ c.status # "lost" /\ call' = {[c EXCEPT !.status = "lost", !.revision = 0]}
       /\ late' \in GivenUp(c)
  /\ UNCHANGED <<server, receipts, web, holder, own, todo, fresh, phoneVars, editorVars, history>>

\* What becomes of an outbox row.
OutcomeLenient(status) ==
  IF status \in {"ok", "refused"} THEN "acknowledged" ELSE "pending"  \* mutant
Outcome(status) ==
  IF status = "ok" THEN "acknowledged" ELSE IF status = "refused" THEN "blocked" ELSE "pending"

\* After a success or a refusal the loop goes on, otherwise it is left.
SyncReply ==
  /\ holder = "sync"
  /\ \E c \in call :
       /\ c.status # "sent"
       /\ outbox' = {IF x.write = c.write /\ c.status # "unauthorized"
                     THEN [x EXCEPT !.status = Outcome(c.status), !.confirmed = c.revision]
                     ELSE x : x \in outbox}
       /\ IF c.status \in {"ok", "refused"}
          THEN todo' = todo \ {c.write.op} ELSE todo' = {}
       /\ IF c.status = "unauthorized"
          THEN Expire /\ own' = FALSE ELSE UNCHANGED <<session, own>>
  /\ call' = {}
  /\ UNCHANGED <<holder, fresh, cache, stored, deletion, serverVars, editorVars, history>>

\* The snapshot is read in one database transaction.
Download ==
  /\ holder = "sync" /\ own /\ call = {} /\ todo = {} /\ fresh = {}
  /\ fresh' = {Snapshot}
  /\ UNCHANGED <<holder, own, todo, call, serverVars, phoneVars, editorVars, history>>

\* Rows older than the downloaded window are kept, those of acknowledged writes too.
Confirmed ==
  [t \in {x.write.txn : x \in Acknowledged} |->
     LET x == CHOOSE y \in Acknowledged : y.write.txn = t
     IN [revision |-> x.confirmed, by |-> x.write.op]]
MergedFresh(s) == s.rows   \* mutant
Merged(s) ==
  IF s.count > Cardinality(DOMAIN s.rows)
  THEN Over(s.rows, Over(Confirmed, cache.rows)) ELSE s.rows

Merge ==
  /\ holder = "sync"
  /\ \E s \in fresh : cache' = [rows |-> Merged(s), count |-> s.count]
  /\ outbox' = outbox \ Acknowledged
  /\ Idle
  /\ UNCHANGED <<stored, deletion, session, serverVars, editorVars, history>>

\* The session changed under the sync, or the snapshot could not be downloaded:
\* the connection failed or the server refused the session.
SyncEnd ==
  /\ holder = "sync" /\ call = {} /\ fresh = {}
  /\ \/ ~own /\ UNCHANGED session
     \/ own /\ todo = {} /\ (Expire \/ UNCHANGED session)
  /\ Idle
  /\ UNCHANGED <<outbox, cache, stored, deletion, serverVars, editorVars, history>>

----------------------------------------------------------------------------
(* Deletion: the exact request is kept until the server has answered it. *)

KeptNever(t) == {}   \* mutant
Kept(t) == deletion[t]

Delete(o, t) ==
  /\ session = "active" /\ holder = "none" /\ outbox = {}
  /\ t \in DOMAIN cache.rows
  /\ \/ /\ Kept(t) = {} /\ o \notin Used
        /\ LET w == [op |-> o, txn |-> t, type |-> "delete", base |-> cache.rows[t].revision,
                     held |-> {cache.rows[t].by}, seen |-> {cache.rows[t].by},
                     review |-> FALSE, draft |-> 0]
           IN /\ deletion' = [deletion EXCEPT ![t] = {w}]
              /\ issued' = issued \cup {w} /\ call' = {Request(w)}
     \/ /\ \E w \in Kept(t) : o = w.op /\ call' = {Request(w)}
        /\ UNCHANGED <<deletion, issued>>
  /\ holder' = "delete" /\ own' = TRUE
  /\ UNCHANGED <<todo, fresh, outbox, cache, stored, session, spent, withdrawn, serverVars, editorVars>>

Deleted ==
  /\ holder = "delete"
  /\ \E c \in call :
       LET t == c.write.txn
       IN /\ c.status # "sent"
          /\ cache' = IF c.status = "ok"
                      THEN [rows |-> Without(cache.rows, t), count |-> Max({0, cache.count - 1})]
                      ELSE cache
          /\ deletion' = IF c.status \in {"ok", "refused"}
                         THEN [deletion EXCEPT ![t] = {}] ELSE deletion
          /\ withdrawn' = IF c.status = "refused" THEN withdrawn \cup {c.write.op} ELSE withdrawn
          /\ IF c.status = "unauthorized" THEN Expire ELSE UNCHANGED session
  /\ Idle
  /\ UNCHANGED <<outbox, stored, serverVars, editorVars, issued, spent>>

----------------------------------------------------------------------------
(* The session, and the end of the process. *)

\* Signing in stores the draft on screen and loads the owner's stored one.
Login ==
  /\ (alone => session # "active")
  /\ MutationFree /\ session' = "active" /\ own' = FALSE
  /\ IF session = "none"
     THEN draft' = stored /\ UNCHANGED stored
     ELSE stored' = draft /\ UNCHANGED draft
  /\ autosave' = {}
  /\ UNCHANGED <<composed, outbox, cache, deletion, holder, todo, call, fresh, serverVars, history>>

\* The draft is stored before the owner changes to the local demo.
Logout ==
  /\ session # "none" /\ MutationFree /\ session' = "none" /\ own' = FALSE
  /\ stored' = draft /\ draft' = Blank /\ autosave' = {}
  /\ UNCHANGED <<composed, outbox, cache, deletion, holder, todo, call, fresh, serverVars, history>>

\* The process dies and starts again from what is stored.
Crash ==
  /\ ~alone /\ Idle
  /\ draft' = (IF session = "none" THEN Blank ELSE stored) /\ autosave' = {}
  /\ late' \in {late} \cup UNION {GivenUp(c) : c \in call}
  /\ UNCHANGED <<server, receipts, web, phoneVars, composed, history>>

----------------------------------------------------------------------------
(* Behaviours. *)

Init ==
  /\ server = [t \in TxnIds |-> Gone] /\ receipts = {} /\ late = {} /\ web = 0
  /\ outbox = {} /\ stored = Blank /\ session = "active"
  /\ cache = [rows |-> [t \in {} |-> View(t)], count |-> 0]
  /\ deletion = [t \in TxnIds |-> {}]
  /\ draft = Blank /\ autosave = {} /\ composed = 0
  /\ holder = "none" /\ own = FALSE /\ todo = {} /\ call = {} /\ fresh = {}
  /\ issued = {} /\ spent = {} /\ withdrawn = {} /\ alone = FALSE

Editing == Compose \/ Discard \/ Autosave \/ PersistDraft
Entering ==
  \/ \E o \in OpIds, t \in TxnIds : Save(o, t) \/ Delete(o, t)
  \/ Review \/ RetryBlocked
Network == Answer \/ Disconnect \/ Straggler
Syncing ==
  SyncStart \/ SyncRefused \/ SyncSend \/ SyncReply \/ Download \/ Merge \/ SyncEnd \/ Deleted
Next ==
  /\ Partner \/ Editing \/ Entering \/ Network \/ Syncing \/ Login \/ Logout \/ Crash
  /\ UNCHANGED alone

Spec == Init /\ [][Next]_vars

\* At last the process neither dies nor signs in over a live session, the foreground loop and the
\* persistent background work start a sync again after every failure, and a
\* connection that is tried for ever works at last: a write sent for ever gets a
\* definite answer, and such an answer arrives.
LeftAlone == ~alone /\ alone' = TRUE /\ UNCHANGED <<serverVars, phoneVars, editorVars, syncVars, history>>
Resolves(o) == (\E c \in call : c.write.op = o) /\ AnswerWith({"ok", "refused"})
Resolved(o) == (\E c \in call : c.write.op = o /\ c.status \in {"ok", "refused"}) /\ SyncReply
Scheduled(A) == A /\ UNCHANGED alone
FairSpec ==
  /\ Init /\ [][Next \/ LeftAlone]_vars /\ WF_vars(LeftAlone)
  /\ WF_vars(Scheduled(SyncStart)) /\ WF_vars(Scheduled(SyncSend)) /\ WF_vars(Scheduled(SyncReply))
  /\ WF_vars(Scheduled(Merge)) /\ WF_vars(Scheduled(SyncEnd)) /\ WF_vars(Scheduled(Deleted))
  /\ \A o \in OpIds : SF_vars(Scheduled(Resolves(o))) /\ SF_vars(Scheduled(Resolved(o)))

----------------------------------------------------------------------------
(* Properties. *)

Drafts == 0..MaxDrafts
Payloads ==
  [op : OpIds, txn : TxnIds, type : {"create", "edit", "delete"}, base : Nat,
   held : SUBSET (OpIds \cup 0..MaxWeb), seen : SUBSET (OpIds \cup 0..MaxWeb),
   review : BOOLEAN, draft : Drafts]
IsDraft(d) ==
  /\ d.n \in Drafts /\ d.replaces \subseteq OpIds /\ d.txn \subseteq TxnIds
  /\ \A x \in d.original :
       x.txn \in TxnIds /\ x.revision \in Nat \ {0} /\ x.shown \subseteq OpIds \cup 0..MaxWeb
IsView(f) == DOMAIN f \subseteq TxnIds /\ \A t \in DOMAIN f : f[t].revision \in Nat \ {0}
IsCall(c) ==
  /\ c.write \in issued /\ c.revision \in Nat
  /\ c.status \in {"sent", "ok", "refused", "unavailable", "unauthorized", "lost"}

\* What is stored and what is in memory.  Every write in the outbox, kept for a
\* deletion, under way or late is one the user issued.
TypeOK ==
  /\ \A t \in TxnIds : server[t].revision \in Nat /\ server[t].audit \subseteq Used
  /\ \A r \in receipts : r.op \in Used /\ r.revision \in Nat
  /\ issued \subseteq Payloads /\ late \subseteq issued /\ web \in 0..MaxWeb
  /\ \A x \in outbox :
       /\ x.write \in issued /\ x.at \in Nat /\ x.confirmed \in Nat
       /\ x.status \in {"pending", "blocked", "acknowledged"}
       /\ x.status = "acknowledged" => x.confirmed > 0
  /\ \A t \in TxnIds : deletion[t] \subseteq {w \in issued : w.type = "delete" /\ w.txn = t}
  /\ IsView(cache.rows) /\ cache.count \in Nat
  /\ IsDraft(stored) /\ IsDraft(draft) /\ \A d \in autosave : IsDraft(d)
  /\ session \in {"active", "expired", "none"} /\ composed \in Drafts
  /\ holder \in {"none", "sync", "delete"} /\ own \in BOOLEAN /\ todo \subseteq Used
  /\ \A c \in call : IsCall(c)
  /\ \A s \in fresh : IsView(s.rows) /\ s.count \in Nat
  /\ alone \in BOOLEAN /\ withdrawn \subseteq Used /\ spent \subseteq TxnIds

\* Nothing the user confirmed is lost, whatever is lost on the way and wherever the
\* process dies: a write waits in the outbox and a deletion is kept to be retried
\* until the server has applied it, unless the server refused it and it was given
\* up or replaced.
NothingLost ==
  \A w \in issued :
    \/ Known(w) \/ w.op \in withdrawn
    \/ IF w.type = "delete" THEN w \in deletion[w.txn] ELSE \E x \in outbox : x.write = w

\* A composed entry is one entry: however often its write is sent again, late,
\* reviewed and replaced, and wherever the process dies, the server never holds
\* two entries that come from it.
NoDuplicateEntry ==
  \A t, u \in Present :
    server[t].draft = server[u].draft /\ server[t].draft # 0 => t = u

\* The outbox holds one write per entry, so no write overtakes another one of the
\* same entry.
OneWritePerEntry == \A x, y \in outbox : x.write.txn = y.write.txn => x = y

\* An entry saved on this phone stays on screen as long as the server holds it,
\* also between the acknowledgement of its write and the next snapshot.
SavedStaysVisible ==
  \A w \in issued :
    /\ w.type = "create" /\ w.op \notin withdrawn
    /\ w.txn \in Present /\ w.op \in server[w.txn].audit
    => w.txn \in DOMAIN Shown

\* An edit or a deletion from this phone takes effect only on the version of the
\* entry that was on screen when the user opened it, however late it arrives: no
\* version the partner wrote meanwhile is overwritten.  Two exceptions.  The edit
\* that replaces a refused one takes effect on the version the phone had confirmed
\* when the user reviewed it, which the form does not show: what the partner wrote
\* there goes unread.  And an entry whose create was refused, replaced and deleted
\* may be written once more by an earlier attempt of the replaced write: it
\* starts again at revision 1.
Reborn(t) == \E w \in issued : w.txn = t /\ w.type = "create" /\ w.op \in withdrawn /\ Known(w)
OverwritesOnlyItsBase ==
  [][\A w \in issued : w.type # "create" /\ ~Known(w) /\ Known(w)' =>
       \/ server[w.txn].by \in w.seen
       \/ w.review /\ server[w.txn].by \in w.held
       \/ Reborn(w.txn)]_vars

\* While the session lasts, every pending write is at last acknowledged or refused,
\* also behind older writes the server refused.
PendingResolved ==
  \A o \in OpIds :
    (session = "active" /\ \E x \in Pending : x.write.op = o)
      ~> (session # "active" \/ ~\E x \in Pending : x.write.op = o)
====
