---------------------------- MODULE MobileSeenProofs -------------------------
(***************************************************************************)
(* Proofs about MobileSync, for any ids, window and bounds: a write from   *)
(* the phone takes effect only on the version of the entry it was composed *)
(* on, and an entry saved on the phone stays on screen as long as the      *)
(* server holds it.  Both rest on what a revision and its author, once     *)
(* held on the phone, say about the entry the server holds later.          *)
(***************************************************************************)
EXTENDS MobileSyncProofs

----------------------------------------------------------------------------
(* The inductive invariant. *)

\* The entry can only start again by a create the user had replaced: its id is taken and
\* the creates of it that were not replaced have been served, or one that was replaced has.
Settled(t) ==
  \/ Reborn(t)
  \/ t \in spent /\ \A w \in Creates : w.txn = t => Known(w) \/ w.op \in withdrawn

\* A draft of a refused create names the create it replaces.
Replacing(d) ==
  d.original = {} /\ d.txn # {} => \E w \in Creates : d.txn = {w.txn} /\ d.replaces = {w.op}

\* Among the creates of an id, at most one was not replaced.
Lineage ==
  /\ \A w \in Creates : w.txn \in spent
  /\ \A v, w \in Creates :
       v.txn = w.txn /\ v.op \notin withdrawn /\ w.op \notin withdrawn => v = w
  /\ \A x \in outbox : x.write.op \notin withdrawn
  /\ Replacing(draft) /\ Replacing(stored)
  /\ \A t \in Present : Settled(t)

\* The entry had revision r by author b, and any other entry under the id is a later
\* revision of it, or a reborn one.
Good(t, r, b) ==
  /\ Settled(t)
  /\ \/ Reborn(t) \/ server[t].revision > r \/ server[t].revision = 0
     \/ server[t].revision = r /\ server[t].by = b

\* The revision a write was answered.
Confirms(w, n) ==
  /\ Good(w.txn, n, w.op)
  /\ (w.type = "create" => n = 1) /\ (w.type = "edit" => n > w.base)

GoodRows(f) == \A t \in DOMAIN f : Good(t, f[t].revision, f[t].by)
\* A draft holds a version the entry had, which is on screen unless it is a review.
GoodDraft(d) ==
  /\ AtMostOne(d.original) /\ \A x \in d.original : Good(x.txn, x.revision, x.by)
  /\ \A x \in d.original : d.replaces # {} \/ x.by \in x.shown

\* Every revision the phone was told, shows or states is one the entry had.
Told ==
  /\ \A r \in receipts, w \in issued : r.op = w.op /\ w.type # "delete" => Confirms(w, r.revision)
  /\ \A c \in call : c.status = "ok" /\ c.write.type # "delete" => Confirms(c.write, c.revision)
  /\ \A x \in Acknowledged : Confirms(x.write, x.confirmed)
ViewsGood == GoodRows(cache.rows) /\ \A s \in fresh : GoodRows(s.rows)
DraftsGood == GoodDraft(draft) /\ GoodDraft(stored)
States(w, b) == Good(w.txn, w.base, b) /\ (w.review \/ b \in w.seen)
Stated == \A w \in issued : w.type # "create" => \E b \in w.held : States(w, b)

SeenInv == IndInv /\ Lineage /\ Told /\ ViewsGood /\ DraftsGood /\ Stated

----------------------------------------------------------------------------
(* How an entry on the server moves. *)

\* The server changes only by the partner, or by the write of the phone it serves.
LEMMA ServerMoves ==
  ASSUME IndInv, [Next]_vars
  PROVE  \/ UNCHANGED <<server, receipts>>
         \/ Partner
         \/ /\ UNCHANGED <<history, outbox, draft, stored>>
            /\ \E w \in issued : Apply(w)
<1>1. CASE Network
  <2>1. UNCHANGED <<history, outbox, draft, stored>>
    BY <1>1, NetworkFrame DEF phoneVars, editorVars
  <2>2. \A w \in late : w \in issued
    BY DEF IndInv, Serving
  <2>3. \A c \in call : c.write \in issued
    BY DEF IndInv, Calling, Requested, IsCall
  <2>4. UNCHANGED <<server, receipts>> \/ \E w \in issued : Apply(w)
    BY <1>1, <2>2, <2>3 DEF Network, Answer, AnswerWith, Disconnect, Straggler, Serve
  <2> QED BY <2>1, <2>4
<1>2. CASE Entering
  BY <1>2, SaveFrame, DeleteFrame, ReviewFrame DEF Entering, serverVars
<1> QED
  BY <1>1, <1>2, EditingFrame, SyncingFrame, SessionFrame DEF Next, vars, serverVars

\* A write that is served changes its entry only, from the revision it states.
LEMMA AppliedRow ==
  ASSUME IndInv, NEW w \in issued, Apply(w)
  PROVE  /\ w.txn \in TxnIds /\ ~Known(w) /\ Known(w)'
         /\ \A t \in TxnIds \ {w.txn} : server'[t] = server[t]
         /\ receipts' = receipts \cup {[op |-> w.op, revision |-> server'[w.txn].revision]}
         /\ \/ /\ w.type = "create" /\ server[w.txn].revision = 0
               /\ server'[w.txn].revision = 1 /\ server'[w.txn].by = w.op
            \/ /\ w.type = "edit" /\ server[w.txn].revision = w.base /\ w.base > 0
               /\ server'[w.txn].revision = w.base + 1 /\ server'[w.txn].by = w.op
            \/ /\ w.type = "delete" /\ server[w.txn].revision = w.base /\ w.base > 0
               /\ server'[w.txn].revision = 0
<1>1. w \in Payloads /\ w.txn \in TxnIds /\ (w.type # "create" => w.base > 0)
  BY DEF IndInv, Issuing, Payloads
<1>2. Row(server[w.txn]) /\ DOMAIN server = TxnIds
  BY <1>1 DEF IndInv, Serving
<1>3. PICK e : e = Written(w)
  OBVIOUS
<1>4. /\ ~Known(w) /\ Acceptable(w) /\ server' = [server EXCEPT ![w.txn] = e]
      /\ receipts' = receipts \cup {[op |-> w.op, revision |-> e.revision]}
  BY <1>3 DEF Apply
<1>5. server'[w.txn] = e /\ \A t \in TxnIds \ {w.txn} : server'[t] = server[t]
  BY <1>1, <1>2, <1>4
<1>6. Known(w)'
  <2>1. PICK r : r = [op |-> w.op, revision |-> e.revision]
    OBVIOUS
  <2> QED BY <1>4, <2>1 DEF Known
<1>7. CASE w.type = "create"
  <2>1. e = [revision |-> 1, by |-> w.op, audit |-> {w.op}, row |-> NextRow, draft |-> w.draft]
    BY <1>3, <1>7 DEF Written
  <2>2. server[w.txn].revision = 0
    BY <1>1, <1>2, <1>4, <1>7 DEF Acceptable, Present, Row
  <2> QED BY <1>1, <1>4, <1>5, <1>6, <1>7, <2>1, <2>2
<1>8. CASE w.type = "edit"
  <2>1. e = [server[w.txn] EXCEPT !.revision = @ + 1, !.by = w.op, !.audit = @ \cup {w.op}]
    BY <1>3, <1>8 DEF Written
  <2>2. e.revision = server[w.txn].revision + 1 /\ e.by = w.op
    BY <1>2, <2>1 DEF Row
  <2> QED BY <1>1, <1>4, <1>5, <1>6, <1>8, <2>2 DEF Acceptable
<1>9. CASE w.type = "delete"
  <2>1. e.revision = 0
    BY <1>3, <1>9 DEF Written, Gone
  <2> QED BY <1>1, <1>4, <1>5, <1>6, <1>9, <2>1 DEF Acceptable
<1> QED BY <1>1, <1>7, <1>8, <1>9 DEF Payloads

\* A write becomes known when it is served.
LEMMA ServedNow ==
  ASSUME IndInv, [Next]_vars, NEW w \in issued, ~Known(w), Known(w)'
  PROVE  Apply(w)
<1>1. CASE receipts' = receipts
  BY <1>1 DEF Known
<1>2. ASSUME NEW v \in issued, Apply(v) PROVE Apply(w)
  <2>1. v.op = w.op
    BY <1>2, AppliedRow DEF Known
  <2>2. v = w
    BY <2>1 DEF IndInv, Issuing
  <2> QED BY <1>2, <2>2
<1> QED BY <1>1, <1>2, ServerMoves, PartnerFrame

\* The partner changes one entry: a new one, the next revision, or none.
LEMMA PartnerRow ==
  ASSUME IndInv, Partner, NEW t \in TxnIds
  PROVE  \/ server'[t] = server[t] \/ server'[t].revision = 0
         \/ t \notin spent /\ t \in spent'
         \/ server[t].revision > 0 /\ server'[t].revision = server[t].revision + 1
<1>1. DOMAIN server = TxnIds /\ \A u \in TxnIds : Row(server[u])
  BY DEF IndInv, Serving
<1>2. PICK u \in TxnIds :
        \/ u \notin spent /\ spent' = spent \cup {u}
           /\ server' = [server EXCEPT ![u] = [Gone EXCEPT !.revision = 1, !.by = web', !.row = NextRow]]
        \/ u \in Present /\ server' = [server EXCEPT ![u].revision = @ + 1, ![u].by = web']
        \/ server' = [server EXCEPT ![u] = Gone]
  BY DEF Partner
<1>3. CASE t # u
  BY <1>1, <1>2, <1>3
<1>4. CASE t = u
  <2>1. CASE u \notin spent /\ spent' = spent \cup {u}
    BY <1>4, <2>1
  <2>2. CASE u \in Present /\ server' = [server EXCEPT ![u].revision = @ + 1, ![u].by = web']
    <3>1. PICK e : e = [server[u] EXCEPT !.revision = @ + 1, !.by = web']
      OBVIOUS
    <3>2. server'[u] = e
      BY <1>1, <2>2, <3>1
    <3>3. e.revision = server[u].revision + 1
      BY <1>1, <3>1 DEF Row
    <3> QED BY <1>4, <2>2, <3>2, <3>3 DEF Present
  <2>3. CASE server' = [server EXCEPT ![u] = Gone]
    BY <1>1, <1>4, <2>3 DEF Gone
  <2> QED BY <1>2, <2>1, <2>2, <2>3
<1> QED BY <1>3, <1>4

----------------------------------------------------------------------------
(* What is settled stays settled. *)

LEMMA SpentGrows ==
  ASSUME [Next]_vars
  PROVE  spent \subseteq spent'
<1>1. CASE Partner
  BY <1>1 DEF Partner
<1>2. CASE Entering
  BY <1>2, DeleteFrame, ReviewFrame DEF Entering, Save, history
<1> QED
  BY <1>1, <1>2, EditingFrame, NetworkFrame, SyncingFrame, SessionFrame DEF Next, vars, history

LEMMA RebornStays ==
  ASSUME IndInv, [Next]_vars, NEW t, Reborn(t)
  PROVE  Reborn(t)'
<1>1. PICK w \in issued : w.txn = t /\ w.type = "create" /\ w.op \in withdrawn /\ Known(w)
  BY DEF Reborn
<1>2. w \in issued' /\ w.op \in withdrawn' /\ Known(w)'
  BY <1>1, UsedGrows, WithdrawnStep, KnownStays
<1> QED BY <1>1, <1>2 DEF Reborn

\* A create that is confirmed is of a new id, or replaces the refused create of its id.
LEMMA CreateSaved ==
  ASSUME IndInv, Lineage, [Next]_vars, NEW w \in Creates', w \notin Creates
  PROVE  /\ w.txn \in spent' /\ w.op \notin Used
         /\ \/ w.txn \notin spent
            \/ \E v \in Creates :
                 /\ v.txn = w.txn /\ v.op \notin withdrawn /\ v.op \in withdrawn'
                 /\ \E x \in outbox : x.write = v
<1>1. w \in issued' /\ w \notin issued /\ w.type = "create"
  BY DEF Creates
<1>2. ASSUME NEW o \in OpIds, NEW t \in TxnIds, Save(o, t)
      PROVE  /\ w.txn \in spent' /\ w.op \notin Used
             /\ \/ w.txn \notin spent
                \/ \E v \in Creates :
                     /\ v.txn = w.txn /\ v.op \notin withdrawn /\ v.op \in withdrawn'
                     /\ \E x \in outbox : x.write = v
  <2>1. PICK u \in Payloads :
          IssuesNew(u) /\ u.txn = t /\ (u.type = "create" <=> draft.original = {})
    BY <1>2, SaveIssues
  <2>2. u = w
    BY <1>1, <2>1 DEF IssuesNew
  <2>3. /\ t \in Target /\ spent' = spent \cup {t} /\ withdrawn' = withdrawn \cup draft.replaces
        /\ draft.replaces \subseteq {x.write.op : x \in Blocked}
    BY <1>2 DEF Save
  <2>4. CASE draft.txn = {}
    BY <1>1, <2>1, <2>2, <2>3, <2>4 DEF Target, IssuesNew
  <2>5. CASE draft.txn # {}
    <3>1. PICK v \in Creates : draft.txn = {v.txn} /\ draft.replaces = {v.op}
      BY <1>1, <2>1, <2>2, <2>5 DEF Lineage, Replacing
    <3>2. v.op \notin withdrawn
      BY <2>3, <3>1 DEF Lineage, Blocked
    <3>3. v.txn = t
      BY <1>1, <2>1, <2>2, <2>3, <2>5, <3>1 DEF Target
    <3>4. PICK x \in outbox : x.write.op = v.op
      BY <2>3, <3>1 DEF Blocked
    <3>5. x.write = v
      BY <3>1, <3>4 DEF IndInv, Queueing, Waiting, Issuing, Creates
    <3> QED BY <2>1, <2>2, <2>3, <3>1, <3>2, <3>3, <3>5 DEF IssuesNew
  <2> QED BY <2>4, <2>5
<1>3. ASSUME NEW o \in OpIds, NEW t \in TxnIds, Delete(o, t) PROVE FALSE
  <2>1. issued' = issued \/ \E u : issued' = issued \cup {u} /\ u.type = "delete"
    BY <1>3, DeleteIssues DEF IssuesNew
  <2> QED BY <1>1, <2>1
<1>4. CASE issued' = issued
  BY <1>1, <1>4
<1> QED
  BY <1>2, <1>3, <1>4, PartnerFrame, EditingFrame, NetworkFrame, SyncingFrame, SessionFrame, ReviewFrame
  DEF Next, Entering, vars, history

LEMMA SettledStays ==
  ASSUME IndInv, Lineage, [Next]_vars, NEW t, Settled(t)
  PROVE  Settled(t)'
<1>1. CASE Reborn(t)
  BY <1>1, RebornStays DEF Settled
<1>2. CASE t \in spent /\ \A w \in Creates : w.txn = t => Known(w) \/ w.op \in withdrawn
  <2>1. t \in spent' /\ \A w \in Creates : w.txn = t => Known(w)' \/ w.op \in withdrawn'
    BY <1>2, SpentGrows, KnownStays, WithdrawnStep
  <2>2. CASE \A w \in Creates' : w.txn = t => w \in Creates
    BY <2>1, <2>2 DEF Settled
  <2>3. ASSUME NEW w \in Creates', w.txn = t, w \notin Creates
        PROVE  Reborn(t)'
    <3>1. PICK v \in Creates : v.txn = t /\ v.op \notin withdrawn /\ v.op \in withdrawn'
      BY <1>2, <2>3, CreateSaved
    <3>2. Known(v)' /\ v \in issued' /\ v.type = "create"
      BY <1>2, <3>1, KnownStays, UsedGrows DEF Creates
    <3> QED BY <3>1, <3>2 DEF Reborn
  <2> QED BY <2>2, <2>3 DEF Settled
<1> QED BY <1>1, <1>2 DEF Settled

\* An entry that comes to be on the server is settled.
LEMMA PresentSettles ==
  ASSUME IndInv, Lineage, [Next]_vars, NEW t \in Present'
  PROVE  Settled(t)'
<1>1. t \in TxnIds /\ server'[t].revision > 0
  BY DEF Present
<1>2. CASE t \in Present
  BY <1>2, SettledStays DEF Lineage
<1>3. CASE t \notin Present
  <2>1. server[t].revision = 0
    BY <1>1, <1>3 DEF Present, IndInv, Serving, Row
  <2>2. CASE Partner
    <3>1. t \notin spent /\ t \in spent'
      BY <1>1, <2>1, <2>2, PartnerRow
    <3>2. Creates' = Creates /\ \A w \in Creates : w.txn # t
      BY <2>2, <3>1, PartnerFrame DEF Creates, Lineage
    <3> QED BY <3>1, <3>2 DEF Settled
  <2>3. ASSUME UNCHANGED history, NEW w \in issued, Apply(w) PROVE Settled(t)'
    <3>1. w.txn = t /\ w.type = "create" /\ Known(w)'
      BY <1>1, <2>1, <2>3, AppliedRow
    <3>2. w \in Creates /\ Creates' = Creates /\ withdrawn' = withdrawn /\ t \in spent'
      BY <2>3, <3>1 DEF Creates, history, Lineage
    <3>3. CASE w.op \in withdrawn
      BY <2>3, <3>1, <3>2, <3>3 DEF Settled, Reborn, history
    <3>4. CASE w.op \notin withdrawn
      <4>1. \A v \in Creates : v.txn = t => v = w \/ v.op \in withdrawn
        BY <3>1, <3>2, <3>4 DEF Lineage
      <4> QED BY <3>1, <3>2, <4>1 DEF Settled
    <3> QED BY <3>3, <3>4
  <2>4. CASE UNCHANGED <<server, receipts>>
    BY <1>1, <2>1, <2>4
  <2> QED BY <2>2, <2>3, <2>4, ServerMoves
<1> QED BY <1>2, <1>3

\* What was true of a revision stays true.
LEMMA GoodStays ==
  ASSUME IndInv, Lineage, [Next]_vars, NEW t \in TxnIds, NEW r \in Nat, NEW b, Good(t, r, b)
  PROVE  Good(t, r, b)'
<1>1. Settled(t)' /\ server[t].revision \in Nat
  BY SettledStays DEF Good, IndInv, Serving, Row
<1>2. CASE Reborn(t)
  BY <1>1, <1>2, RebornStays DEF Good
<1>3. CASE ~Reborn(t) /\ Partner
  <2>1. t \in spent
    BY <1>3 DEF Good, Settled
  <2> QED BY <1>1, <1>3, <2>1, PartnerRow DEF Good
<1>4. ASSUME ~Reborn(t), UNCHANGED history, NEW w \in issued, Apply(w) PROVE Good(t, r, b)'
  <2>1. CASE w.txn # t
    BY <1>1, <1>4, <2>1, AppliedRow DEF Good
  <2>2. CASE w.txn = t /\ w.type = "create"
    <3>1. w.op \in withdrawn /\ Known(w)'
      BY <1>4, <2>2, AppliedRow DEF Good, Settled, Creates
    <3>2. Reborn(t)'
      BY <1>4, <2>2, <3>1 DEF Reborn, history
    <3> QED BY <1>1, <3>2 DEF Good
  <2>3. CASE w.txn = t /\ w.type # "create"
    BY <1>1, <1>4, <2>3, AppliedRow DEF Good
  <2> QED BY <2>1, <2>2, <2>3
<1>5. CASE UNCHANGED <<server, receipts>>
  <2>1. Reborn(t) => Reborn(t)'
    BY RebornStays
  <2> QED BY <1>1, <1>5, <2>1 DEF Good
<1> QED BY <1>2, <1>3, <1>4, <1>5, ServerMoves

----------------------------------------------------------------------------
(* The creates of one entry. *)

LEMMA WithdrawnOutbox ==
  ASSUME IndInv, Lineage, [Next]_vars
  PROVE  \A x \in outbox' : x.write.op \notin withdrawn'
<1>1. /\ \A x \in outbox : x.write.op \notin withdrawn /\ x.write \in issued /\ x.write.type # "delete"
      /\ \A v, w \in issued : v.op = w.op => v = w
      /\ withdrawn \subseteq Used
  BY DEF Lineage, IndInv, Queueing, Waiting, Issuing
<1>2. CASE outbox' \subseteq outbox /\ withdrawn' = withdrawn
  BY <1>1, <1>2
<1>3. ASSUME NEW o \in OpIds, NEW t \in TxnIds, Save(o, t)
      PROVE  \A x \in outbox' : x.write.op \notin withdrawn'
  <2>1. PICK w \in Payloads :
          /\ IssuesNew(w)
          /\ outbox' = {x \in outbox : x.write.op \notin draft.replaces} \cup
                         {[write |-> w, at |-> Cardinality(issued), status |-> "pending", confirmed |-> 0]}
    BY <1>3, SaveIssues
  <2>2. PICK new : new = [write |-> w, at |-> Cardinality(issued), status |-> "pending", confirmed |-> 0]
    OBVIOUS
  <2>3. withdrawn' = withdrawn \cup draft.replaces /\ draft.replaces \subseteq {x.write.op : x \in outbox}
    BY <1>3 DEF Save, Blocked
  <2>4. draft.replaces \subseteq Used
    BY <1>1, <2>3 DEF Used
  <2>5. new.write.op \notin withdrawn'
    BY <1>1, <2>1, <2>2, <2>3, <2>4 DEF IssuesNew
  <2>6. outbox' = {x \in outbox : x.write.op \notin draft.replaces} \cup {new}
    BY <2>1, <2>2
  <2> QED BY <1>1, <2>3, <2>5, <2>6
<1>4. CASE RetryBlocked
  <2>1. PICK x \in outbox : outbox' = (outbox \ {x}) \cup {[x EXCEPT !.status = "pending"]}
    BY <1>4 DEF RetryBlocked, Blocked
  <2>2. PICK y : y = [x EXCEPT !.status = "pending"]
    OBVIOUS
  <2>3. Waiting(x)
    BY DEF IndInv, Queueing
  <2>4. y.write = x.write
    BY <2>2, <2>3 DEF Waiting
  <2>5. withdrawn' = withdrawn
    BY <1>4 DEF RetryBlocked, history
  <2> QED BY <1>1, <2>1, <2>2, <2>4, <2>5
<1>5. CASE SyncReply
  <2>1. PICK c \in call :
          outbox' = {IF x.write = c.write /\ c.status # "unauthorized"
                     THEN [x EXCEPT !.status = Outcome(c.status), !.confirmed = c.revision] ELSE x : x \in outbox}
    BY <1>5 DEF SyncReply
  <2>2. ASSUME NEW x \in outbox, NEW y, y = [x EXCEPT !.status = Outcome(c.status), !.confirmed = c.revision]
        PROVE  y.write = x.write
    BY <2>2 DEF IndInv, Queueing, Waiting
  <2>3. \A y \in outbox' : \E x \in outbox : y.write = x.write
    BY <2>1, <2>2
  <2>4. withdrawn' = withdrawn
    BY <1>5 DEF SyncReply, history
  <2> QED BY <1>1, <2>3, <2>4
<1>6. CASE Deleted
  <2>1. PICK c \in call : withdrawn' = withdrawn \/ withdrawn' = withdrawn \cup {c.write.op}
    BY <1>6 DEF Deleted
  <2>2. c.write \in issued /\ c.write.type = "delete"
    <3>1. c.write \in issued /\ c.write.txn \in TxnIds /\ deletion[c.write.txn] = {c.write}
      BY <1>6 DEF Deleted, IndInv, Keeping, Calling, Requested, IsCall, Issuing, Payloads
    <3> QED BY <3>1 DEF IndInv, Keeping
  <2>3. outbox' = outbox
    BY <1>6 DEF Deleted
  <2> QED BY <1>1, <2>1, <2>2, <2>3
<1>7. CASE Entering
  BY <1>2, <1>3, <1>4, <1>7, DeleteFrame DEF Entering, Review, history
<1>8. CASE Syncing
  BY <1>2, <1>5, <1>6, <1>8
  DEF Syncing, SyncStart, SyncRefused, SyncSend, Download, Merge, SyncEnd, phoneVars, history
<1> QED
  BY <1>2, <1>7, <1>8, PartnerFrame, EditingFrame, NetworkFrame, SessionFrame
  DEF Next, vars, phoneVars, phoneTables, history

LEMMA ReplacingStep ==
  ASSUME IndInv, Lineage, [Next]_vars
  PROVE  Replacing(draft)' /\ Replacing(stored)'
<1>1. ASSUME NEW d, Replacing(d) PROVE Replacing(d)'
  BY <1>1, UsedGrows DEF Replacing
<1>2. Replacing(Blank)
  BY DEF Replacing, Blank
<1>3. CASE draft' \in {draft, stored, Blank} /\ stored' \in {draft, stored, Blank}
  BY <1>1, <1>2, <1>3 DEF Lineage, Replacing
<1>4. CASE Compose
  <2>1. draft'.txn = {} /\ stored' = stored
    BY <1>4 DEF Compose, OnScreen, Blank, phoneVars
  <2> QED BY <1>1, <2>1 DEF Lineage, Replacing
<1>5. CASE Review
  <2>1. PICK x \in outbox :
          /\ draft' = [n |-> x.write.draft,
                       original |-> IF x.write.type = "edit"
                                    THEN {Held(x.write.txn, cache.rows[x.write.txn],
                                               x.write.seen \cup {x.write.op})} ELSE {},
                       replaces |-> {x.write.op}, txn |-> {x.write.txn}]
          /\ stored' = draft'
    BY <1>5 DEF Review, Blocked
  <2>2. x.write \in issued /\ x.write.type \in {"create", "edit"}
    BY DEF IndInv, Queueing, Waiting, Issuing, Payloads
  <2>3. draft'.original = {} => x.write \in Creates
    BY <2>1, <2>2 DEF Creates
  <2>4. draft'.txn = {x.write.txn} /\ draft'.replaces = {x.write.op}
    BY <2>1
  <2>5. Replacing(draft)'
    BY <2>3, <2>4, UsedGrows DEF Replacing
  <2> QED BY <2>1, <2>5 DEF Replacing
<1>6. CASE Editing
  BY <1>3, <1>4, <1>6 DEF Editing, Discard, Autosave, PersistDraft, OnScreen, phoneVars
<1>7. CASE Entering
  BY <1>3, <1>5, <1>7, DeleteFrame DEF Entering, Save, NextDraft, RetryBlocked, editorVars
<1>8. CASE Login \/ Logout \/ Crash
  BY <1>3, <1>8 DEF Login, Logout, Crash, phoneVars
<1> QED
  BY <1>3, <1>6, <1>7, <1>8, PartnerFrame, NetworkFrame, SyncingFrame DEF Next, vars, phoneVars, editorVars

LEMMA LineageStep == ASSUME IndInv, Lineage, [Next]_vars PROVE Lineage'
<1>1. \A w \in Creates' : w \in Creates \/ w.txn \in spent'
  BY CreateSaved
<1>2. \A w \in Creates' : w.txn \in spent'
  BY <1>1, SpentGrows DEF Lineage
<1>3. withdrawn \subseteq withdrawn'
  BY WithdrawnStep
<1>4. ASSUME NEW v \in Creates', NEW w \in Creates', v.txn = w.txn,
             v.op \notin withdrawn', w.op \notin withdrawn'
      PROVE  v = w
  <2>1. CASE v \in Creates /\ w \in Creates
    BY <1>3, <1>4, <2>1 DEF Lineage
  <2>2. ASSUME NEW x \in Creates', x \notin Creates, NEW y \in Creates, x.txn = y.txn, y.op \notin withdrawn'
        PROVE  FALSE
    BY <1>3, <2>2, CreateSaved DEF Lineage
  <2>3. CASE v \notin Creates /\ w \notin Creates
    <3>1. v \in issued' /\ w \in issued' /\ v \notin issued /\ w \notin issued
      BY <2>3 DEF Creates
    <3> QED BY <3>1, IssuedGrows DEF IssuesNew
  <2> QED BY <1>4, <2>1, <2>2, <2>3
<1>5. \A t \in Present' : Settled(t)'
  BY PresentSettles
<1> QED BY <1>2, <1>4, <1>5, WithdrawnOutbox, ReplacingStep DEF Lineage

----------------------------------------------------------------------------
(* What the phone was told. *)

LEMMA ConfirmsStays ==
  ASSUME IndInv, Lineage, [Next]_vars, NEW w \in issued, NEW n \in Nat, Confirms(w, n)
  PROVE  Confirms(w, n)'
<1>1. w.txn \in TxnIds
  BY DEF IndInv, Issuing, Payloads
<1> QED BY <1>1, GoodStays DEF Confirms

\* The receipts, old and new, tell revisions the entries had.
LEMMA ReceiptsConfirm ==
  ASSUME IndInv, Lineage, Told, [Next]_vars, NEW r \in receipts', NEW w \in issued',
         r.op = w.op, w.type # "delete"
  PROVE  Confirms(w, r.revision)'
<1>1. \A v, u \in issued' : v.op = u.op => v = u
  BY IssuingStep DEF Issuing
<1>2. CASE r \in receipts
  <2>1. PICK v \in issued : v.op = r.op /\ r.revision \in Nat
    BY <1>2 DEF IndInv, Serving
  <2>2. v = w
    BY <1>1, <2>1, UsedGrows
  <2> QED BY <1>2, <2>1, <2>2, ConfirmsStays DEF Told
<1>3. ASSUME UNCHANGED history, NEW v \in issued, Apply(v), r \notin receipts
      PROVE  Confirms(w, r.revision)'
  <2>1. PICK new : new = [op |-> v.op, revision |-> server'[v.txn].revision]
    OBVIOUS
  <2>2. r = new
    BY <1>3, <2>1, AppliedRow
  <2>3. v = w /\ r.revision = server'[w.txn].revision
    BY <1>1, <1>3, <2>1, <2>2, UsedGrows
  <2>4. /\ w.txn \in TxnIds /\ server'[w.txn].revision > 0 /\ server'[w.txn].by = w.op
        /\ (w.type = "create" => r.revision = 1) /\ (w.type = "edit" => r.revision > w.base)
    <3>1. w.base \in Nat /\ w \in issued
      BY <1>3, <2>3 DEF IndInv, Issuing, Payloads
    <3> QED BY <1>3, <2>3, <3>1, AppliedRow
  <2>5. Settled(w.txn)'
    BY <2>4, PresentSettles DEF Present
  <2> QED BY <2>3, <2>4, <2>5 DEF Confirms, Good
<1>4. CASE Partner
  BY <1>2, <1>4, PartnerFrame
<1> QED BY <1>2, <1>3, <1>4, ServerMoves

\* What a served write is answered is in its receipt.
LEMMA AnswerReceipt ==
  ASSUME IndInv, NEW w \in issued, Serve(w, "ok")
  PROVE  \E r \in receipts' : r.op = w.op /\ r.revision = AnswerTo(w)
<1>1. CASE Known(w) /\ UNCHANGED <<server, receipts>>
  <2>1. (CHOOSE r \in receipts : r.op = w.op) \in {r \in receipts : r.op = w.op}
    BY <1>1 DEF Known
  <2> QED BY <1>1, <2>1 DEF AnswerTo, Answered
<1>2. CASE Apply(w)
  <2>1. PICK n : n = Written(w).revision
    OBVIOUS
  <2>2. PICK r : r = [op |-> w.op, revision |-> n]
    OBVIOUS
  <2>3. r \in receipts' /\ ~Known(w)
    BY <1>2, <2>1, <2>2 DEF Apply
  <2> QED BY <2>1, <2>2, <2>3 DEF AnswerTo
<1> QED BY <1>1, <1>2 DEF Serve

LEMMA CallConfirms ==
  ASSUME IndInv, Lineage, Told, [Next]_vars
  PROVE  \A c \in call' : c.status = "ok" /\ c.write.type # "delete" => Confirms(c.write, c.revision)'
<1>1. ASSUME NEW c \in call, c.status = "ok", c.write.type # "delete"
      PROVE  Confirms(c.write, c.revision)'
  <2>1. c.write \in issued /\ c.revision \in Nat
    BY DEF IndInv, Calling, Requested, IsCall
  <2> QED BY <1>1, <2>1, ConfirmsStays DEF Told
<1>2. CASE call' \subseteq call
  BY <1>1, <1>2
<1>3. CASE \E w : call' = {Request(w)}
  BY <1>3 DEF Request
<1>4. CASE Answer
  <2>1. PICK c \in call, status \in {"ok", "refused", "unavailable", "unauthorized"} :
          /\ Serve(c.write, status)
          /\ call' = {[c EXCEPT !.status = status, !.revision = IF status = "ok" THEN AnswerTo(c.write) ELSE 0]}
    BY <1>4 DEF Answer, AnswerWith
  <2>2. Requested(c) /\ c.write \in issued
    BY DEF IndInv, Calling, Requested, IsCall
  <2>3. PICK d : d = [c EXCEPT !.status = status, !.revision = IF status = "ok" THEN AnswerTo(c.write) ELSE 0]
    OBVIOUS
  <2>4. /\ call' = {d} /\ d.write = c.write /\ d.status = status
        /\ status = "ok" => d.revision = AnswerTo(c.write)
    BY <2>1, <2>2, <2>3 DEF Requested
  <2>5. ASSUME status = "ok", c.write.type # "delete" PROVE Confirms(d.write, d.revision)'
    <3>1. PICK r \in receipts' : r.op = c.write.op /\ r.revision = AnswerTo(c.write)
      BY <2>1, <2>2, <2>5, AnswerReceipt
    <3>2. c.write \in issued'
      BY <2>2, UsedGrows
    <3>3. Confirms(c.write, r.revision)'
      BY <2>5, <3>1, <3>2, ReceiptsConfirm
    <3>4. d.write = c.write /\ d.revision = r.revision
      BY <2>4, <2>5, <3>1
    <3> QED BY <3>3, <3>4
  <2> QED BY <2>4, <2>5
<1>5. CASE Disconnect
  <2>1. PICK c \in call : call' = {[c EXCEPT !.status = "lost", !.revision = 0]}
    BY <1>5 DEF Disconnect
  <2>2. Requested(c)
    BY DEF IndInv, Calling
  <2>3. \A d \in call' : d.status = "lost"
    BY <2>1, <2>2 DEF Requested
  <2> QED BY <2>3
<1>6. CASE Straggler
  BY <1>2, <1>6 DEF Straggler, syncVars
<1>7. CASE Entering
  <2>1. ASSUME NEW o \in OpIds, NEW t \in TxnIds, Delete(o, t) PROVE \E w : call' = {Request(w)}
    BY <2>1, DeleteIssues
  <2> QED BY <1>2, <1>3, <1>7, <2>1, SaveFrame, ReviewFrame DEF Entering, exchange
<1>8. CASE Syncing
  BY <1>2, <1>3, <1>8
  DEF Syncing, SyncStart, SyncRefused, SyncSend, SyncReply, Download, Merge, SyncEnd, Deleted, Idle, syncVars
<1>9. CASE Login \/ Logout \/ Crash
  BY <1>2, <1>9 DEF Login, Logout, Crash, Idle
<1> QED
  BY <1>2, <1>4, <1>5, <1>6, <1>7, <1>8, <1>9, PartnerFrame, EditingFrame DEF Next, Network, vars, syncVars, exchange

\* A row becomes acknowledged with the revision its write was answered.
LEMMA RowsConfirm ==
  ASSUME IndInv, Lineage, Told, [Next]_vars
  PROVE  \A x \in Acknowledged' : Confirms(x.write, x.confirmed)'
<1>1. ASSUME NEW x \in outbox, x.status = "acknowledged" PROVE Confirms(x.write, x.confirmed)'
  <2>1. x.write \in issued /\ x.confirmed \in Nat
    BY DEF IndInv, Queueing, Waiting
  <2> QED BY <1>1, <2>1, ConfirmsStays DEF Told, Acknowledged
<1>2. CASE \A x \in outbox' : x \in outbox \/ x.status # "acknowledged"
  BY <1>1, <1>2 DEF Acknowledged
<1>3. ASSUME NEW o \in OpIds, NEW t \in TxnIds, Save(o, t)
      PROVE  \A x \in outbox' : x \in outbox \/ x.status # "acknowledged"
  <2>1. PICK w : outbox' = {x \in outbox : x.write.op \notin draft.replaces} \cup
                   {[write |-> w, at |-> Cardinality(issued), status |-> "pending", confirmed |-> 0]}
    BY <1>3, SaveIssues
  <2> QED BY <2>1
<1>4. CASE RetryBlocked
  <2>1. PICK x \in outbox : outbox' = (outbox \ {x}) \cup {[x EXCEPT !.status = "pending"]}
    BY <1>4 DEF RetryBlocked, Blocked
  <2>2. [x EXCEPT !.status = "pending"].status = "pending"
    BY DEF IndInv, Queueing, Waiting
  <2> QED BY <1>2, <2>1, <2>2
<1>5. CASE SyncReply
  <2>1. PICK c \in call :
          outbox' = {IF x.write = c.write /\ c.status # "unauthorized"
                     THEN [x EXCEPT !.status = Outcome(c.status), !.confirmed = c.revision] ELSE x : x \in outbox}
    BY <1>5 DEF SyncReply
  <2>2. c.status = "ok" /\ c.write.type # "delete" => Confirms(c.write, c.revision)'
    <3>1. c.write \in issued /\ c.revision \in Nat
      BY DEF IndInv, Calling, Requested, IsCall
    <3> QED BY <3>1, ConfirmsStays DEF Told
  <2>3. ASSUME NEW y \in outbox', y.status = "acknowledged" PROVE Confirms(y.write, y.confirmed)'
    <3>1. PICK x \in outbox :
            y = IF x.write = c.write /\ c.status # "unauthorized"
                THEN [x EXCEPT !.status = Outcome(c.status), !.confirmed = c.revision] ELSE x
      BY <2>1, <2>3
    <3>2. CASE y = x
      BY <1>1, <2>3, <3>2
    <3>3. CASE x.write = c.write /\ y = [x EXCEPT !.status = Outcome(c.status), !.confirmed = c.revision]
      <4>1. Waiting(x)
        BY DEF IndInv, Queueing
      <4>2. y.write = c.write /\ y.status = Outcome(c.status) /\ y.confirmed = c.revision
        BY <3>3, <4>1 DEF Waiting
      <4>3. c.status = "ok" /\ c.write.type # "delete"
        BY <2>3, <3>3, <4>1, <4>2 DEF Outcome, Waiting
      <4> QED BY <2>2, <4>2, <4>3
    <3> QED BY <3>1, <3>2, <3>3
  <2> QED BY <2>3 DEF Acknowledged
<1>6. CASE Entering
  BY <1>2, <1>3, <1>4, <1>6, DeleteFrame DEF Entering, Review
<1>7. CASE Syncing
  BY <1>2, <1>5, <1>7
  DEF Syncing, SyncStart, SyncRefused, SyncSend, Download, Merge, SyncEnd, Deleted, phoneVars
<1> QED
  BY <1>2, <1>6, <1>7, PartnerFrame, EditingFrame, NetworkFrame, SessionFrame
  DEF Next, vars, phoneVars, phoneTables

LEMMA ToldStep == ASSUME IndInv, Lineage, Told, [Next]_vars PROVE Told'
BY ReceiptsConfirm, CallConfirms, RowsConfirm DEF Told

----------------------------------------------------------------------------
(* What the phone shows and states. *)

LEMMA GoodRowsStay ==
  ASSUME IndInv, Lineage, [Next]_vars, NEW f, IsViewBy(f), GoodRows(f)
  PROVE  GoodRows(f)'
<1>1. ASSUME NEW t \in DOMAIN f PROVE Good(t, f[t].revision, f[t].by)'
  <2>1. t \in TxnIds /\ f[t].revision \in Nat /\ Good(t, f[t].revision, f[t].by)
    BY DEF IsViewBy, IsView, GoodRows
  <2> QED BY <2>1, GoodStays
<1> QED BY <1>1 DEF GoodRows

LEMMA PresentGood ==
  ASSUME IndInv, Lineage, NEW t \in Present
  PROVE  Good(t, View(t).revision, View(t).by)
BY DEF Lineage, Good, View

LEMMA MergedGood ==
  ASSUME IndInv, Told, ViewsGood, NEW s \in fresh
  PROVE  GoodRows(Merged(s))
<1>1. GoodRows(Confirmed)
  <2>1. ASSUME NEW t \in {x.write.txn : x \in Acknowledged}
        PROVE  Good(t, Confirmed[t].revision, Confirmed[t].by)
    <3> DEFINE y == CHOOSE x \in Acknowledged : x.write.txn = t
    <3>1. y \in Acknowledged /\ y.write.txn = t
      OBVIOUS
    <3>2. Confirmed[t] = [revision |-> y.confirmed, by |-> y.write.op]
      BY DEF Confirmed
    <3> HIDE DEF y
    <3>3. Good(y.write.txn, y.confirmed, y.write.op)
      BY <3>1 DEF Told, Confirms
    <3> QED BY <3>1, <3>2, <3>3
  <2>2. DOMAIN Confirmed = {x.write.txn : x \in Acknowledged}
    BY DEF Confirmed
  <2> QED BY <2>1, <2>2 DEF GoodRows
<1>2. ASSUME NEW f, NEW g, GoodRows(f), GoodRows(g) PROVE GoodRows(Over(f, g))
  BY <1>2 DEF GoodRows, Over
<1> QED BY <1>1, <1>2 DEF ViewsGood, Merged

LEMMA ViewsGoodStep ==
  ASSUME IndInv, Lineage, Told, ViewsGood, [Next]_vars
  PROVE  ViewsGood'
<1>1. /\ IsViewBy(cache.rows) /\ GoodRows(cache.rows)
      /\ \A s \in fresh : IsViewBy(s.rows) /\ GoodRows(s.rows)
  BY DEF IndInv, Viewing, ViewsGood
<1>2. ASSUME NEW f, IsViewBy(f), GoodRows(f) PROVE GoodRows(f)'
  BY <1>2, GoodRowsStay
<1>3. CASE cache' = cache /\ fresh' \subseteq fresh
  BY <1>1, <1>2, <1>3 DEF ViewsGood, GoodRows
<1>4. CASE Download
  <2>1. cache' = cache /\ fresh' = {Snapshot}
    BY <1>4 DEF Download, phoneVars
  <2>2. GoodRows(Snapshot.rows) /\ IsViewBy(Snapshot.rows)
    BY PresentGood, SnapshotViews DEF GoodRows, Snapshot, InWindow
  <2> QED BY <1>1, <1>2, <2>1, <2>2 DEF ViewsGood, GoodRows
<1>5. ASSUME NEW f, IsViewBy(f), GoodRows(f), cache'.rows = f, fresh' = {} PROVE ViewsGood'
  BY <1>2, <1>5 DEF ViewsGood, GoodRows
<1>6. CASE Merge
  <2>1. PICK s \in fresh : cache' = [rows |-> Merged(s), count |-> s.count]
    BY <1>6 DEF Merge
  <2>2. fresh' = {} /\ cache'.rows = Merged(s)
    BY <1>6, <2>1 DEF Merge, Idle
  <2> QED BY <1>5, <2>2, MergedViews, MergedGood
<1>7. CASE Deleted
  <2>1. PICK c \in call :
          cache' = IF c.status = "ok"
                   THEN [rows |-> Without(cache.rows, c.write.txn), count |-> Max({0, cache.count - 1})]
                   ELSE cache
    BY <1>7 DEF Deleted
  <2>2. fresh' = {}
    BY <1>7 DEF Deleted, Idle
  <2>3. IsViewBy(Without(cache.rows, c.write.txn)) /\ GoodRows(Without(cache.rows, c.write.txn))
    BY <1>1 DEF Without, IsViewBy, IsView, GoodRows
  <2>4. CASE c.status = "ok"
    BY <1>5, <2>1, <2>2, <2>3, <2>4
  <2> QED BY <1>3, <2>1, <2>2, <2>4
<1>8. CASE SyncStart \/ SyncRefused \/ SyncSend \/ SyncReply \/ SyncEnd
  BY <1>3, <1>8 DEF SyncStart, SyncRefused, SyncSend, SyncReply, SyncEnd, Idle, phoneVars, syncVars
<1>9. CASE Login \/ Logout \/ Crash
  BY <1>3, <1>9 DEF Login, Logout, Crash, Idle, phoneVars
<1>10. CASE Entering
  BY <1>3, <1>10, SaveFrame, DeleteFrame, ReviewFrame DEF Entering, exchange
<1> QED
  BY <1>3, <1>4, <1>6, <1>7, <1>8, <1>9, <1>10, PartnerFrame, EditingFrame, NetworkFrame
  DEF Next, Syncing, vars, phoneVars, phoneTables, syncVars, exchange

\* Also an acknowledged write not yet merged shows a revision the entry had.
LEMMA ShownGood ==
  ASSUME IndInv, Told, ViewsGood, NEW t \in DOMAIN Shown, ~ShownPending(t)
  PROVE  Good(t, Shown[t].revision, Shown[t].by)
<1> DEFINE covering == {x \in outbox : Covers(x)}
           rows == [u \in {x.write.txn : x \in covering} |->
                      Optimistic(CHOOSE x \in covering : x.write.txn = u)]
<1>1. Shown = Over(rows, cache.rows)
  BY DEF Shown
<1>2. CASE t \in {x.write.txn : x \in covering}
  <2>1. PICK y : y = CHOOSE x \in covering : x.write.txn = t
    OBVIOUS
  <2>2. y \in outbox /\ y.write.txn = t /\ rows[t] = Optimistic(y)
    BY <1>2, <2>1
  <2>3. Waiting(y) /\ y \in Acknowledged
    BY <2>2 DEF IndInv, Queueing, ShownPending, RowFor, Acknowledged
  <2>4. /\ y.confirmed \in Nat /\ y.write.base \in Nat /\ y.write.type \in {"create", "edit"}
        /\ t \in TxnIds
    BY <2>2, <2>3 DEF Waiting, IndInv, Issuing, Payloads
  <2>5. Confirms(y.write, y.confirmed)
    BY <2>3 DEF Told
  <2>6. server[t].revision \in Nat
    BY <2>4 DEF IndInv, Serving, Row
  <2>7. Good(t, Optimistic(y).revision, Optimistic(y).by)
    BY <2>2, <2>4, <2>5, <2>6 DEF Confirms, Good, Optimistic
  <2>8. Shown[t] = rows[t]
    BY <1>1, <1>2 DEF Over
  <2> QED BY <2>2, <2>7, <2>8
<1>3. CASE t \notin {x.write.txn : x \in covering}
  <2>1. t \in DOMAIN cache.rows /\ Shown[t] = cache.rows[t]
    BY <1>1, <1>3 DEF Over
  <2> QED BY <2>1 DEF ViewsGood, GoodRows
<1> QED BY <1>2, <1>3

LEMMA DraftsGoodStep ==
  ASSUME IndInv, Lineage, Told, ViewsGood, DraftsGood, [Next]_vars
  PROVE  DraftsGood'
<1>1. /\ IsDraft(draft) /\ GoodDraft(draft) /\ IsDraft(stored) /\ GoodDraft(stored)
      /\ IsDraft(Blank) /\ GoodDraft(Blank)
  BY BlankDrawn DEF IndInv, Drafting, Drawn, DraftsGood, GoodDraft, AtMostOne, Blank
<1>2. ASSUME NEW d, IsDraft(d), GoodDraft(d) PROVE GoodDraft(d)'
  BY <1>2, GoodStays DEF IsDraft, GoodDraft
<1>3. CASE draft' \in {draft, stored, Blank} /\ stored' \in {draft, stored, Blank}
  BY <1>1, <1>2, <1>3 DEF DraftsGood, GoodDraft
<1>4. ASSUME NEW t \in TxnIds, NEW v, NEW screen,
             v.revision \in Nat, Good(t, v.revision, v.by),
             draft'.original = {Held(t, v, screen)}, draft'.replaces # {} \/ v.by \in screen
      PROVE  GoodDraft(draft)'
  <2>1. PICK x : x = Held(t, v, screen)
    OBVIOUS
  <2>2. x.txn = t /\ x.revision = v.revision /\ x.by = v.by /\ x.shown = screen
    BY <2>1 DEF Held
  <2>3. Good(x.txn, x.revision, x.by)'
    BY <1>4, <2>2, GoodStays
  <2> QED BY <1>4, <2>1, <2>2, <2>3 DEF GoodDraft, AtMostOne
<1>5. ASSUME draft'.original = {} PROVE GoodDraft(draft)'
  BY <1>5 DEF GoodDraft, AtMostOne
<1>6. CASE Compose
  <2>1. \/ draft' = [Blank EXCEPT !.n = composed']
        \/ \E t \in DOMAIN Shown :
             ~ShownPending(t) /\ draft' = [Blank EXCEPT !.n = composed', !.original = {Seen(t, Shown[t])}]
        \/ \E t \in Present : draft' = [Blank EXCEPT !.n = composed', !.original = {Seen(t, View(t))}]
    BY <1>6 DEF Compose, OnScreen
  <2>2. stored' = stored
    BY <1>6 DEF Compose, phoneVars
  <2>3. ASSUME draft' = [Blank EXCEPT !.n = composed'] PROVE GoodDraft(draft)'
    BY <1>5, <2>3 DEF Blank
  <2>4. ASSUME NEW t \in DOMAIN Shown, ~ShownPending(t),
               draft' = [Blank EXCEPT !.n = composed', !.original = {Seen(t, Shown[t])}]
        PROVE  GoodDraft(draft)'
    <3>1. t \in TxnIds /\ Shown[t].revision \in Nat
      BY ShownViews DEF IsViewBy, IsView
    <3>2. draft'.original = {Held(t, Shown[t], {Shown[t].by})}
      BY <2>4 DEF Blank, Seen
    <3> QED BY <1>4, <2>4, <3>1, <3>2, ShownGood
  <2>5. ASSUME NEW t \in Present, draft' = [Blank EXCEPT !.n = composed', !.original = {Seen(t, View(t))}]
        PROVE  GoodDraft(draft)'
    <3>1. t \in TxnIds /\ View(t).revision \in Nat
      BY DEF Present, View, IndInv, Serving, Row
    <3>2. draft'.original = {Held(t, View(t), {View(t).by})}
      BY <2>5 DEF Blank, Seen
    <3> QED BY <1>4, <3>1, <3>2, PresentGood
  <2> QED BY <1>1, <1>2, <2>1, <2>2, <2>3, <2>4, <2>5 DEF DraftsGood, GoodDraft
<1>7. CASE Review
  <2>1. PICK x \in outbox :
          /\ draft' = [n |-> x.write.draft,
                       original |-> IF x.write.type = "edit"
                                    THEN {Held(x.write.txn, cache.rows[x.write.txn],
                                               x.write.seen \cup {x.write.op})} ELSE {},
                       replaces |-> {x.write.op}, txn |-> {x.write.txn}]
          /\ x.write.type = "edit" => x.write.txn \in DOMAIN cache.rows
          /\ stored' = draft'
    BY <1>7 DEF Review, Blocked
  <2>2. CASE x.write.type = "edit"
    <3> DEFINE t == x.write.txn
    <3>1. t \in TxnIds /\ cache.rows[t].revision \in Nat /\ Good(t, cache.rows[t].revision, cache.rows[t].by)
      BY <2>1, <2>2 DEF IndInv, Viewing, IsViewBy, IsView, ViewsGood, GoodRows
    <3>2. /\ draft'.original = {Held(t, cache.rows[t], x.write.seen \cup {x.write.op})}
          /\ draft'.replaces # {}
      BY <2>1, <2>2
    <3> QED BY <1>4, <2>1, <3>1, <3>2 DEF DraftsGood, GoodDraft
  <2>3. CASE x.write.type # "edit"
    BY <1>5, <2>1, <2>3 DEF DraftsGood, GoodDraft
  <2> QED BY <2>2, <2>3
<1>8. CASE Editing
  BY <1>3, <1>6, <1>8 DEF Editing, Discard, Autosave, PersistDraft, OnScreen, phoneVars
<1>9. CASE Entering
  BY <1>3, <1>7, <1>9, DeleteFrame DEF Entering, Save, NextDraft, RetryBlocked, editorVars
<1>10. CASE Login \/ Logout \/ Crash
  BY <1>3, <1>10 DEF Login, Logout, Crash, phoneVars
<1> QED
  BY <1>3, <1>8, <1>9, <1>10, PartnerFrame, NetworkFrame, SyncingFrame DEF Next, vars, phoneVars, editorVars

\* A new edit states what was on screen, or confirmed when a refused edit was
\* reviewed; a new deletion what is in the cache.
LEMMA NewStated ==
  ASSUME IndInv, Lineage, ViewsGood, DraftsGood, [Next]_vars,
         NEW w \in issued', w \notin issued, w.type # "create"
  PROVE  w.txn \in TxnIds /\ w.base \in Nat /\ \E b \in w.held : States(w, b)
<1>1. w.txn \in TxnIds /\ w.base \in Nat
  BY IssuingStep DEF Issuing, Payloads
<1>2. ASSUME NEW o \in OpIds, NEW t \in TxnIds, Save(o, t)
      PROVE  \E b \in w.held : States(w, b)
  <2>1. /\ w = [op |-> o, txn |-> t, type |-> IF draft.original # {} THEN "edit" ELSE "create",
                base |-> IF draft.original # {} THEN CHOOSE r \in Base : TRUE ELSE 0,
                held |-> {x.by : x \in draft.original},
                seen |-> UNION {x.shown : x \in draft.original},
                review |-> draft.replaces # {}, draft |-> draft.n]
        /\ t \in Target
    BY <1>2 DEF Save
  <2>2. draft.original # {}
    BY <2>1
  <2>3. PICK x \in draft.original : TRUE
    BY <2>2
  <2>4. /\ draft.original = {x} /\ Good(x.txn, x.revision, x.by)
        /\ draft.replaces # {} \/ x.by \in x.shown
    BY <2>3 DEF DraftsGood, GoodDraft, AtMostOne
  <2>5. t = x.txn
    BY <2>1, <2>4 DEF Target
  <2>6. Base = {x.revision}
    BY <2>4 DEF Base
  <2>7. w.base = x.revision /\ x.by \in w.held /\ w.txn = x.txn /\ (w.review \/ x.by \in w.seen)
    BY <2>1, <2>3, <2>4, <2>5, <2>6
  <2> QED BY <2>4, <2>7 DEF States
<1>3. ASSUME NEW o \in OpIds, NEW t \in TxnIds, Delete(o, t)
      PROVE  \E b \in w.held : States(w, b)
  <2>1. /\ t \in DOMAIN cache.rows
        /\ w = [op |-> o, txn |-> t, type |-> "delete", base |-> cache.rows[t].revision,
                held |-> {cache.rows[t].by}, seen |-> {cache.rows[t].by},
                review |-> FALSE, draft |-> 0]
    BY <1>3 DEF Delete
  <2>2. Good(t, cache.rows[t].revision, cache.rows[t].by)
    BY <2>1 DEF ViewsGood, GoodRows
  <2> QED BY <2>1, <2>2 DEF States
<1>4. CASE issued' = issued
  BY <1>4
<1> QED
  BY <1>1, <1>2, <1>3, <1>4, PartnerFrame, EditingFrame, NetworkFrame, SyncingFrame, SessionFrame, ReviewFrame
  DEF Next, Entering, vars, history

LEMMA StatedStep ==
  ASSUME IndInv, Lineage, ViewsGood, DraftsGood, Stated, [Next]_vars
  PROVE  Stated'
<1> SUFFICES ASSUME NEW w \in issued', w.type # "create"
             PROVE  \E b \in w.held : States(w, b)'
  BY DEF Stated
<1>1. w \in issued => w.txn \in TxnIds /\ w.base \in Nat
  BY DEF IndInv, Issuing, Payloads
<1>2. w.txn \in TxnIds /\ w.base \in Nat /\ \E b \in w.held : States(w, b)
  BY <1>1, NewStated DEF Stated
<1> QED BY <1>2, GoodStays DEF States

----------------------------------------------------------------------------
(* Overwriting. *)

LEMMA SeenInit == Init => SeenInv
<1> SUFFICES ASSUME Init PROVE SeenInv
  OBVIOUS
<1>1. IndInv
  BY InitInv
<1>2. Present = {}
  BY DEF Init, Present, Gone
<1>3. Lineage /\ Told /\ Stated
  BY <1>2 DEF Init, Lineage, Creates, Replacing, Blank, Told, Acknowledged, Stated
<1>4. ViewsGood /\ DraftsGood
  BY DEF Init, ViewsGood, GoodRows, DraftsGood, GoodDraft, AtMostOne, Blank
<1> QED BY <1>1, <1>3, <1>4 DEF SeenInv

LEMMA SeenStep == ASSUME SeenInv, [Next]_vars PROVE SeenInv'
BY StepInv, LineageStep, ToldStep, ViewsGoodStep, DraftsGoodStep, StatedStep DEF SeenInv

\* An edit or a deletion from the phone takes effect only on the version of the entry
\* that was on screen, however late it arrives (Compose, Save, Delete, Merge,
\* Acceptable), unless a replaced create started the entry again.  The edit that
\* replaces a refused one takes effect only on the version confirmed when the user
\* reviewed it (Review), which was not on screen.
THEOREM WritesApplyToTheirBase == Spec => OverwritesOnlyItsBase
<1> DEFINE Step == \A w \in issued : w.type # "create" /\ ~Known(w) /\ Known(w)' =>
                     \/ server[w.txn].by \in w.seen
                     \/ w.review /\ server[w.txn].by \in w.held
                     \/ Reborn(w.txn)
<1>1. ASSUME SeenInv, [Next]_vars PROVE Step
  <2> SUFFICES ASSUME NEW w \in issued, w.type # "create", ~Known(w), Known(w)'
               PROVE  \/ server[w.txn].by \in w.seen
                      \/ w.review /\ server[w.txn].by \in w.held
                      \/ Reborn(w.txn)
    OBVIOUS
  <2>1. IndInv
    BY <1>1 DEF SeenInv
  <2>2. Apply(w)
    BY <1>1, <2>1, ServedNow
  <2>3. server[w.txn].revision = w.base /\ w.base > 0 /\ w.base \in Nat
    BY <2>1, <2>2, AppliedRow DEF IndInv, Issuing, Payloads
  <2>4. PICK b \in w.held : Good(w.txn, w.base, b) /\ (w.review \/ b \in w.seen)
    BY <1>1 DEF SeenInv, Stated, States
  <2> QED BY <2>3, <2>4 DEF Good
<1>2. Spec => []SeenInv
  BY SeenInit, SeenStep, PTL DEF Spec
<1>3. SeenInv /\ [Next]_vars => [Step]_vars
  BY <1>1
<1> QED BY <1>2, <1>3, PTL DEF Spec, OverwritesOnlyItsBase

----------------------------------------------------------------------------
(* Visible: an entry saved on the phone stays on screen as long as the     *)
(* server holds it, whichever snapshot is merged and whichever of its      *)
(* requests arrives late.                                                  *)

(* The inductive invariant of this part. *)

\* The entry the create made is still on the server.
On(w) == w.op \in server[w.txn].audit

\* The audit rows go with the entry.
Emptied == \A t \in TxnIds : server[t].revision = 0 => server[t].audit = {}

\* An entry whose deletion was confirmed has no create waiting, and once the deletion has
\* been served no create of it that was not replaced is left.
Buried ==
  \A d \in issued : d.type = "delete" =>
    /\ d.txn \in spent
    /\ \A x \in outbox : x.write.txn = d.txn => x.write.type # "create"
    /\ Known(d) => \A w \in Creates : w.txn = d.txn /\ w.op \notin withdrawn => ~On(w)

\* A create the server has, of those the user did not replace.
Kindled(w) == w \in Creates /\ w.op \notin withdrawn /\ On(w)

\* Nothing is sent while a snapshot waits to be merged, and one that holds every entry
\* holds those whose writes were acknowledged.
Snapshots ==
  /\ fresh # {} => call = {} /\ holder = "sync"
  /\ \A s \in fresh : s.count <= Cardinality(DOMAIN s.rows) =>
       \A w \in issued : Kindled(w) =>
         w.txn \in DOMAIN s.rows \/ \E x \in outbox : x.write = w /\ x.status # "acknowledged"

Visible ==
  \A w \in issued : Kindled(w) => w.txn \in DOMAIN cache.rows \/ \E x \in outbox : x.write = w

ShownInv == SeenInv /\ Emptied /\ Buried /\ Snapshots /\ Visible

----------------------------------------------------------------------------
(* What a create leaves on the server. *)

\* An audit row appears only when its write is served.
LEMMA AuditMoves ==
  ASSUME IndInv, Emptied, [Next]_vars, NEW t \in TxnIds
  PROVE  /\ server'[t].revision = 0 => server'[t].audit = {}
         /\ \A o \in server'[t].audit :
              o \in server[t].audit \/ (\E w \in issued : Apply(w) /\ w.op = o /\ w.txn = t)
<1>1. /\ DOMAIN server = TxnIds /\ \A u \in TxnIds : Row(server[u])
      /\ server[t].revision = 0 => server[t].audit = {}
  BY DEF IndInv, Serving, Emptied
<1>2. CASE server'[t] = server[t]
  BY <1>1, <1>2
<1>3. CASE Partner
  <2>1. PICK u \in TxnIds :
          \/ server' = [server EXCEPT ![u] = [Gone EXCEPT !.revision = 1, !.by = web', !.row = NextRow]]
          \/ u \in Present /\ server' = [server EXCEPT ![u].revision = @ + 1, ![u].by = web']
          \/ server' = [server EXCEPT ![u] = Gone]
    BY <1>3 DEF Partner
  <2>2. CASE t = u /\ server' = [server EXCEPT ![u] = [Gone EXCEPT !.revision = 1, !.by = web', !.row = NextRow]]
    <3>1. server'[t].audit = {}
      BY <1>1, <2>2 DEF Gone
    <3> QED BY <3>1
  <2>3. CASE t = u /\ u \in Present /\ server' = [server EXCEPT ![u].revision = @ + 1, ![u].by = web']
    <3>1. PICK e : e = [server[u] EXCEPT !.revision = @ + 1, !.by = web']
      OBVIOUS
    <3>2. server'[t] = e
      BY <1>1, <2>3, <3>1
    <3>3. e.revision = server[u].revision + 1 /\ e.audit = server[u].audit /\ server[u].revision \in Nat
      BY <1>1, <3>1 DEF Row
    <3>4. server'[t].revision # 0 /\ server'[t].audit = server[t].audit
      BY <2>3, <3>2, <3>3
    <3> QED BY <3>4
  <2>4. CASE t = u /\ server' = [server EXCEPT ![u] = Gone]
    BY <1>1, <2>4 DEF Gone
  <2>5. CASE t # u
    BY <1>1, <1>2, <2>1, <2>5
  <2> QED BY <2>1, <2>2, <2>3, <2>4, <2>5
<1>4. ASSUME NEW w \in issued, Apply(w)
      PROVE  /\ server'[t].revision = 0 => server'[t].audit = {}
             /\ \A o \in server'[t].audit : o \in server[t].audit \/ (w.op = o /\ w.txn = t)
  <2>1. CASE w.txn # t
    BY <1>1, <1>4, <2>1, AppliedRow
  <2>2. CASE w.txn = t
    <3>1. PICK e : e = Written(w)
      OBVIOUS
    <3>2. server'[t] = e
      BY <1>1, <1>4, <2>2, <3>1 DEF Apply
    <3>3. CASE w.type = "create"
      <4>1. e = [revision |-> 1, by |-> w.op, audit |-> {w.op}, row |-> NextRow, draft |-> w.draft]
        BY <3>1, <3>3 DEF Written
      <4>2. e.audit = {w.op} /\ e.revision = 1
        BY <4>1
      <4> QED BY <2>2, <3>2, <4>2
    <3>4. CASE w.type = "edit"
      <4>1. e = [server[t] EXCEPT !.revision = @ + 1, !.by = w.op, !.audit = @ \cup {w.op}]
        BY <2>2, <3>1, <3>4 DEF Written
      <4>2. /\ e.audit = server[t].audit \cup {w.op} /\ e.revision = server[t].revision + 1
            /\ server[t].revision \in Nat
        BY <1>1, <4>1 DEF Row
      <4> QED BY <2>2, <3>2, <4>2
    <3>5. CASE w.type = "delete"
      <4>1. e.audit = {}
        BY <3>1, <3>5 DEF Written, Gone
      <4> QED BY <3>2, <4>1
    <3>6. w.type \in {"create", "edit", "delete"}
      BY DEF IndInv, Issuing, Payloads
    <3> QED BY <3>3, <3>4, <3>5, <3>6
  <2> QED BY <2>1, <2>2
<1>5. CASE UNCHANGED <<server, receipts>>
  BY <1>2, <1>5
<1> QED BY <1>3, <1>4, <1>5, ServerMoves

\* A create was there before, or it is served now, and then it waits in the outbox.
LEMMA KindledBefore ==
  ASSUME IndInv, Emptied, [Next]_vars, NEW w \in issued', Kindled(w)'
  PROVE  /\ w \in Creates /\ w.op \notin withdrawn /\ w.txn \in TxnIds
         /\ Kindled(w) \/ (~Known(w) /\ \E x \in outbox : x.write = w /\ x.status # "acknowledged")
<1>1. /\ w \in issued' /\ w.type = "create" /\ w.op \notin withdrawn' /\ w.op \in server'[w.txn].audit
      /\ w.txn \in TxnIds
  BY IssuingStep DEF Kindled, Creates, On, Issuing, Payloads
<1>2. w.op \in Used
  <2>1. server[w.txn].audit \subseteq Used
    BY <1>1 DEF IndInv, Serving
  <2>2. w.op \in server[w.txn].audit \/ \E v \in issued : v.op = w.op
    BY <1>1, AuditMoves
  <2> QED BY <2>1, <2>2 DEF Used
<1>3. PICK v \in issued : v.op = w.op
  BY <1>2 DEF Used
<1>4. v = w
  BY <1>1, <1>3, UsedGrows, IssuingStep DEF Issuing
<1>5. w \in Creates /\ w.op \notin withdrawn
  BY <1>1, <1>3, <1>4, WithdrawnStep DEF Creates
<1>6. CASE w.op \in server[w.txn].audit
  <2>1. Kindled(w)
    BY <1>5, <1>6 DEF Kindled, On
  <2> QED BY <1>1, <1>5, <2>1
<1>7. ASSUME NEW u \in issued, Apply(u), u.op = w.op
      PROVE  ~Known(w) /\ \E x \in outbox : x.write = w /\ x.status # "acknowledged"
  <2>1. ~Known(w)
    BY <1>7 DEF Apply, Known
  <2>2. PICK x \in outbox : x.write = w
    BY <1>3, <1>4, <1>5, <2>1 DEF IndInv, NothingLost, Creates
  <2>3. x.status # "acknowledged"
    BY <2>1, <2>2 DEF IndInv, Queueing, Waiting
  <2> QED BY <2>1, <2>2, <2>3
<1> QED BY <1>1, <1>5, <1>6, <1>7, AuditMoves

LEMMA EmptiedStep == ASSUME IndInv, Emptied, [Next]_vars PROVE Emptied'
BY AuditMoves DEF Emptied

----------------------------------------------------------------------------
(* The outbox. *)

\* A row that does not wait any more was acknowledged and merged, or replaced; while no
\* request is under way, none becomes acknowledged.
LEMMA OutboxMoves ==
  ASSUME IndInv, [Next]_vars, NEW x \in outbox, x.write.op \notin withdrawn'
  PROVE  \/ \E y \in outbox' :
               y.write = x.write /\ (call = {} /\ x.status # "acknowledged" => y.status # "acknowledged")
         \/ Merge /\ x \in Acknowledged
<1>1. CASE x \in outbox'
  BY <1>1
<1>2. Waiting(x)
  BY DEF IndInv, Queueing
<1>3. ASSUME NEW o \in OpIds, NEW t \in TxnIds, Save(o, t) PROVE x \in outbox'
  <2>1. x.write.op \notin draft.replaces
    BY <1>3 DEF Save
  <2> QED BY <1>3, <2>1, SaveIssues
<1>4. CASE RetryBlocked
  <2>1. PICK z \in outbox : outbox' = (outbox \ {z}) \cup {[z EXCEPT !.status = "pending"]}
    BY <1>4 DEF RetryBlocked, Blocked
  <2>2. PICK y : y = [z EXCEPT !.status = "pending"]
    OBVIOUS
  <2>3. Waiting(z)
    BY DEF IndInv, Queueing
  <2>4. y.write = z.write /\ y.status = "pending"
    BY <2>2, <2>3 DEF Waiting
  <2>5. y \in outbox' /\ (x # z => x \in outbox')
    BY <2>1, <2>2
  <2> QED BY <2>4, <2>5
<1>5. CASE SyncReply
  <2>1. PICK c \in call :
          outbox' = {IF z.write = c.write /\ c.status # "unauthorized"
                     THEN [z EXCEPT !.status = Outcome(c.status), !.confirmed = c.revision] ELSE z : z \in outbox}
    BY <1>5 DEF SyncReply
  <2>2. PICK y : y = IF x.write = c.write /\ c.status # "unauthorized"
                     THEN [x EXCEPT !.status = Outcome(c.status), !.confirmed = c.revision] ELSE x
    OBVIOUS
  <2>3. y \in outbox'
    BY <2>1, <2>2
  <2>4. y.write = x.write
    <3>1. CASE y = x
      BY <3>1
    <3>2. CASE y = [x EXCEPT !.status = Outcome(c.status), !.confirmed = c.revision]
      BY <1>2, <3>2 DEF Waiting
    <3> QED BY <2>2, <3>1, <3>2
  <2>5. call # {}
    BY <2>1
  <2> QED BY <2>3, <2>4, <2>5
<1>6. CASE Merge
  BY <1>1, <1>6 DEF Merge
<1>7. CASE Entering
  BY <1>1, <1>3, <1>4, <1>7, DeleteFrame DEF Entering, Review
<1>8. CASE Syncing
  BY <1>1, <1>5, <1>6, <1>8
  DEF Syncing, SyncStart, SyncRefused, SyncSend, Download, SyncEnd, Deleted, phoneVars
<1> QED
  BY <1>1, <1>7, <1>8, PartnerFrame, EditingFrame, NetworkFrame, SessionFrame
  DEF Next, vars, phoneVars, phoneTables

\* A row for a create is one that waited, or of a create confirmed now.
LEMMA OutboxCreates ==
  ASSUME IndInv, [Next]_vars, NEW x \in outbox', x.write.type = "create"
  PROVE  (\E y \in outbox : y.write = x.write) \/ x.write \notin issued
<1>1. CASE outbox' \subseteq outbox
  BY <1>1
<1>2. ASSUME NEW o \in OpIds, NEW t \in TxnIds, Save(o, t)
      PROVE  x \in outbox \/ x.write \notin issued
  <2>1. PICK w \in Payloads :
          /\ IssuesNew(w)
          /\ outbox' = {y \in outbox : y.write.op \notin draft.replaces} \cup
                         {[write |-> w, at |-> Cardinality(issued), status |-> "pending", confirmed |-> 0]}
    BY <1>2, SaveIssues
  <2>2. w \notin issued
    BY <2>1 DEF IssuesNew, Used
  <2> QED BY <2>1, <2>2
<1>3. CASE RetryBlocked
  <2>1. PICK z \in outbox : outbox' = (outbox \ {z}) \cup {[z EXCEPT !.status = "pending"]}
    BY <1>3 DEF RetryBlocked, Blocked
  <2>2. [z EXCEPT !.status = "pending"].write = z.write
    BY DEF IndInv, Queueing, Waiting
  <2> QED BY <2>1, <2>2
<1>4. CASE SyncReply
  <2>1. PICK c \in call :
          outbox' = {IF z.write = c.write /\ c.status # "unauthorized"
                     THEN [z EXCEPT !.status = Outcome(c.status), !.confirmed = c.revision] ELSE z : z \in outbox}
    BY <1>4 DEF SyncReply
  <2>2. ASSUME NEW z \in outbox, NEW y, y = [z EXCEPT !.status = Outcome(c.status), !.confirmed = c.revision]
        PROVE  y.write = z.write
    BY <2>2 DEF IndInv, Queueing, Waiting
  <2> QED BY <2>1, <2>2
<1>5. CASE Entering
  BY <1>1, <1>2, <1>3, <1>5, DeleteFrame DEF Entering, Review
<1>6. CASE Syncing
  BY <1>1, <1>4, <1>6
  DEF Syncing, SyncStart, SyncRefused, SyncSend, Download, Merge, SyncEnd, Deleted, phoneVars
<1> QED
  BY <1>1, <1>5, <1>6, PartnerFrame, EditingFrame, NetworkFrame, SessionFrame
  DEF Next, vars, phoneVars, phoneTables

----------------------------------------------------------------------------
(* Deleted entries. *)

LEMMA NewBuried ==
  ASSUME SeenInv, [Next]_vars, NEW d \in issued', d \notin issued, d.type = "delete"
  PROVE  d.txn \in spent /\ outbox' = {} /\ ~Known(d)'
<1>1. ASSUME NEW o \in OpIds, NEW t \in TxnIds, Save(o, t) PROVE FALSE
  BY <1>1, SaveIssues DEF SeenInv, IssuesNew
<1>2. ASSUME NEW o \in OpIds, NEW t \in TxnIds, Delete(o, t)
      PROVE  d.txn \in spent /\ outbox' = {} /\ ~Known(d)'
  <2>1. d.txn = t /\ d.op \notin Used
    <3>1. issued' = issued \/ \E w : IssuesNew(w) /\ w.txn = t
      BY <1>2, DeleteIssues DEF SeenInv
    <3> QED BY <3>1 DEF IssuesNew
  <2>2. t \in DOMAIN cache.rows /\ outbox' = {}
    BY <1>2 DEF Delete
  <2>3. Settled(t)
    BY <2>2 DEF SeenInv, ViewsGood, GoodRows, Good
  <2>4. t \in spent
    BY <2>3 DEF Settled, Reborn, SeenInv, Lineage, Creates
  <2>5. receipts' = receipts /\ \A r \in receipts : r.op \in Used
    BY <1>2, DeleteFrame DEF serverVars, SeenInv, IndInv, Serving, Used
  <2> QED BY <2>1, <2>2, <2>4, <2>5 DEF Known
<1>3. CASE issued' = issued
  BY <1>3
<1> QED
  BY <1>1, <1>2, <1>3, PartnerFrame, EditingFrame, NetworkFrame, SyncingFrame, SessionFrame, ReviewFrame
  DEF Next, Entering, vars, history

LEMMA BuriedStep ==
  ASSUME SeenInv, Emptied, Buried, [Next]_vars
  PROVE  Buried'
<1>1. IndInv /\ Lineage
  BY DEF SeenInv
<1> SUFFICES ASSUME NEW d \in issued', d.type = "delete"
             PROVE  /\ d.txn \in spent'
                    /\ \A x \in outbox' : x.write.txn = d.txn => x.write.type # "create"
                    /\ Known(d)' => \A w \in Creates' : w.txn = d.txn /\ w.op \notin withdrawn' => ~On(w)'
  BY DEF Buried
<1>2. CASE d \in issued
  <2>1. /\ d.txn \in spent
        /\ \A x \in outbox : x.write.txn = d.txn => x.write.type # "create"
        /\ Known(d) => \A w \in Creates : w.txn = d.txn /\ w.op \notin withdrawn => ~On(w)
    BY <1>2 DEF Buried
  <2>2. d.txn \in spent'
    BY <2>1, SpentGrows
  <2>3. ASSUME NEW x \in outbox', x.write.txn = d.txn, x.write.type = "create" PROVE FALSE
    <3>1. x.write \notin issued
      BY <1>1, <2>1, <2>3, OutboxCreates
    <3>2. x.write \in issued'
      BY <1>1, QueueingStep DEF Queueing, Waiting
    <3>3. x.write \in Creates' /\ x.write \notin Creates
      BY <2>3, <3>1, <3>2 DEF Creates
    <3>4. PICK v \in Creates : v.txn = d.txn /\ \E y \in outbox : y.write = v
      BY <1>1, <2>1, <2>3, <3>3, CreateSaved
    <3> QED BY <2>1, <3>4 DEF Creates
  <2>4. ASSUME Known(d)', NEW w \in Creates', w.txn = d.txn, w.op \notin withdrawn', On(w)' PROVE FALSE
    <3>1. w \in issued' /\ Kindled(w)'
      BY <2>4 DEF Kindled, Creates
    <3>2. w \in Creates /\ w.type = "create" /\ w.op \notin withdrawn /\ w.txn \in TxnIds
      BY <1>1, <3>1, KindledBefore DEF Creates
    <3>3. Kindled(w)
      BY <1>1, <2>1, <2>4, <3>1, <3>2, KindledBefore
    <3>4. ~Known(d)
      BY <2>1, <2>4, <3>2, <3>3 DEF Kindled
    <3>5. Apply(d)
      BY <1>1, <1>2, <2>4, <3>4, ServedNow
    <3>6. server'[w.txn].revision = 0
      BY <1>1, <1>2, <2>4, <3>5, AppliedRow
    <3>7. server'[w.txn].audit = {}
      BY <1>1, <3>2, <3>6, AuditMoves
    <3> QED BY <2>4, <3>7 DEF On
  <2> QED BY <2>2, <2>3, <2>4
<1>3. CASE d \notin issued
  BY <1>3, NewBuried, SpentGrows
<1> QED BY <1>2, <1>3

----------------------------------------------------------------------------
(* Snapshots. *)

\* A snapshot that is no smaller than the server's table holds every entry.
LEMMA SnapshotWhole ==
  ASSUME Snapshot.count <= Cardinality(DOMAIN Snapshot.rows)
  PROVE  DOMAIN Snapshot.rows = Present
<1>1. InWindow \subseteq Present /\ DOMAIN Snapshot.rows = InWindow /\ Snapshot.count = Cardinality(Present)
  BY DEF InWindow, Snapshot
<1>2. IsFiniteSet(Present)
  BY MobileAssumption, FS_Subset DEF Present
<1>3. /\ Cardinality(InWindow) <= Cardinality(Present)
      /\ Cardinality(Present) = Cardinality(InWindow) => Present = InWindow
  BY <1>1, <1>2, FS_Subset
<1>4. Cardinality(Present) \in Nat /\ Cardinality(InWindow) \in Nat
  BY <1>1, <1>2, FS_Subset, FS_CardinalityType
<1> QED BY <1>1, <1>3, <1>4

LEMMA FreshMoves ==
  ASSUME IndInv, Snapshots, [Next]_vars
  PROVE  /\ fresh' # {} => call' = {} /\ holder' = "sync"
         /\ fresh' \subseteq fresh \/ (Download /\ fresh' = {Snapshot})
<1>1. fresh # {} => call = {} /\ holder = "sync"
  BY DEF Snapshots
<1>2. CASE Idle
  BY <1>2 DEF Idle
<1>3. CASE UNCHANGED <<call, fresh, holder>>
  BY <1>1, <1>3
<1>4. CASE Entering
  <2>1. ASSUME NEW o \in OpIds, NEW t \in TxnIds, Delete(o, t) PROVE fresh' = {}
    BY <1>1, <2>1 DEF Delete
  <2> QED BY <1>3, <1>4, <2>1, SaveFrame, ReviewFrame DEF Entering, exchange
<1>5. CASE Network
  BY <1>1, <1>5 DEF Network, Answer, AnswerWith, Disconnect, Straggler, syncVars
<1>6. CASE SyncStart \/ SyncRefused \/ SyncSend \/ SyncReply
  BY <1>1, <1>6 DEF SyncStart, SyncRefused, SyncSend, SyncReply, syncVars
<1>7. CASE Download
  BY <1>7 DEF Download
<1>8. CASE Merge \/ SyncEnd \/ Deleted \/ Crash
  BY <1>2, <1>8 DEF Merge, SyncEnd, Deleted, Crash
<1>9. CASE Login \/ Logout
  BY <1>3, <1>9 DEF Login, Logout
<1> QED
  BY <1>3, <1>4, <1>5, <1>6, <1>7, <1>8, <1>9, PartnerFrame, EditingFrame
  DEF Next, Syncing, vars, syncVars, exchange

LEMMA SnapshotsStep ==
  ASSUME IndInv, Emptied, Snapshots, [Next]_vars
  PROVE  Snapshots'
<1> SUFFICES ASSUME NEW s \in fresh', s.count <= Cardinality(DOMAIN s.rows), NEW w \in issued', Kindled(w)'
             PROVE  w.txn \in DOMAIN s.rows \/ \E x \in outbox' : x.write = w /\ x.status # "acknowledged"
  BY FreshMoves DEF Snapshots
<1>1. w.txn \in TxnIds /\ w \in issued /\ w.op \notin withdrawn'
  BY KindledBefore DEF Creates, Kindled
<1>2. call = {}
  BY FreshMoves DEF Snapshots, Download
<1>3. ASSUME NEW x \in outbox, x.write = w, x.status # "acknowledged"
      PROVE  \E y \in outbox' : y.write = w /\ y.status # "acknowledged"
  BY <1>1, <1>2, <1>3, OutboxMoves DEF Acknowledged
<1>4. CASE ~Kindled(w)
  BY <1>3, <1>4, KindledBefore
<1>5. CASE Kindled(w) /\ s \in fresh
  BY <1>1, <1>3, <1>5 DEF Snapshots
<1>6. CASE Kindled(w) /\ s = Snapshot
  <2>1. server[w.txn].revision # 0 /\ server[w.txn].revision \in Nat
    BY <1>1, <1>6 DEF Kindled, On, Emptied, IndInv, Serving, Row
  <2>2. w.txn \in Present
    BY <1>1, <2>1 DEF Present
  <2> QED BY <1>6, <2>2, SnapshotWhole
<1> QED BY <1>4, <1>5, <1>6, FreshMoves

----------------------------------------------------------------------------
(* What was saved stays on screen. *)

LEMMA VisibleStep ==
  ASSUME SeenInv, Emptied, Buried, Snapshots, Visible, [Next]_vars
  PROVE  Visible'
<1> SUFFICES ASSUME NEW w \in issued', Kindled(w)'
             PROVE  w.txn \in DOMAIN cache'.rows \/ \E x \in outbox' : x.write = w
  BY DEF Visible
<1>1. IndInv
  BY DEF SeenInv
<1>2. w \in issued /\ w \in Creates /\ w.op \notin withdrawn /\ w.op \notin withdrawn'
  BY <1>1, KindledBefore DEF Creates, Kindled
<1>3. ASSUME NEW x \in outbox, x.write = w
      PROVE  (\E y \in outbox' : y.write = w) \/ (Merge /\ x \in Acknowledged)
  BY <1>1, <1>2, <1>3, OutboxMoves
<1>4. CASE ~Kindled(w)
  BY <1>1, <1>3, <1>4, KindledBefore DEF Acknowledged
<1>5. CASE Kindled(w) /\ Merge
  <2>1. PICK s \in fresh : cache' = [rows |-> Merged(s), count |-> s.count]
    BY <1>5 DEF Merge
  <2>2. cache'.rows = Merged(s)
    BY <2>1
  <2>3. w.txn \in DOMAIN cache.rows \/ \E x \in outbox : x.write = w
    BY <1>2, <1>5 DEF Visible
  <2>4. CASE s.count > Cardinality(DOMAIN s.rows)
    <3>1. Merged(s) = Over(s.rows, Over(Confirmed, cache.rows))
      BY <2>4 DEF Merged
    <3>2. DOMAIN Confirmed = {x.write.txn : x \in Acknowledged}
      BY DEF Confirmed
    <3>3. \A t \in DOMAIN Confirmed \cup DOMAIN cache.rows : t \in DOMAIN Merged(s)
      BY <3>1 DEF Over
    <3>4. ASSUME NEW x \in Acknowledged, x.write = w PROVE w.txn \in DOMAIN Confirmed
      BY <3>2, <3>4
    <3> QED BY <1>3, <2>2, <2>3, <3>3, <3>4
  <2>5. CASE ~(s.count > Cardinality(DOMAIN s.rows))
    <3>1. Merged(s) = s.rows
      BY <2>5 DEF Merged
    <3>2. s.count <= Cardinality(DOMAIN s.rows)
      <4>1. s.count \in Nat /\ DOMAIN s.rows \subseteq TxnIds
        BY <1>1 DEF IndInv, Viewing, IsViewBy, IsView
      <4>2. Cardinality(DOMAIN s.rows) \in Nat
        BY <4>1, MobileAssumption, FS_Subset, FS_CardinalityType
      <4> QED BY <2>5, <4>1, <4>2
    <3>3. w.txn \in DOMAIN s.rows \/ \E x \in outbox : x.write = w /\ x.status # "acknowledged"
      BY <1>2, <1>5, <3>2 DEF Snapshots
    <3> QED BY <1>3, <2>2, <3>1, <3>3 DEF Acknowledged
  <2> QED BY <2>4, <2>5
<1>6. ASSUME ~Merge, Kindled(w), w.txn \in DOMAIN cache.rows => w.txn \in DOMAIN cache'.rows
      PROVE  w.txn \in DOMAIN cache'.rows \/ \E x \in outbox' : x.write = w
  BY <1>2, <1>3, <1>6 DEF Visible
<1>7. CASE ~Merge /\ Kindled(w) /\ Deleted
  <2>1. PICK c \in call :
          cache' = IF c.status = "ok"
                   THEN [rows |-> Without(cache.rows, c.write.txn), count |-> Max({0, cache.count - 1})]
                   ELSE cache
    BY <1>7 DEF Deleted
  <2>2. CASE c.status = "ok"
    <3>1. c.write \in issued /\ Known(c.write) /\ c.write.txn \in TxnIds
      BY <1>1, <2>2 DEF IndInv, Calling, Requested, IsCall, Issuing, Payloads
    <3>2. c.write.type = "delete"
      BY <1>1, <1>7, <3>1 DEF Deleted, IndInv, Keeping
    <3>3. w.txn # c.write.txn
      BY <1>2, <1>7, <3>1, <3>2 DEF Buried, Kindled
    <3>4. cache'.rows = Without(cache.rows, c.write.txn)
      BY <2>1, <2>2
    <3> QED BY <1>6, <1>7, <3>3, <3>4 DEF Without
  <2>3. CASE c.status # "ok"
    BY <1>6, <1>7, <2>1, <2>3
  <2> QED BY <2>2, <2>3
<1>8. CASE ~Merge /\ Kindled(w) /\ ~Deleted
  <2>1. cache' = cache
    <3>1. CASE Syncing
      BY <1>8, <3>1 DEF Syncing, SyncStart, SyncRefused, SyncSend, SyncReply, Download, SyncEnd, phoneVars
    <3>2. CASE Entering
      BY <3>2, SaveFrame, DeleteFrame, ReviewFrame DEF Entering
    <3> QED
      BY <3>1, <3>2, PartnerFrame, EditingFrame, NetworkFrame, SessionFrame
      DEF Next, vars, phoneVars, phoneTables
  <2> QED BY <1>6, <1>8, <2>1
<1> QED BY <1>4, <1>5, <1>7, <1>8

LEMMA ShownInit == Init => ShownInv
<1> SUFFICES ASSUME Init PROVE ShownInv
  OBVIOUS
<1>1. Emptied
  BY DEF Init, Emptied, Gone
<1>2. Buried /\ Snapshots /\ Visible
  BY DEF Init, Buried, Snapshots, Visible
<1> QED BY <1>1, <1>2, SeenInit DEF ShownInv

LEMMA ShownStep == ASSUME ShownInv, [Next]_vars PROVE ShownInv'
<1>1. IndInv
  BY DEF ShownInv, SeenInv
<1> QED BY <1>1, SeenStep, EmptiedStep, BuriedStep, SnapshotsStep, VisibleStep DEF ShownInv

\* An entry saved on the phone stays on screen while the server holds it, between the
\* acknowledgement and the merge, after a merge of a snapshot that may be older than it,
\* and whatever arrives late (Shown, Download, Merged, Merge, Delete, Deleted, Straggler).
THEOREM SavedEntriesStayVisible == Spec => []SavedStaysVisible
<1>1. ShownInv => SavedStaysVisible
  <2> SUFFICES ASSUME ShownInv, NEW w \in issued, w.type = "create", w.op \notin withdrawn,
                      w.op \in server[w.txn].audit
               PROVE  w.txn \in DOMAIN Shown
    BY DEF SavedStaysVisible
  <2>1. w.txn \in DOMAIN cache.rows \/ \E x \in outbox : x.write = w
    BY DEF ShownInv, Visible, Kindled, Creates, On
  <2>2. \A x \in outbox : ~Covers(x) => x.write.txn \in DOMAIN cache.rows
    BY DEF Covers
  <2>3. DOMAIN Shown = {x.write.txn : x \in {y \in outbox : Covers(y)}} \cup DOMAIN cache.rows
    BY DEF Shown, Over
  <2> QED BY <2>1, <2>2, <2>3
<1>2. Spec => []ShownInv
  BY ShownInit, ShownStep, PTL DEF Spec
<1> QED BY <1>1, <1>2, PTL
====
