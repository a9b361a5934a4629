--------------------------- MODULE MobileSyncProofs ---------------------------
(***************************************************************************)
(* Proofs about MobileSync, for any ids, window and bounds: nothing the    *)
(* user confirmed is lost, the outbox holds one write per entry, and an    *)
(* entry that was composed once never becomes two on the server.           *)
(***************************************************************************)
EXTENDS MobileSync, FiniteSetTheorems, TLAPS

----------------------------------------------------------------------------
(* The inductive invariant. *)

Authors == OpIds \cup 0..MaxWeb
AtMostOne(S) == \A x, y \in S : x = y
Creates == {w \in issued : w.type = "create"}

\* What the user confirmed: operation ids are not reused, an edit or a deletion states
\* a revision, and the creates of one composed entry are of one transaction id.
Issuing ==
  /\ issued \subseteq Payloads /\ IsFiniteSet(issued)
  /\ \A v, w \in issued : v.op = w.op => v = w
  /\ \A w \in issued : w.type # "create" => w.base > 0
  /\ \A v, w \in Creates : v.draft = w.draft /\ w.draft # 0 => v.txn = w.txn
  /\ withdrawn \subseteq Used /\ spent \subseteq TxnIds

\* An entry the server holds for a composed draft was created by a write of that draft.
Row(e) ==
  /\ e = [revision |-> e.revision, by |-> e.by, audit |-> e.audit, row |-> e.row, draft |-> e.draft]
  /\ e.revision \in Nat /\ e.by \in Authors
Serving ==
  /\ DOMAIN server = TxnIds /\ server = [t \in TxnIds |-> server[t]]
  /\ \A t \in TxnIds :
       /\ Row(server[t]) /\ server[t].audit \subseteq Used
       /\ server[t].draft # 0 => \E w \in Creates : w.txn = t /\ w.draft = server[t].draft
  /\ \A r \in receipts :
       r.revision \in Nat /\ \E w \in issued : w.op = r.op /\ (w.type # "delete" => r.revision > 0)
  /\ late \subseteq issued /\ web \in 0..MaxWeb

\* A row of the outbox; what it says is acknowledged, the server has done.
Waiting(x) ==
  /\ x = [write |-> x.write, at |-> x.at, status |-> x.status, confirmed |-> x.confirmed]
  /\ x.write \in issued /\ x.write.type # "delete" /\ x.at \in Nat /\ x.confirmed \in Nat
  /\ x.status \in {"pending", "blocked", "acknowledged"}
  /\ x.status = "acknowledged" => x.confirmed > 0 /\ Known(x.write)
Queueing == (\A x \in outbox : Waiting(x)) /\ OneWritePerEntry

\* The request under way; what it was answered, the server has done.
Requested(c) ==
  /\ c = [write |-> c.write, status |-> c.status, revision |-> c.revision]
  /\ IsCall(c)
  /\ c.status = "ok" => Known(c.write) /\ (c.write.type # "delete" => c.revision > 0)
Calling ==
  /\ \A c \in call : Requested(c)
  /\ holder \in {"none", "sync", "delete"} /\ own \in BOOLEAN /\ todo \subseteq Used

\* One deletion is kept per entry, and a deletion under way is the kept one.
Keeping ==
  /\ deletion = [t \in TxnIds |-> deletion[t]]
  /\ \A t \in TxnIds :
       AtMostOne(deletion[t]) /\ deletion[t] \subseteq {w \in issued : w.type = "delete" /\ w.txn = t}
  /\ holder = "delete" => \A c \in call : deletion[c.write.txn] = {c.write}

\* Entries as the phone sees them.
IsViewBy(f) == IsView(f) /\ \A t \in DOMAIN f : f[t].by \in Authors
Viewing ==
  /\ cache = [rows |-> cache.rows, count |-> cache.count]
  /\ IsViewBy(cache.rows) /\ cache.count \in Nat
  /\ \A s \in fresh : IsViewBy(s.rows) /\ s.count \in Nat

\* A draft; if an entry was composed in it and saved before, it names the entry's id.
Drawn(d) ==
  /\ IsDraft(d) /\ d.n <= composed
  /\ \A x \in d.original : x.by \in Authors
  /\ d.original = {} /\ d.n # 0 => \A w \in Creates : w.draft = d.n => d.txn = {w.txn}
Drafting ==
  /\ Drawn(stored) /\ Drawn(draft) /\ (\A d \in autosave : IsDraft(d))
  /\ composed \in Drafts /\ (\A w \in issued : w.draft <= composed)
  /\ session \in {"active", "expired", "none"} /\ alone \in BOOLEAN

IndInv ==
  Issuing /\ Serving /\ Queueing /\ Calling /\ Keeping /\ Viewing /\ Drafting /\ NothingLost

----------------------------------------------------------------------------
(* What each part of the system leaves alone. *)

phoneTables == <<outbox, cache, deletion>>
exchange == <<call, fresh, holder, todo>>

LEMMA PartnerFrame ==
  ASSUME Partner
  PROVE  UNCHANGED <<receipts, late, phoneTables, exchange, own, issued, withdrawn,
                     draft, stored, autosave, composed, session>>
BY DEF Partner, phoneVars, editorVars, syncVars, phoneTables, exchange

LEMMA EditingFrame ==
  ASSUME Editing
  PROVE  UNCHANGED <<serverVars, phoneTables, exchange, own, history, session>>
BY DEF Editing, Compose, Discard, Autosave, PersistDraft, phoneVars, syncVars, history, phoneTables, exchange

LEMMA SaveFrame ==
  ASSUME NEW o \in OpIds, NEW t \in TxnIds, Save(o, t)
  PROVE  UNCHANGED <<serverVars, cache, deletion, exchange, own, session, composed>>
BY DEF Save, syncVars, exchange

LEMMA DeleteFrame ==
  ASSUME NEW o \in OpIds, NEW t \in TxnIds, Delete(o, t)
  PROVE  UNCHANGED <<serverVars, outbox, cache, fresh, todo, session, spent, withdrawn,
                     draft, stored, autosave, composed>>
BY DEF Delete, editorVars

LEMMA ReviewFrame ==
  ASSUME Review \/ RetryBlocked
  PROVE  UNCHANGED <<serverVars, cache, deletion, exchange, own, history, session, autosave, composed>>
BY DEF Review, RetryBlocked, editorVars, syncVars, exchange

LEMMA NetworkFrame ==
  ASSUME Network
  PROVE  UNCHANGED <<web, phoneVars, editorVars, holder, own, todo, fresh, history>>
BY DEF Network, Answer, AnswerWith, Disconnect, Straggler, syncVars

LEMMA SyncingFrame ==
  ASSUME Syncing
  PROVE  UNCHANGED <<serverVars, stored, editorVars, issued, spent>>
BY DEF Syncing, SyncStart, SyncRefused, SyncSend, SyncReply, Download, Merge, SyncEnd, Deleted,
       phoneVars, history

LEMMA SessionFrame ==
  ASSUME Login \/ Logout \/ Crash
  PROVE  UNCHANGED <<server, receipts, web, phoneTables, history, composed>>
BY DEF Login, Logout, Crash, phoneVars, phoneTables, serverVars, history

----------------------------------------------------------------------------
(* What the user confirmed. *)

\* A step confirms at most one write, under an operation id that was never used.
IssuesNew(w) ==
  /\ w \in Payloads /\ w.op \notin Used /\ (w.type # "create" => w.base > 0)
  /\ issued' = issued \cup {w}

LEMMA ShownViews ==
  ASSUME IndInv
  PROVE  IsViewBy(Shown)
<1> DEFINE covering == {x \in outbox : Covers(x)}
           rows == [t \in {x.write.txn : x \in covering} |->
                      Optimistic(CHOOSE x \in covering : x.write.txn = t)]
<1>1. ASSUME NEW x \in covering
      PROVE  x.write.txn \in TxnIds /\ Optimistic(x).revision \in Nat \ {0} /\ Optimistic(x).by \in Authors
  BY DEF IndInv, Queueing, Waiting, Issuing, Payloads, Optimistic, Authors
<1>2. IsViewBy(rows)
  <2>1. ASSUME NEW t \in DOMAIN rows
        PROVE  t \in TxnIds /\ rows[t].revision \in Nat \ {0} /\ rows[t].by \in Authors
    <3>1. \E x \in covering : x.write.txn = t
      OBVIOUS
    <3>2. (CHOOSE x \in covering : x.write.txn = t) \in covering
      BY <3>1
    <3> QED BY <1>1, <3>1, <3>2
  <2> QED BY <2>1 DEF IsViewBy, IsView
<1>3. Shown = Over(rows, cache.rows)
  BY DEF Shown
<1> HIDE DEF rows
<1> QED BY <1>2, <1>3 DEF Over, IsViewBy, IsView, IndInv, Viewing

LEMMA SaveIssues ==
  ASSUME IndInv, NEW o \in OpIds, NEW t \in TxnIds, Save(o, t)
  PROVE  \E w \in Payloads :
           /\ IssuesNew(w) /\ w.txn = t /\ w.type \in {"create", "edit"} /\ w.draft = draft.n
           /\ (w.type = "create" <=> draft.original = {})
           /\ outbox' = {x \in outbox : x.write.op \notin draft.replaces} \cup
                          {[write |-> w, at |-> Cardinality(issued), status |-> "pending", confirmed |-> 0]}
<1> DEFINE edit == draft.original # {}
           w == [op |-> o, txn |-> t, type |-> IF edit THEN "edit" ELSE "create",
                 base |-> IF edit THEN CHOOSE r \in Base : TRUE ELSE 0,
                 held |-> {x.by : x \in draft.original},
                 seen |-> UNION {x.shown : x \in draft.original},
                 review |-> draft.replaces # {}, draft |-> draft.n]
<1>1. Drawn(draft) /\ IsDraft(draft)
  BY DEF IndInv, Drafting, Drawn
<1>2. ASSUME edit PROVE (CHOOSE r \in Base : TRUE) \in Nat \ {0}
  <2>1. Base # {} /\ Base \subseteq Nat \ {0}
    BY <1>1, <1>2 DEF Base, IsDraft
  <2> QED BY <2>1
<1>3. /\ w.held \subseteq OpIds \cup 0..MaxWeb /\ w.seen \subseteq OpIds \cup 0..MaxWeb
      /\ w.review \in BOOLEAN /\ w.draft \in Drafts
  BY <1>1 DEF Drawn, IsDraft, Authors
<1>4. w.base \in Nat /\ (w.type # "create" => w.base > 0)
  BY <1>2
<1>5. w \in Payloads
  BY <1>3, <1>4 DEF Payloads
<1>6. /\ issued' = issued \cup {w} /\ o \notin Used
      /\ outbox' = {x \in outbox : x.write.op \notin draft.replaces} \cup
                     {[write |-> w, at |-> Cardinality(issued), status |-> "pending", confirmed |-> 0]}
  BY DEF Save
<1>7. IssuesNew(w)
  BY <1>4, <1>5, <1>6 DEF IssuesNew
<1> WITNESS w \in Payloads
<1> QED BY <1>6, <1>7

LEMMA DeleteIssues ==
  ASSUME IndInv, NEW o \in OpIds, NEW t \in TxnIds, Delete(o, t)
  PROVE  /\ holder' = "delete" /\ own' = TRUE
         /\ \/ /\ deletion[t] = {}
               /\ \E w \in Payloads :
                    /\ IssuesNew(w) /\ w.txn = t /\ w.type = "delete" /\ w.draft = 0
                    /\ deletion' = [deletion EXCEPT ![t] = {w}] /\ call' = {Request(w)}
            \/ /\ UNCHANGED <<issued, deletion>>
               /\ \E w \in deletion[t] : call' = {Request(w)}
<1>1. CASE Kept(t) # {}
  BY <1>1 DEF Delete, Kept
<1>2. CASE Kept(t) = {}
  <2> DEFINE w == [op |-> o, txn |-> t, type |-> "delete", base |-> cache.rows[t].revision,
                   held |-> {cache.rows[t].by}, seen |-> {cache.rows[t].by},
                   review |-> FALSE, draft |-> 0]
  <2>1. /\ o \notin Used /\ t \in DOMAIN cache.rows
        /\ deletion' = [deletion EXCEPT ![t] = {w}] /\ issued' = issued \cup {w} /\ call' = {Request(w)}
    BY <1>2 DEF Delete
  <2>2. cache.rows[t].revision \in Nat \ {0} /\ cache.rows[t].by \in OpIds \cup 0..MaxWeb
    BY <2>1 DEF IndInv, Viewing, IsViewBy, IsView, Authors
  <2>3. w \in Payloads
    BY <2>2, MobileAssumption DEF Payloads, Drafts
  <2>4. IssuesNew(w)
    <3>1. w.op = o /\ w.base > 0
      BY <2>2
    <3> HIDE DEF w
    <3> QED BY <2>1, <2>3, <3>1 DEF IssuesNew
  <2> HIDE DEF w
  <2>5. w.txn = t /\ w.type = "delete" /\ w.draft = 0
    BY DEF w
  <2> QED BY <1>2, <2>1, <2>3, <2>4, <2>5 DEF Delete, Kept
<1> QED BY <1>1, <1>2

\* Nothing that was confirmed is forgotten.
LEMMA IssuedGrows ==
  ASSUME IndInv, [Next]_vars
  PROVE  issued' = issued \/ \E w : IssuesNew(w)
<1>1. ASSUME NEW o \in OpIds, NEW t \in TxnIds, Save(o, t) \/ Delete(o, t)
      PROVE  issued' = issued \/ \E w : IssuesNew(w)
  BY <1>1, SaveIssues, DeleteIssues
<1>2. CASE Entering
  BY <1>1, <1>2, ReviewFrame DEF Entering, history
<1> QED
  BY <1>2, PartnerFrame, EditingFrame, NetworkFrame, SyncingFrame, SessionFrame DEF Next, vars, history

LEMMA WithdrawnStep ==
  ASSUME IndInv, [Next]_vars
  PROVE  withdrawn \subseteq withdrawn' /\ withdrawn' \subseteq Used' /\ spent' \subseteq TxnIds
<1>1. withdrawn \subseteq Used /\ Used \subseteq Used' /\ spent \subseteq TxnIds
  BY IssuedGrows DEF IndInv, Issuing, Used, IssuesNew
<1>2. CASE UNCHANGED <<withdrawn, spent>>
  BY <1>1, <1>2
<1>3. ASSUME NEW o \in OpIds, NEW t \in TxnIds, Save(o, t)
      PROVE  withdrawn \subseteq withdrawn' /\ withdrawn' \subseteq Used' /\ spent' \subseteq TxnIds
  <2>1. draft.replaces \subseteq {x.write.op : x \in outbox}
    BY <1>3 DEF Save, Blocked
  <2>2. \A x \in outbox : x.write.op \in Used
    BY DEF IndInv, Queueing, Waiting, Used
  <2> QED BY <1>1, <1>3, <2>1, <2>2 DEF Save
<1>4. CASE Deleted
  <2>1. \A c \in call : c.write.op \in Used
    BY DEF IndInv, Calling, Requested, IsCall, Used
  <2>2. withdrawn' = withdrawn \/ \E c \in call : withdrawn' = withdrawn \cup {c.write.op}
    BY <1>4 DEF Deleted
  <2>3. spent' = spent
    BY <1>4 DEF Deleted
  <2> QED BY <1>1, <2>1, <2>2, <2>3
<1>5. CASE Partner
  <2>1. spent' = spent \/ \E t \in TxnIds : spent' = spent \cup {t}
    BY <1>5 DEF Partner
  <2> QED BY <1>1, <1>5, <2>1, PartnerFrame
<1>6. CASE Syncing
  BY <1>2, <1>4, <1>6
  DEF Syncing, SyncStart, SyncRefused, SyncSend, SyncReply, Download, Merge, SyncEnd, history
<1>7. CASE Entering
  BY <1>2, <1>3, <1>7, DeleteFrame, ReviewFrame DEF Entering, history
<1> QED
  BY <1>2, <1>5, <1>6, <1>7, EditingFrame, NetworkFrame, SessionFrame DEF Next, vars, history

\* A new create of a composed entry is of the id the earlier ones are of.
LEMMA CreatesAgree ==
  ASSUME IndInv, [Next]_vars
  PROVE  \A v, w \in Creates' : v.draft = w.draft /\ w.draft # 0 => v.txn = w.txn
<1>1. \A v, w \in Creates : v.draft = w.draft /\ w.draft # 0 => v.txn = w.txn
  BY DEF IndInv, Issuing
<1>2. CASE issued' = issued
  BY <1>1, <1>2 DEF Creates
<1>3. ASSUME NEW o \in OpIds, NEW t \in TxnIds, Delete(o, t)
      PROVE  Creates' = Creates
  BY <1>3, DeleteIssues DEF Creates, IssuesNew
<1>4. ASSUME NEW o \in OpIds, NEW t \in TxnIds, Save(o, t)
      PROVE  \A v, w \in Creates' : v.draft = w.draft /\ w.draft # 0 => v.txn = w.txn
  <2>1. PICK w \in Payloads :
           /\ IssuesNew(w) /\ w.txn = t /\ w.draft = draft.n
           /\ (w.type = "create" <=> draft.original = {})
    BY <1>4, SaveIssues
  <2>2. CASE draft.original # {}
    BY <1>1, <2>1, <2>2 DEF Creates, IssuesNew
  <2>3. CASE draft.original = {}
    <3>1. Creates' = Creates \cup {w}
      BY <2>1, <2>3 DEF Creates, IssuesNew
    <3>2. \A v \in Creates : v.draft = draft.n /\ draft.n # 0 => draft.txn = {v.txn}
      BY <2>3 DEF IndInv, Drafting, Drawn
    <3>3. draft.txn # {} => t \in draft.txn
      BY <1>4, <2>3 DEF Save, Target
    <3> QED BY <1>1, <2>1, <3>1, <3>2, <3>3
  <2> QED BY <2>2, <2>3
<1>5. CASE Entering
  BY <1>1, <1>2, <1>3, <1>4, <1>5, ReviewFrame DEF Entering, history
<1> QED
  BY <1>2, <1>5, PartnerFrame, EditingFrame, NetworkFrame, SyncingFrame, SessionFrame DEF Next, vars, history

LEMMA IssuingStep == ASSUME IndInv, [Next]_vars PROVE Issuing'
<1>1. Issuing
  BY DEF IndInv
<1>2. CASE issued' = issued
  BY <1>1, <1>2, CreatesAgree, WithdrawnStep DEF Issuing
<1>3. ASSUME NEW w, IssuesNew(w) PROVE Issuing'
  <2>1. IsFiniteSet(issued')
    BY <1>1, <1>3, FS_AddElement DEF Issuing, IssuesNew
  <2>2. \A u, v \in issued' : u.op = v.op => u = v
    BY <1>1, <1>3 DEF Issuing, IssuesNew, Used
  <2>3. issued' \subseteq Payloads /\ \A v \in issued' : v.type # "create" => v.base > 0
    BY <1>1, <1>3 DEF Issuing, IssuesNew
  <2> QED BY <2>1, <2>2, <2>3, CreatesAgree, WithdrawnStep DEF Issuing
<1> QED BY <1>2, <1>3, IssuedGrows

----------------------------------------------------------------------------
(* The server. *)

\* What is known, used or confirmed stays so.
LEMMA UsedGrows ==
  ASSUME IndInv, [Next]_vars
  PROVE  issued \subseteq issued' /\ Used \subseteq Used' /\ Creates \subseteq Creates'
BY IssuedGrows DEF IssuesNew, Used, Creates

\* The tables and the receipts as they should be, for the writes issued so far.
Tabled(table) ==
  /\ DOMAIN table = TxnIds /\ table = [t \in TxnIds |-> table[t]]
  /\ \A t \in TxnIds :
       /\ Row(table[t]) /\ table[t].audit \subseteq Used
       /\ table[t].draft # 0 => \E w \in Creates : w.txn = t /\ w.draft = table[t].draft
Receipted(rs) ==
  \A r \in rs :
    r.revision \in Nat /\ \E w \in issued : w.op = r.op /\ (w.type # "delete" => r.revision > 0)

\* A write of this phone that is served leaves its receipt, and one that is not a
\* deletion is answered by a positive revision.
LEMMA WriteServed ==
  ASSUME IndInv, NEW w \in issued, NEW status, Serve(w, status)
  PROVE  /\ Tabled(server') /\ Receipted(receipts') /\ receipts \subseteq receipts'
         /\ status = "ok" =>
              /\ \E r \in receipts' : r.op = w.op
              /\ AnswerTo(w) \in Nat /\ (w.type # "delete" => AnswerTo(w) > 0)
<1>1. Tabled(server) /\ Receipted(receipts) /\ w \in Payloads /\ (w.type # "create" => w.base > 0)
  BY DEF IndInv, Serving, Issuing, Tabled, Receipted
<1>2. \A v \in issued : v.op = w.op => v = w
  BY DEF IndInv, Issuing
<1>3. CASE UNCHANGED <<server, receipts>> /\ status # "ok"
  BY <1>1, <1>3
<1>4. CASE status = "ok" /\ Known(w) /\ UNCHANGED <<server, receipts>>
  <2>1. (CHOOSE r \in receipts : r.op = w.op) \in {r \in receipts : r.op = w.op}
    BY <1>4 DEF Known
  <2>2. Answered(w) \in Nat /\ (w.type # "delete" => Answered(w) > 0)
    BY <1>1, <1>2, <2>1 DEF Answered, Receipted
  <2> QED BY <1>1, <1>4, <2>1, <2>2 DEF AnswerTo
<1>5. CASE Apply(w)
  <2> DEFINE e == Written(w)
             Fits == /\ Row(e) /\ e.audit \subseteq Used
                     /\ e.draft # 0 => \E v \in Creates : v.txn = w.txn /\ v.draft = e.draft
                     /\ w.type # "delete" => e.revision > 0
  <2>1. w.txn \in TxnIds /\ w.op \in OpIds /\ w.type \in {"create", "edit", "delete"} /\ w.draft \in Drafts
    BY <1>1 DEF Payloads
  <2>2. /\ Row(server[w.txn]) /\ server[w.txn].audit \subseteq Used
        /\ server[w.txn].draft # 0 => \E v \in Creates : v.txn = w.txn /\ v.draft = server[w.txn].draft
    BY <1>1, <2>1 DEF Tabled
  <2>3. ASSUME w.type = "create" PROVE Fits
    <3>1. e = [revision |-> 1, by |-> w.op, audit |-> {w.op}, row |-> NextRow, draft |-> w.draft]
      BY <2>3 DEF Written
    <3>2. Row(e) /\ e.audit = {w.op} /\ e.draft = w.draft /\ e.revision = 1
      BY <2>1, <3>1 DEF Row, Authors
    <3> HIDE DEF e
    <3> QED BY <2>3, <3>2 DEF Used, Creates
  <2>4. ASSUME w.type = "edit" PROVE Fits
    <3>1. e = [server[w.txn] EXCEPT !.revision = @ + 1, !.by = w.op, !.audit = @ \cup {w.op}]
      BY <2>4 DEF Written
    <3>2. /\ e.revision = server[w.txn].revision + 1 /\ e.by = w.op /\ e.draft = server[w.txn].draft
          /\ e.audit = server[w.txn].audit \cup {w.op}
          /\ e = [revision |-> e.revision, by |-> e.by, audit |-> e.audit, row |-> e.row, draft |-> e.draft]
      BY <2>2, <3>1 DEF Row
    <3> HIDE DEF e
    <3>3. Row(e) /\ e.revision > 0
      BY <2>1, <2>2, <3>2 DEF Row, Authors
    <3> QED BY <2>2, <3>2, <3>3 DEF Used
  <2>5. ASSUME w.type = "delete" PROVE Fits
    <3>1. e = Gone
      BY <2>5 DEF Written
    <3>2. Row(Gone) /\ Gone.audit = {} /\ Gone.draft = 0
      BY MobileAssumption DEF Row, Gone, Authors
    <3> HIDE DEF e
    <3> QED BY <2>5, <3>1, <3>2
  <2>6. Fits
    BY <2>1, <2>3, <2>4, <2>5
  <2>7. /\ server' = [server EXCEPT ![w.txn] = e] /\ ~Known(w)
        /\ receipts' = receipts \cup {[op |-> w.op, revision |-> e.revision]}
    BY <1>5 DEF Apply
  <2>8. AnswerTo(w) = e.revision /\ e.revision \in Nat
    BY <2>6, <2>7 DEF AnswerTo, Row
  <2> HIDE DEF e
  <2>9. Tabled(server')
    BY <1>1, <2>1, <2>6, <2>7 DEF Tabled
  <2>10. Receipted(receipts')
    BY <1>1, <2>6, <2>7, <2>8 DEF Receipted
  <2>11. receipts \subseteq receipts' /\ \E r \in receipts' : r.op = w.op
    <3> DEFINE receipt == [op |-> w.op, revision |-> e.revision]
    <3>1. receipt.op = w.op
      OBVIOUS
    <3>2. receipts' = receipts \cup {receipt}
      BY <2>7
    <3> HIDE DEF receipt
    <3> QED BY <3>1, <3>2
  <2> QED BY <2>6, <2>8, <2>9, <2>10, <2>11
<1> QED BY <1>3, <1>4, <1>5 DEF Serve

LEMMA PartnerServed ==
  ASSUME IndInv, Partner
  PROVE  Tabled(server') /\ web' \in 0..MaxWeb
<1>1. Tabled(server) /\ web' \in 0..MaxWeb /\ web' \in Authors
  BY MobileAssumption DEF IndInv, Serving, Tabled, Partner, Authors
<1>2. PICK b \in Authors : b = web'
  BY <1>1
<1>3. PICK t \in TxnIds :
        \/ server' = [server EXCEPT ![t] = [Gone EXCEPT !.revision = 1, !.by = b, !.row = NextRow]]
        \/ server' = [server EXCEPT ![t].revision = @ + 1, ![t].by = b]
        \/ server' = [server EXCEPT ![t] = Gone]
  BY <1>2 DEF Partner
<1>4. Row(Gone) /\ Gone.audit = {} /\ Gone.draft = 0
  BY MobileAssumption DEF Row, Gone, Authors
<1>5. PICK e : /\ server' = [server EXCEPT ![t] = e] /\ Row(e)
               /\ e.audit \subseteq server[t].audit /\ (e.draft # 0 => e.draft = server[t].draft)
  <2>1. ASSUME server' = [server EXCEPT ![t] = [Gone EXCEPT !.revision = 1, !.by = b, !.row = NextRow]]
        PROVE  \E e : /\ server' = [server EXCEPT ![t] = e] /\ Row(e) /\ e.audit = {} /\ e.draft = 0
    <3>1. PICK e : e = [Gone EXCEPT !.revision = 1, !.by = b, !.row = NextRow]
      OBVIOUS
    <3>2. e = [revision |-> 1, by |-> b, audit |-> {}, row |-> NextRow, draft |-> 0]
      BY <3>1 DEF Gone
    <3>3. Row(e) /\ e.audit = {} /\ e.draft = 0
      BY <3>2 DEF Row
    <3> QED BY <2>1, <3>1, <3>3
  <2>2. ASSUME server' = [server EXCEPT ![t].revision = @ + 1, ![t].by = b]
        PROVE  \E e : /\ server' = [server EXCEPT ![t] = e] /\ Row(e)
                      /\ e.audit = server[t].audit /\ e.draft = server[t].draft
    <3>1. PICK e : e = [server[t] EXCEPT !.revision = @ + 1, !.by = b]
      OBVIOUS
    <3>2. Row(server[t])
      BY <1>1 DEF Tabled
    <3>3. e = [revision |-> server[t].revision + 1, by |-> b, audit |-> server[t].audit,
               row |-> server[t].row, draft |-> server[t].draft]
      BY <3>1, <3>2 DEF Row
    <3>4. Row(e) /\ e.audit = server[t].audit /\ e.draft = server[t].draft
      BY <3>2, <3>3 DEF Row
    <3>5. server' = [server EXCEPT ![t] = e]
      BY <1>1, <2>2, <3>1 DEF Tabled
    <3> QED BY <3>4, <3>5
  <2> QED BY <1>3, <1>4, <2>1, <2>2
<1> QED BY <1>1, <1>5 DEF Tabled

LEMMA LateStep ==
  ASSUME IndInv, [Next]_vars
  PROVE  late' \subseteq issued'
<1>1. late \subseteq issued /\ issued \subseteq issued' /\ \A c \in call : c.write \in issued
  BY UsedGrows DEF IndInv, Serving, Calling, Requested, IsCall
<1>2. \A c \in call : \A l \in GivenUp(c) : l \subseteq issued
  BY <1>1 DEF GivenUp
<1>3. CASE Network
  BY <1>1, <1>2, <1>3 DEF Network, Answer, AnswerWith, Disconnect, Straggler
<1>4. CASE Login \/ Logout \/ Crash
  BY <1>1, <1>2, <1>4 DEF Login, Logout, Crash, serverVars
<1>5. CASE Entering
  BY <1>1, <1>5, SaveFrame, DeleteFrame, ReviewFrame DEF Entering, serverVars
<1> QED
  BY <1>1, <1>3, <1>4, <1>5, PartnerFrame, EditingFrame, SyncingFrame DEF Next, vars, serverVars

\* No receipt goes, and what the tables hold is of writes that were issued.
LEMMA ServerStep ==
  ASSUME IndInv, [Next]_vars
  PROVE  /\ Tabled(server') /\ Receipted(receipts') /\ receipts \subseteq receipts'
         /\ web' \in 0..MaxWeb
<1>1. Tabled(server) /\ Receipted(receipts) /\ web \in 0..MaxWeb /\ late \subseteq issued
  BY DEF IndInv, Serving, Tabled, Receipted
<1>2. CASE UNCHANGED <<server, receipts, web>>
  BY <1>1, <1>2
<1>3. CASE Partner
  BY <1>1, <1>3, PartnerServed, PartnerFrame
<1>4. CASE Straggler
  BY <1>1, <1>4, WriteServed DEF Straggler
<1>5. CASE Answer
  <2>1. PICK c \in call : \E status : Serve(c.write, status)
    BY <1>5 DEF Answer, AnswerWith
  <2>2. c.write \in issued
    BY DEF IndInv, Calling, Requested, IsCall
  <2>3. web' = web
    BY <1>5 DEF Answer, AnswerWith
  <2> QED BY <1>1, <2>1, <2>2, <2>3, WriteServed
<1>6. CASE Disconnect
  BY <1>2, <1>6 DEF Disconnect
<1>7. CASE Entering
  BY <1>2, <1>7, SaveFrame, DeleteFrame, ReviewFrame DEF Entering, serverVars
<1> QED
  BY <1>2, <1>3, <1>4, <1>5, <1>6, <1>7, EditingFrame, SyncingFrame, SessionFrame
  DEF Next, Network, vars, serverVars

LEMMA ServingStep == ASSUME IndInv, [Next]_vars PROVE Serving'
<1>1. Tabled(server') /\ Receipted(receipts') /\ web' \in 0..MaxWeb /\ late' \subseteq issued'
  BY ServerStep, LateStep
<1>2. issued \subseteq issued' /\ Used \subseteq Used' /\ Creates \subseteq Creates'
  BY UsedGrows
<1>3. ASSUME NEW t \in TxnIds
      PROVE  /\ Row(server'[t]) /\ server'[t].audit \subseteq Used'
             /\ server'[t].draft # 0 => \E w \in Creates' : w.txn = t /\ w.draft = server'[t].draft
  BY <1>1, <1>2 DEF Tabled
<1>4. ASSUME NEW r \in receipts'
      PROVE  r.revision \in Nat /\ \E w \in issued' : w.op = r.op /\ (w.type # "delete" => r.revision > 0)
  BY <1>1, <1>2 DEF Receipted
<1>5. DOMAIN server' = TxnIds /\ server' = [t \in TxnIds |-> server'[t]]
  BY <1>1 DEF Tabled
<1> QED BY <1>1, <1>3, <1>4, <1>5 DEF Serving, Row

\* What the server has done stays done.
LEMMA KnownStays ==
  ASSUME IndInv, [Next]_vars, NEW w, Known(w)
  PROVE  Known(w)'
BY ServerStep DEF Known

----------------------------------------------------------------------------
(* The outbox. *)

\* A row that waits, whatever becomes of the rest.
LEMMA WaitingStays ==
  ASSUME IndInv, [Next]_vars, NEW x, Waiting(x)
  PROVE  Waiting(x)'
<1>1. x.write \in issued' /\ (Known(x.write) => Known(x.write)')
  BY UsedGrows, KnownStays DEF Waiting
<1> QED BY <1>1 DEF Waiting

\* What a row becomes keeps its write.
LEMMA WaitingChanged ==
  ASSUME NEW x, Waiting(x), NEW status \in {"pending", "blocked", "acknowledged"}, NEW n \in Nat,
         NEW y, y = [write |-> x.write, at |-> x.at, status |-> status, confirmed |-> n],
         status = "acknowledged" => n > 0 /\ Known(x.write)
  PROVE  Waiting(y) /\ y.write = x.write
<1>1. /\ y.write = x.write /\ y.at = x.at /\ y.status = status /\ y.confirmed = n
      /\ y = [write |-> y.write, at |-> y.at, status |-> y.status, confirmed |-> y.confirmed]
  OBVIOUS
<1> QED BY <1>1 DEF Waiting

LEMMA SaveQueues ==
  ASSUME IndInv, [Next]_vars, NEW o \in OpIds, NEW t \in TxnIds, Save(o, t)
  PROVE  Queueing'
<1>1. PICK w \in Payloads :
        /\ IssuesNew(w) /\ w.txn = t /\ w.type \in {"create", "edit"}
        /\ outbox' = {x \in outbox : x.write.op \notin draft.replaces} \cup
                       {[write |-> w, at |-> Cardinality(issued), status |-> "pending", confirmed |-> 0]}
  BY SaveIssues
<1>2. PICK new : new = [write |-> w, at |-> Cardinality(issued), status |-> "pending", confirmed |-> 0]
  OBVIOUS
<1>3. new.write = w /\ w \in issued'
  BY <1>1, <1>2 DEF IssuesNew
<1>4. Waiting(new)'
  <2>1. Cardinality(issued) \in Nat
    BY FS_CardinalityType DEF IndInv, Issuing
  <2> QED BY <1>1, <1>2, <1>3, <2>1 DEF Waiting
<1>5. \A x \in outbox : Waiting(x)'
  BY WaitingStays DEF IndInv, Queueing
<1>6. outbox' = {x \in outbox : x.write.op \notin draft.replaces} \cup {new}
  BY <1>1, <1>2
<1>7. \A x \in outbox : x.write.txn = t => x.write.op \in draft.replaces
  BY DEF Save, Queued
<1>8. OneWritePerEntry'
  BY <1>1, <1>3, <1>6, <1>7 DEF OneWritePerEntry, IndInv, Queueing
<1> QED BY <1>4, <1>5, <1>6, <1>8 DEF Queueing

LEMMA ReplyQueues ==
  ASSUME IndInv, [Next]_vars, SyncReply
  PROVE  Queueing'
<1>1. PICK c \in call :
        outbox' = {IF x.write = c.write /\ c.status # "unauthorized"
                   THEN [x EXCEPT !.status = Outcome(c.status), !.confirmed = c.revision] ELSE x : x \in outbox}
  BY DEF SyncReply
<1> DEFINE After(x) == IF x.write = c.write /\ c.status # "unauthorized"
                       THEN [x EXCEPT !.status = Outcome(c.status), !.confirmed = c.revision] ELSE x
<1>2. /\ Requested(c) /\ c.revision \in Nat
      /\ c.status = "ok" => Known(c.write) /\ (c.write.type # "delete" => c.revision > 0)
  BY DEF IndInv, Calling, Requested, IsCall
<1>3. ASSUME NEW x \in outbox PROVE Waiting(After(x)) /\ After(x).write = x.write
  <2>1. Waiting(x) /\ x.write.type # "delete"
    BY DEF IndInv, Queueing, Waiting
  <2>2. CASE x.write = c.write /\ c.status # "unauthorized"
    <3>1. /\ Outcome(c.status) \in {"pending", "blocked", "acknowledged"}
          /\ Outcome(c.status) = "acknowledged" => c.status = "ok"
      BY DEF Outcome
    <3>2. PICK y : y = [x EXCEPT !.status = Outcome(c.status), !.confirmed = c.revision]
      OBVIOUS
    <3>3. Outcome(c.status) = "acknowledged" => c.revision > 0 /\ Known(x.write)
      BY <1>2, <2>1, <2>2, <3>1
    <3>4. y = [write |-> x.write, at |-> x.at, status |-> Outcome(c.status), confirmed |-> c.revision]
      BY <2>1, <3>2 DEF Waiting
    <3>5. Waiting(y) /\ y.write = x.write
      BY <1>2, <2>1, <3>1, <3>3, <3>4, WaitingChanged
    <3> QED BY <2>2, <3>2, <3>5
  <2>3. CASE ~(x.write = c.write /\ c.status # "unauthorized")
    BY <2>1, <2>3
  <2> QED BY <2>2, <2>3
<1>4. outbox' = {After(x) : x \in outbox}
  BY <1>1
<1> HIDE DEF After
<1>5. \A y \in outbox' : Waiting(y)'
  BY <1>3, <1>4, WaitingStays
<1>6. OneWritePerEntry'
  BY <1>3, <1>4 DEF OneWritePerEntry, IndInv, Queueing
<1> QED BY <1>5, <1>6 DEF Queueing

LEMMA QueueingStep == ASSUME IndInv, [Next]_vars PROVE Queueing'
<1>1. \A x \in outbox : Waiting(x)'
  BY WaitingStays DEF IndInv, Queueing
<1>2. CASE outbox' \subseteq outbox
  BY <1>1, <1>2 DEF IndInv, Queueing, OneWritePerEntry
<1>3. CASE RetryBlocked
  <2>1. PICK x \in outbox : outbox' = (outbox \ {x}) \cup {[x EXCEPT !.status = "pending"]}
    BY <1>3 DEF RetryBlocked, Blocked
  <2>2. PICK y : y = [x EXCEPT !.status = "pending"]
    OBVIOUS
  <2>3. Waiting(x)
    BY DEF IndInv, Queueing
  <2>4. y = [write |-> x.write, at |-> x.at, status |-> "pending", confirmed |-> x.confirmed]
    BY <2>2, <2>3 DEF Waiting
  <2>5. Waiting(y) /\ y.write = x.write
    BY <2>3, <2>4 DEF Waiting
  <2>6. Waiting(y)'
    BY <2>5, WaitingStays
  <2>7. outbox' = (outbox \ {x}) \cup {y}
    BY <2>1, <2>2
  <2> QED BY <1>1, <2>5, <2>6, <2>7 DEF IndInv, Queueing, OneWritePerEntry
<1>4. CASE Entering
  BY <1>2, <1>3, <1>4, SaveQueues, DeleteFrame DEF Entering, Review
<1>5. CASE Merge
  BY <1>2, <1>5 DEF Merge
<1>6. CASE Syncing
  BY <1>2, <1>5, <1>6, ReplyQueues
  DEF Syncing, SyncStart, SyncRefused, SyncSend, Download, SyncEnd, Deleted, phoneVars
<1> QED
  BY <1>2, <1>4, <1>6, PartnerFrame, EditingFrame, NetworkFrame, SessionFrame
  DEF Next, vars, phoneVars, phoneTables

----------------------------------------------------------------------------
(* The request under way and the deletions kept. *)

LEMMA CallingStep == ASSUME IndInv, [Next]_vars PROVE Calling'
<1>1. /\ \A c \in call : Requested(c)
      /\ holder \in {"none", "sync", "delete"} /\ own \in BOOLEAN /\ todo \subseteq Used
  BY DEF IndInv, Calling
<1>2. ASSUME NEW c, Requested(c) PROVE Requested(c)'
  <2>1. Known(c.write) => Known(c.write)'
    BY KnownStays
  <2> QED BY <1>2, <2>1, UsedGrows DEF Requested, IsCall
<1>3. ASSUME NEW w \in issued' PROVE Requested(Request(w))'
  BY <1>3 DEF Requested, Request, IsCall
<1>4. ASSUME \A c \in call' : Requested(c)', holder' \in {"none", "sync", "delete"},
             own' \in BOOLEAN, todo' \subseteq Used
      PROVE  Calling'
  BY <1>4, UsedGrows DEF Calling
<1>5. CASE UNCHANGED <<call, holder, todo>> /\ own' \in BOOLEAN
  BY <1>1, <1>2, <1>4, <1>5
<1>6. CASE Idle
  BY <1>4, <1>6 DEF Idle
<1>7. ASSUME NEW o \in OpIds, NEW t \in TxnIds, Delete(o, t) PROVE Calling'
  <2>1. PICK w \in issued' : call' = {Request(w)}
    BY <1>7, DeleteIssues DEF IssuesNew, IndInv, Keeping
  <2>2. holder' = "delete" /\ own' = TRUE /\ todo' = todo
    BY <1>7, DeleteIssues, DeleteFrame
  <2> QED BY <1>1, <1>3, <1>4, <2>1, <2>2
<1>8. CASE Entering
  BY <1>1, <1>5, <1>7, <1>8, SaveFrame, ReviewFrame DEF Entering, exchange
<1>9. CASE Answer
  <2>1. PICK c \in call, status \in {"ok", "refused", "unavailable", "unauthorized"} :
          /\ Serve(c.write, status)
          /\ call' = {[c EXCEPT !.status = status, !.revision = IF status = "ok" THEN AnswerTo(c.write) ELSE 0]}
    BY <1>9 DEF Answer, AnswerWith
  <2> DEFINE n == IF status = "ok" THEN AnswerTo(c.write) ELSE 0
  <2>2. Requested(c) /\ c.write \in issued
    BY <1>1 DEF Requested, IsCall
  <2>3. /\ status = "ok" => Known(c.write)' /\ (c.write.type # "delete" => n > 0)
        /\ n \in Nat
    BY <2>1, <2>2, WriteServed DEF Known
  <2>4. PICK d : d = [c EXCEPT !.status = status, !.revision = n]
    OBVIOUS
  <2> HIDE DEF n
  <2>5. d = [write |-> c.write, status |-> status, revision |-> n]
    BY <2>2, <2>4 DEF Requested
  <2>6. Requested(d)'
    BY <2>2, <2>3, <2>5, UsedGrows DEF Requested, IsCall
  <2>7. call' = {d}
    BY <2>1, <2>4 DEF n
  <2> QED BY <1>1, <1>4, <1>9, <2>6, <2>7, NetworkFrame DEF Network
<1>10. CASE Disconnect
  <2>0. PICK c \in call : call' = {[c EXCEPT !.status = "lost", !.revision = 0]}
    BY <1>10 DEF Disconnect
  <2>1. PICK d : call' = {d} /\ d = [c EXCEPT !.status = "lost", !.revision = 0]
    BY <2>0
  <2>2. Requested(c)
    BY <1>1
  <2>3. d = [write |-> c.write, status |-> "lost", revision |-> 0]
    BY <2>1, <2>2 DEF Requested
  <2>4. Requested(d)
    BY <2>2, <2>3 DEF Requested, IsCall
  <2> QED BY <1>1, <1>2, <1>4, <1>10, <2>1, <2>4, NetworkFrame DEF Network
<1>11. CASE Straggler
  BY <1>1, <1>5, <1>11, NetworkFrame DEF Network, Straggler, syncVars
<1>12. CASE SyncStart
  <2>1. Loaded \subseteq Used
    BY DEF Loaded, Pending, IndInv, Queueing, Waiting, Used
  <2> QED BY <1>1, <1>2, <1>4, <1>12, <2>1 DEF SyncStart
<1>13. CASE SyncSend
  <2>1. PICK x \in outbox : call' = {Request(x.write)}
    BY <1>13 DEF SyncSend
  <2>2. x.write \in issued'
    BY UsedGrows DEF IndInv, Queueing, Waiting
  <2> QED BY <1>1, <1>3, <1>4, <1>13, <2>1, <2>2 DEF SyncSend
<1>14. CASE SyncReply
  <2>1. call' = {} /\ todo' \subseteq todo /\ own' \in BOOLEAN /\ holder' = holder
    BY <1>1, <1>14 DEF SyncReply
  <2> QED BY <1>1, <1>4, <2>1
<1>15. CASE SyncRefused \/ Download
  BY <1>1, <1>5, <1>15 DEF SyncRefused, Download, syncVars
<1>16. CASE Merge \/ SyncEnd \/ Deleted \/ Crash
  BY <1>6, <1>16 DEF Merge, SyncEnd, Deleted, Crash
<1>17. CASE Login \/ Logout
  BY <1>5, <1>17 DEF Login, Logout
<1> QED
  BY <1>1, <1>5, <1>8, <1>9, <1>10, <1>11, <1>12, <1>13, <1>14, <1>15, <1>16, <1>17, PartnerFrame, EditingFrame
  DEF Next, Network, Syncing, vars, syncVars, exchange

LEMMA KeepingStep == ASSUME IndInv, [Next]_vars PROVE Keeping'
<1>1. /\ deletion = [t \in TxnIds |-> deletion[t]]
      /\ \A t \in TxnIds :
           AtMostOne(deletion[t]) /\ deletion[t] \subseteq {w \in issued : w.type = "delete" /\ w.txn = t}
      /\ holder = "delete" => \A c \in call : deletion[c.write.txn] = {c.write}
  BY DEF IndInv, Keeping
<1>2. \A t \in TxnIds : deletion[t] \subseteq {w \in issued' : w.type = "delete" /\ w.txn = t}
  BY <1>1, UsedGrows
<1>3. ASSUME deletion' = deletion, holder' = holder,
             \A d \in call' : \E c \in call : d.write = c.write
      PROVE  Keeping'
  BY <1>1, <1>2, <1>3 DEF Keeping
<1>4. ASSUME deletion' = deletion, holder' # "delete" PROVE Keeping'
  BY <1>1, <1>2, <1>4 DEF Keeping
<1>5. ASSUME NEW o \in OpIds, NEW t \in TxnIds, Delete(o, t) PROVE Keeping'
  <2>1. CASE issued' = issued /\ deletion' = deletion /\ \E w \in deletion[t] : call' = {Request(w)}
    BY <1>1, <1>2, <2>1 DEF Keeping, AtMostOne, Request
  <2>2. ASSUME NEW w \in Payloads, IssuesNew(w), w.txn = t, w.type = "delete",
               deletion' = [deletion EXCEPT ![t] = {w}], call' = {Request(w)}
        PROVE  Keeping'
    <3>1. w \in issued' /\ \A c \in call' : c.write = w
      BY <2>2 DEF IssuesNew, Request
    <3>2. deletion'[t] = {w} /\ \A u \in TxnIds \ {t} : deletion'[u] = deletion[u]
      BY <1>1, <2>2
    <3>3. deletion' = [u \in TxnIds |-> deletion'[u]]
      BY <1>1, <2>2
    <3>4. ASSUME NEW u \in TxnIds
          PROVE  AtMostOne(deletion'[u]) /\ deletion'[u] \subseteq {v \in issued' : v.type = "delete" /\ v.txn = u}
      BY <1>1, <1>2, <2>2, <3>1, <3>2 DEF AtMostOne
    <3> QED BY <2>2, <3>1, <3>2, <3>3, <3>4 DEF Keeping
  <2> QED BY <1>5, <2>1, <2>2, DeleteIssues
<1>6. CASE Deleted
  <2>1. PICK c \in call :
          deletion' = IF c.status \in {"ok", "refused"} THEN [deletion EXCEPT ![c.write.txn] = {}] ELSE deletion
    BY <1>6 DEF Deleted
  <2>2. holder' = "none"
    BY <1>6 DEF Deleted, Idle
  <2>3. CASE deletion' = deletion
    BY <1>4, <2>2, <2>3
  <2>4. CASE deletion' = [deletion EXCEPT ![c.write.txn] = {}]
    <3>1. /\ deletion' = [t \in TxnIds |-> deletion'[t]]
          /\ \A t \in TxnIds : deletion'[t] = {} \/ deletion'[t] = deletion[t]
      BY <1>1, <2>4
    <3>2. ASSUME NEW t \in TxnIds
          PROVE  AtMostOne(deletion'[t]) /\ deletion'[t] \subseteq {w \in issued' : w.type = "delete" /\ w.txn = t}
      BY <1>1, <1>2, <3>1 DEF AtMostOne
    <3> QED BY <2>2, <3>1, <3>2 DEF Keeping
  <2> QED BY <2>1, <2>3, <2>4
<1>7. CASE Entering
  BY <1>3, <1>5, <1>7, SaveFrame, ReviewFrame DEF Entering, exchange
<1>8. CASE Network
  <2>1. \A d \in call' : \E c \in call : d.write = c.write
    <3>1. CASE Straggler
      BY <3>1 DEF Straggler, syncVars
    <3>2. CASE Answer \/ Disconnect
      <4>0. \E c \in call : \E status, n, d :
              call' = {d} /\ d = [c EXCEPT !.status = status, !.revision = n]
        BY <3>2 DEF Answer, AnswerWith, Disconnect
      <4>1. PICK c \in call : \E status, n, d :
              call' = {d} /\ d = [c EXCEPT !.status = status, !.revision = n]
        BY <4>0
      <4>2. Requested(c)
        BY DEF IndInv, Calling
      <4> QED BY <4>1, <4>2 DEF Requested
    <3> QED BY <1>8, <3>1, <3>2 DEF Network
  <2> QED BY <1>3, <1>8, <2>1, NetworkFrame DEF phoneVars
<1>9. CASE SyncStart \/ SyncSend \/ SyncReply \/ Download \/ Merge \/ SyncEnd \/ Crash
  BY <1>4, <1>9 DEF SyncStart, SyncSend, SyncReply, Download, Merge, SyncEnd, Crash, Idle, phoneVars
<1>10. CASE SyncRefused
  BY <1>3, <1>10 DEF SyncRefused, syncVars
<1>11. CASE Login \/ Logout
  BY <1>3, <1>11 DEF Login, Logout
<1> QED
  BY <1>3, <1>6, <1>7, <1>8, <1>9, <1>10, <1>11, PartnerFrame, EditingFrame
  DEF Next, Syncing, vars, phoneVars, phoneTables, syncVars, exchange

----------------------------------------------------------------------------
(* What the phone shows, and its drafts. *)

LEMMA CountType == Cardinality(Present) \in Nat
BY MobileAssumption, FS_Subset, FS_CardinalityType DEF Present

LEMMA SnapshotViews ==
  ASSUME IndInv
  PROVE  IsViewBy(Snapshot.rows) /\ Snapshot.count \in Nat
<1>1. InWindow \subseteq Present /\ Present \subseteq TxnIds
  BY DEF InWindow, Present
<1>2. ASSUME NEW t \in Present PROVE View(t).revision \in Nat \ {0} /\ View(t).by \in Authors
  BY <1>2 DEF Present, View, IndInv, Serving, Row
<1>3. Snapshot.rows = [t \in InWindow |-> View(t)] /\ Snapshot.count = Cardinality(Present)
  BY DEF Snapshot
<1> QED BY <1>1, <1>2, <1>3, CountType DEF IsViewBy, IsView

LEMMA OverViews ==
  ASSUME NEW f, NEW g, IsViewBy(f), IsViewBy(g)
  PROVE  IsViewBy(Over(f, g))
BY DEF Over, IsViewBy, IsView

LEMMA MergedViews ==
  ASSUME IndInv, NEW s \in fresh
  PROVE  IsViewBy(Merged(s))
<1>1. IsViewBy(s.rows) /\ IsViewBy(cache.rows)
  BY DEF IndInv, Viewing
<1>2. IsViewBy(Confirmed)
  <2>1. ASSUME NEW t \in {x.write.txn : x \in Acknowledged}
        PROVE  t \in TxnIds /\ Confirmed[t].revision \in Nat \ {0} /\ Confirmed[t].by \in Authors
    <3> DEFINE y == CHOOSE x \in Acknowledged : x.write.txn = t
    <3>1. y \in Acknowledged /\ y.write.txn = t
      OBVIOUS
    <3>2. y.write.txn \in TxnIds /\ y.confirmed \in Nat \ {0} /\ y.write.op \in Authors
      BY <3>1 DEF Acknowledged, IndInv, Queueing, Waiting, Issuing, Payloads, Authors
    <3>3. Confirmed[t] = [revision |-> y.confirmed, by |-> y.write.op]
      BY DEF Confirmed
    <3> HIDE DEF y
    <3> QED BY <3>1, <3>2, <3>3
  <2>2. DOMAIN Confirmed = {x.write.txn : x \in Acknowledged}
    BY DEF Confirmed
  <2> QED BY <2>1, <2>2 DEF IsViewBy, IsView
<1> QED BY <1>1, <1>2, OverViews DEF Merged

LEMMA MaxPositive == ASSUME NEW n \in Int PROVE Max({0, n}) \in Nat
<1>1. \E x \in {0, n} : \A y \in {0, n} : x >= y
  <2>1. CASE n > 0
    BY <2>1
  <2>2. CASE n <= 0
    BY <2>2
  <2> QED BY <2>1, <2>2
<1>2. Max({0, n}) \in {0, n} /\ \A y \in {0, n} : Max({0, n}) >= y
  BY <1>1 DEF Max
<1> QED BY <1>2

LEMMA ViewingStep == ASSUME IndInv, [Next]_vars PROVE Viewing'
<1>1. /\ cache = [rows |-> cache.rows, count |-> cache.count]
      /\ IsViewBy(cache.rows) /\ cache.count \in Nat
      /\ \A s \in fresh : IsViewBy(s.rows) /\ s.count \in Nat
  BY DEF IndInv, Viewing
<1>2. CASE cache' = cache /\ fresh' \subseteq fresh
  BY <1>1, <1>2 DEF Viewing, IsViewBy, IsView
<1>3. ASSUME NEW rows, NEW n \in Nat, IsViewBy(rows), cache' = [rows |-> rows, count |-> n], fresh' = {}
      PROVE  Viewing'
  BY <1>3 DEF Viewing, IsViewBy, IsView
<1>4. CASE Download
  <2>1. cache' = cache /\ fresh' = {Snapshot}
    BY <1>4 DEF Download, phoneVars
  <2> QED BY <1>1, <2>1, SnapshotViews DEF Viewing, IsViewBy, IsView
<1>5. CASE Merge
  <2>1. PICK s \in fresh : cache' = [rows |-> Merged(s), count |-> s.count]
    BY <1>5 DEF Merge
  <2>2. fresh' = {}
    BY <1>5 DEF Merge, Idle
  <2> QED BY <1>1, <1>3, <2>1, <2>2, MergedViews
<1>6. CASE Deleted
  <2>1. PICK c \in call :
          cache' = IF c.status = "ok"
                   THEN [rows |-> Without(cache.rows, c.write.txn), count |-> Max({0, cache.count - 1})]
                   ELSE cache
    BY <1>6 DEF Deleted
  <2>2. fresh' = {}
    BY <1>6 DEF Deleted, Idle
  <2>3. IsViewBy(Without(cache.rows, c.write.txn))
    BY <1>1 DEF Without, IsViewBy, IsView
  <2>4. Max({0, cache.count - 1}) \in Nat
    BY <1>1, MaxPositive
  <2>5. CASE c.status = "ok"
    BY <1>3, <2>1, <2>2, <2>3, <2>4, <2>5
  <2> QED BY <1>2, <2>1, <2>2, <2>5
<1>7. CASE SyncStart \/ SyncRefused \/ SyncSend \/ SyncReply \/ SyncEnd
  BY <1>2, <1>7 DEF SyncStart, SyncRefused, SyncSend, SyncReply, SyncEnd, Idle, phoneVars, syncVars
<1>8. CASE Login \/ Logout \/ Crash
  BY <1>2, <1>8 DEF Login, Logout, Crash, Idle, phoneVars
<1>9. CASE Entering
  BY <1>2, <1>9, SaveFrame, DeleteFrame, ReviewFrame DEF Entering, exchange
<1> QED
  BY <1>2, <1>4, <1>5, <1>6, <1>7, <1>8, <1>9, PartnerFrame, EditingFrame, NetworkFrame
  DEF Next, Syncing, vars, phoneVars, phoneTables, syncVars, exchange

\* A draft stays as it should be while no create is confirmed.
LEMMA DrawnStays ==
  ASSUME NEW d, Drawn(d), composed' >= composed, composed' \in Int, composed \in Int,
         Creates' = Creates
  PROVE  Drawn(d)'
BY DEF Drawn, IsDraft, Drafts

LEMMA BlankDrawn == ASSUME IndInv PROVE Drawn(Blank)
BY MobileAssumption DEF IndInv, Drafting, Drawn, IsDraft, Blank, Drafts

\* A new draft is of an entry that was never composed before, or of an existing one.
LEMMA ComposedDrawn ==
  ASSUME IndInv, Compose
  PROVE  Drawn(draft)' /\ autosave' = {draft'} /\ composed' \in Drafts /\ composed' = composed + 1
<1>1. composed' = composed + 1 /\ composed' \in Drafts /\ composed \in Drafts /\ autosave' = {draft'}
  <2>1. composed < MaxDrafts /\ composed' = composed + 1 /\ composed \in Drafts
    BY DEF Compose, IndInv, Drafting
  <2>2. composed' \in Drafts
    BY <2>1, MobileAssumption DEF Drafts
  <2>3. autosave' = {draft'}
    BY DEF Compose, OnScreen
  <2> QED BY <2>1, <2>2, <2>3
<1>2. Creates' = Creates /\ \A w \in Creates : w.draft <= composed
  BY DEF Compose, history, Creates, IndInv, Drafting
<1>3. \A w \in Creates : w.draft \in Drafts
  BY DEF Creates, IndInv, Issuing, Payloads
<1>4. CASE draft' = [Blank EXCEPT !.n = composed']
  <2>1. draft' = [n |-> composed', original |-> {}, replaces |-> {}, txn |-> {}]
    BY <1>4 DEF Blank
  <2>2. \A w \in Creates : w.draft # composed'
    BY <1>1, <1>2, <1>3 DEF Drafts
  <2> QED BY <1>1, <1>2, <2>1, <2>2 DEF Drawn, IsDraft, Drafts
<1>5. ASSUME NEW t \in TxnIds, NEW v, v.revision \in Nat \ {0}, v.by \in Authors,
             draft' = [Blank EXCEPT !.n = composed', !.original = {Seen(t, v)}]
      PROVE  Drawn(draft)'
  <2>1. PICK x : x = Seen(t, v)
    OBVIOUS
  <2>2. x.txn = t /\ x.revision \in Nat \ {0} /\ x.by \in Authors /\ x.shown \subseteq Authors
    BY <1>5, <2>1 DEF Seen, Held
  <2>3. draft' = [n |-> composed', original |-> {x}, replaces |-> {}, txn |-> {}]
    BY <1>5, <2>1 DEF Blank
  <2> QED BY <1>1, <2>2, <2>3 DEF Drawn, IsDraft, Drafts, Authors
<1>6. ASSUME NEW t \in DOMAIN Shown PROVE t \in TxnIds /\ Shown[t].revision \in Nat \ {0} /\ Shown[t].by \in Authors
  BY ShownViews DEF IsViewBy, IsView
<1>7. ASSUME NEW t \in Present PROVE t \in TxnIds /\ View(t).revision \in Nat \ {0} /\ View(t).by \in Authors
  BY DEF Present, View, IndInv, Serving, Row
<1>8. Drawn(draft)'
  <2>1. \/ draft' = [Blank EXCEPT !.n = composed']
        \/ \E t \in DOMAIN Shown : draft' = [Blank EXCEPT !.n = composed', !.original = {Seen(t, Shown[t])}]
        \/ \E t \in Present : draft' = [Blank EXCEPT !.n = composed', !.original = {Seen(t, View(t))}]
    BY DEF Compose, OnScreen
  <2> QED BY <1>4, <1>5, <1>6, <1>7, <2>1
<1> QED BY <1>1, <1>8

\* A refused write that is opened again keeps the id of its entry.
LEMMA ReviewDrawn ==
  ASSUME IndInv, [Next]_vars, Review
  PROVE  Drawn(draft)' /\ Drawn(stored)' /\ UNCHANGED <<autosave, composed, session, issued>>
<1> DEFINE Opened(x, d) ==
             /\ d = [n |-> x.write.draft,
                     original |-> IF x.write.type = "edit"
                                  THEN {Held(x.write.txn, cache.rows[x.write.txn],
                                             x.write.seen \cup {x.write.op})} ELSE {},
                     replaces |-> {x.write.op}, txn |-> {x.write.txn}]
             /\ x.write.type = "edit" => x.write.txn \in DOMAIN cache.rows
             /\ draft' = d /\ stored' = d /\ UNCHANGED <<autosave, composed, session, issued>>
<1>0. PICK x \in outbox : \E d : Opened(x, d)
  BY DEF Review, Blocked, history
<1>1. PICK d : Opened(x, d)
  BY <1>0
<1>2. x.write \in issued /\ x.write.type \in {"create", "edit"} /\ x.write \in Payloads
  BY DEF IndInv, Queueing, Waiting, Issuing, Payloads
<1>3. x.write.draft \in Drafts /\ x.write.draft <= composed /\ x.write.op \in OpIds /\ x.write.txn \in TxnIds
  BY <1>2 DEF Payloads, IndInv, Drafting
<1>4. CASE x.write.type = "edit"
  <2>0. x.write.seen \cup {x.write.op} \subseteq Authors
    BY <1>2 DEF Payloads, Authors
  <2>1. PICK y : y = Held(x.write.txn, cache.rows[x.write.txn], x.write.seen \cup {x.write.op})
    OBVIOUS
  <2>2. y.txn \in TxnIds /\ y.revision \in Nat \ {0} /\ y.by \in Authors /\ y.shown \subseteq Authors
    BY <1>1, <1>3, <1>4, <2>0, <2>1 DEF Held, IndInv, Viewing, IsViewBy, IsView
  <2>3. d = [n |-> x.write.draft, original |-> {y}, replaces |-> {x.write.op}, txn |-> {x.write.txn}]
    BY <1>1, <1>4, <2>1
  <2>4. /\ d.n = x.write.draft /\ d.original = {y} /\ d.replaces = {x.write.op}
        /\ d.txn = {x.write.txn}
    BY <2>3
  <2>5. IsDraft(d) /\ Drawn(d)'
    BY <1>1, <1>3, <2>2, <2>4 DEF Drawn, IsDraft, Authors
  <2> QED BY <1>1, <2>5 DEF Drawn
<1>5. CASE x.write.type = "create"
  <2>1. d = [n |-> x.write.draft, original |-> {}, replaces |-> {x.write.op}, txn |-> {x.write.txn}]
    BY <1>1, <1>5
  <2>2. \A w \in Creates : w.draft = x.write.draft /\ w.draft # 0 => w.txn = x.write.txn
    BY <1>2, <1>5 DEF IndInv, Issuing, Creates
  <2>3. Creates' = Creates
    BY <1>1 DEF Creates
  <2> QED BY <1>1, <1>3, <2>1, <2>2, <2>3 DEF Drawn, IsDraft
<1> QED BY <1>1, <1>2, <1>4, <1>5

LEMMA DraftingStep == ASSUME IndInv, [Next]_vars PROVE Drafting'
<1>1. /\ Drawn(stored) /\ Drawn(draft) /\ (\A d \in autosave : IsDraft(d))
      /\ composed \in Drafts /\ (\A w \in issued : w.draft <= composed)
      /\ session \in {"active", "expired", "none"} /\ alone \in BOOLEAN
  BY DEF IndInv, Drafting
<1>2. composed \in Int /\ IsDraft(draft) /\ Drawn(Blank) /\ IsDraft(Blank)
  BY <1>1, BlankDrawn DEF Drafts, Drawn
<1>3. alone' = alone
  BY DEF Next, vars
<1>4. ASSUME composed' = composed, Creates' = Creates, NEW d, Drawn(d) PROVE Drawn(d)'
  BY <1>2, <1>4, DrawnStays
<1>5. ASSUME issued' = issued, composed' = composed, session' \in {"active", "expired", "none"},
             stored' \in {stored, draft, Blank}, draft' \in {stored, draft, Blank},
             \A d \in autosave' : d \in autosave \cup {Blank}
      PROVE  Drafting'
  <2>1. Creates' = Creates
    BY <1>5 DEF Creates
  <2>2. Drawn(stored)' /\ Drawn(draft)'
    BY <1>1, <1>2, <1>4, <1>5, <2>1
  <2> QED BY <1>1, <1>2, <1>3, <1>5, <2>2 DEF Drafting, IsDraft
<1>6. CASE Compose
  <2>1. issued' = issued /\ stored' = stored /\ session' = session /\ Creates' = Creates
    BY <1>6 DEF Compose, history, phoneVars, Creates
  <2>2. Drawn(draft)' /\ autosave' = {draft'} /\ composed' \in Drafts /\ composed' = composed + 1
    BY <1>6, ComposedDrawn
  <2>3. Drawn(stored)'
    BY <1>1, <1>2, <2>1, <2>2, DrawnStays
  <2>4. \A w \in issued : w.draft \in Nat
    BY DEF IndInv, Issuing, Payloads, Drafts
  <2>5. \A d \in autosave' : IsDraft(d)'
    BY <2>2 DEF Drawn
  <2> QED BY <1>1, <1>2, <1>3, <2>1, <2>2, <2>3, <2>4, <2>5 DEF Drafting
<1>7. CASE Discard \/ Autosave \/ PersistDraft
  BY <1>1, <1>5, <1>7 DEF Discard, Autosave, PersistDraft, OnScreen, history, phoneVars
<1>8. ASSUME NEW o \in OpIds, NEW t \in TxnIds, Save(o, t) PROVE Drafting'
  <2>1. PICK w \in Payloads : IssuesNew(w) /\ w.draft = draft.n
    BY <1>8, SaveIssues
  <2>2. stored' = Blank /\ draft' = Blank /\ autosave' = {} /\ composed' = composed /\ session' = session
    BY <1>8 DEF Save, NextDraft
  <2>3. Drawn(Blank)'
    BY <1>1, <2>2, MobileAssumption DEF Drawn, IsDraft, Blank, Drafts
  <2>4. \A v \in issued' : v.draft <= composed
    BY <1>1, <2>1 DEF IssuesNew, Drawn
  <2> QED BY <1>1, <1>3, <2>2, <2>3, <2>4 DEF Drafting
<1>9. ASSUME NEW o \in OpIds, NEW t \in TxnIds, Delete(o, t) PROVE Drafting'
  <2>1. UNCHANGED <<draft, stored, autosave, composed, session>>
    BY <1>9, DeleteFrame
  <2>2. Creates' = Creates /\ \A v \in issued' : v \in issued \/ v.draft = 0
    <3>1. issued' = issued \/ \E w : issued' = issued \cup {w} /\ w.type = "delete" /\ w.draft = 0
      BY <1>9, DeleteIssues DEF IssuesNew
    <3>2. CASE issued' = issued
      BY <3>2 DEF Creates
    <3>3. ASSUME NEW w, issued' = issued \cup {w}, w.type = "delete", w.draft = 0
          PROVE  Creates' = Creates /\ \A v \in issued' : v \in issued \/ v.draft = 0
      BY <3>3 DEF Creates
    <3> QED BY <3>1, <3>2, <3>3
  <2>3. Drawn(stored)' /\ Drawn(draft)'
    BY <1>1, <1>4, <2>1, <2>2
  <2> QED BY <1>1, <1>3, <2>1, <2>2, <2>3, MobileAssumption DEF Drafting, IsDraft, Drafts
<1>10. CASE Review
  <2>1. Drawn(draft)' /\ Drawn(stored)' /\ UNCHANGED <<autosave, composed, session, issued>>
    BY <1>10, ReviewDrawn
  <2> QED BY <1>1, <1>3, <2>1 DEF Drafting, IsDraft
<1>11. CASE RetryBlocked
  BY <1>1, <1>5, <1>11 DEF RetryBlocked, editorVars, history
<1>12. CASE Syncing
  <2>1. session' \in {"active", "expired", "none"}
    BY <1>1, <1>12
    DEF Syncing, SyncStart, SyncRefused, SyncSend, SyncReply, Download, Merge, SyncEnd, Deleted, Expire, phoneVars
  <2> QED BY <1>1, <1>5, <1>12, <2>1, SyncingFrame DEF editorVars
<1>13. CASE Login \/ Logout \/ Crash
  BY <1>1, <1>5, <1>13 DEF Login, Logout, Crash, history, phoneVars
<1>14. CASE Partner \/ Network \/ UNCHANGED vars
  BY <1>1, <1>5, <1>14, PartnerFrame, NetworkFrame DEF vars, phoneVars, editorVars, history
<1> QED
  BY <1>6, <1>7, <1>8, <1>9, <1>10, <1>11, <1>12, <1>13, <1>14 DEF Next, Editing, Entering

----------------------------------------------------------------------------
(* Nothing is lost. *)

\* A write is safe: done, given up by the user, or still waiting on the phone.
Safe(w) ==
  \/ Known(w) \/ w.op \in withdrawn
  \/ IF w.type = "delete" THEN w \in deletion[w.txn] ELSE \E x \in outbox : x.write = w

LEMMA NewIsSafe ==
  ASSUME IndInv, [Next]_vars, NEW w, IssuesNew(w)
  PROVE  Safe(w)'
<1>1. w \in issued' /\ w \notin issued
  BY DEF IssuesNew, Used
<1>2. ASSUME NEW o \in OpIds, NEW t \in TxnIds, Save(o, t) PROVE Safe(w)'
  <2>1. PICK v \in Payloads :
          /\ IssuesNew(v) /\ v.type \in {"create", "edit"}
          /\ outbox' = {x \in outbox : x.write.op \notin draft.replaces} \cup
                         {[write |-> v, at |-> Cardinality(issued), status |-> "pending", confirmed |-> 0]}
    BY <1>2, SaveIssues
  <2>2. w = v
    BY <1>1, <2>1 DEF IssuesNew
  <2>3. \E x \in outbox' : x.write = v
    <3>1. PICK new : new = [write |-> v, at |-> Cardinality(issued), status |-> "pending", confirmed |-> 0]
      OBVIOUS
    <3>2. new.write = v /\ new \in outbox'
      BY <2>1, <3>1
    <3> QED BY <3>2
  <2> QED BY <2>1, <2>2, <2>3 DEF Safe
<1>3. ASSUME NEW o \in OpIds, NEW t \in TxnIds, Delete(o, t) PROVE Safe(w)'
  <2>1. PICK v \in Payloads :
          IssuesNew(v) /\ v.txn = t /\ v.type = "delete" /\ deletion' = [deletion EXCEPT ![t] = {v}]
    BY <1>1, <1>3, DeleteIssues DEF IssuesNew
  <2>2. w = v
    BY <1>1, <2>1 DEF IssuesNew
  <2>3. v \in deletion'[t]
    BY <2>1 DEF IndInv, Keeping
  <2> QED BY <2>1, <2>2, <2>3 DEF Safe
<1>4. CASE issued' = issued
  BY <1>1, <1>4
<1> QED
  BY <1>2, <1>3, <1>4, PartnerFrame, EditingFrame, NetworkFrame, SyncingFrame, SessionFrame, ReviewFrame
  DEF Next, Entering, vars, history

LEMMA OldStaysSafe ==
  ASSUME IndInv, [Next]_vars, NEW w \in issued
  PROVE  Safe(w)'
<1>1. Safe(w)
  BY DEF IndInv, NothingLost, Safe
<1>2. CASE Known(w) \/ w.op \in withdrawn
  BY <1>2, KnownStays, WithdrawnStep DEF Safe
<1>3. CASE w.type = "delete" /\ w \in deletion[w.txn]
  <2>1. CASE deletion' = deletion
    BY <1>3, <2>1 DEF Safe
  <2>2. CASE Deleted
    <3>1. PICK c \in call :
            /\ deletion' = IF c.status \in {"ok", "refused"} THEN [deletion EXCEPT ![c.write.txn] = {}] ELSE deletion
            /\ withdrawn' = IF c.status = "refused" THEN withdrawn \cup {c.write.op} ELSE withdrawn
      BY <2>2 DEF Deleted
    <3>2. CASE w.txn # c.write.txn
      BY <1>3, <3>1, <3>2 DEF Safe, IndInv, Keeping
    <3>3. CASE w.txn = c.write.txn
      <4>1. w = c.write
        BY <1>3, <2>2, <3>3 DEF IndInv, Keeping, Deleted
      <4>2. c.status = "ok" => Known(w)
        BY <4>1 DEF IndInv, Calling, Requested
      <4>3. CASE c.status = "ok"
        BY <4>2, <4>3, KnownStays DEF Safe
      <4>4. CASE c.status = "refused"
        BY <3>1, <4>1, <4>4 DEF Safe
      <4>5. CASE c.status \notin {"ok", "refused"}
        BY <2>1, <3>1, <4>5
      <4> QED BY <4>3, <4>4, <4>5
    <3> QED BY <3>2, <3>3
  <2>3. ASSUME NEW o \in OpIds, NEW t \in TxnIds, Delete(o, t) PROVE Safe(w)'
    <3>1. CASE deletion' = deletion
      BY <2>1, <3>1
    <3>2. ASSUME NEW v, deletion[t] = {}, deletion' = [deletion EXCEPT ![t] = {v}] PROVE Safe(w)'
      BY <1>3, <3>2 DEF Safe, IndInv, Keeping
    <3> QED BY <2>3, <3>1, <3>2, DeleteIssues
  <2> QED
    BY <2>1, <2>2, <2>3, PartnerFrame, EditingFrame, SaveFrame, ReviewFrame, NetworkFrame, SessionFrame
    DEF Next, Entering, Syncing, SyncStart, SyncRefused, SyncSend, SyncReply, Download, Merge, SyncEnd,
        vars, phoneVars, phoneTables
<1>4. ASSUME w.type # "delete", NEW x \in outbox, x.write = w PROVE Safe(w)'
  <2>1. ASSUME NEW y \in outbox', y.write = w PROVE Safe(w)'
    BY <1>4, <2>1 DEF Safe
  <2>2. Waiting(x)
    BY DEF IndInv, Queueing
  <2>3. ASSUME NEW o \in OpIds, NEW t \in TxnIds, Save(o, t) PROVE Safe(w)'
    <3>1. CASE x.write.op \in draft.replaces
      <4>1. w.op \in withdrawn'
        BY <1>4, <2>3, <3>1 DEF Save
      <4> QED BY <4>1 DEF Safe
    <3>2. CASE x.write.op \notin draft.replaces
      <4>1. x \in outbox'
        BY <2>3, <3>2, SaveIssues
      <4> QED BY <1>4, <2>1, <4>1
    <3> QED BY <3>1, <3>2
  <2>4. CASE RetryBlocked
    <3>1. PICK z \in outbox : outbox' = (outbox \ {z}) \cup {[z EXCEPT !.status = "pending"]}
      BY <2>4 DEF RetryBlocked, Blocked
    <3>2. PICK y : y = [z EXCEPT !.status = "pending"]
      OBVIOUS
    <3>3. Waiting(z)
      BY DEF IndInv, Queueing
    <3>4. y.write = z.write
      BY <3>2, <3>3 DEF Waiting
    <3> QED BY <1>4, <2>1, <3>1, <3>2, <3>4
  <2>5. CASE SyncReply
    <3>1. PICK c \in call :
            outbox' = {IF z.write = c.write /\ c.status # "unauthorized"
                       THEN [z EXCEPT !.status = Outcome(c.status), !.confirmed = c.revision] ELSE z : z \in outbox}
      BY <2>5 DEF SyncReply
    <3>2. PICK y : y = IF x.write = c.write /\ c.status # "unauthorized"
                       THEN [x EXCEPT !.status = Outcome(c.status), !.confirmed = c.revision] ELSE x
      OBVIOUS
    <3>3. y \in outbox'
      BY <3>1, <3>2
    <3>4. y.write = x.write
      <4>1. CASE y = x
        BY <4>1
      <4>2. CASE y = [x EXCEPT !.status = Outcome(c.status), !.confirmed = c.revision]
        BY <2>2, <4>2 DEF Waiting
      <4> QED BY <3>2, <4>1, <4>2
    <3> QED BY <1>4, <2>1, <3>3, <3>4
  <2>6. CASE Merge
    <3>1. CASE x \in Acknowledged
      <4>1. Known(w)
        BY <1>4, <2>2, <3>1 DEF Acknowledged, Waiting
      <4> QED BY <4>1, KnownStays DEF Safe
    <3>2. CASE x \notin Acknowledged
      BY <1>4, <2>1, <2>6, <3>2 DEF Merge
    <3> QED BY <3>1, <3>2
  <2>7. CASE outbox' = outbox
    BY <1>4, <2>1, <2>7
  <2> QED
    BY <2>3, <2>4, <2>5, <2>6, <2>7, PartnerFrame, EditingFrame, DeleteFrame, NetworkFrame, SessionFrame
    DEF Next, Entering, Review, Syncing, SyncStart, SyncRefused, SyncSend, Download, SyncEnd, Deleted,
        vars, phoneVars, phoneTables
<1> QED BY <1>1, <1>2, <1>3, <1>4 DEF Safe

LEMMA NothingLostStep == ASSUME IndInv, [Next]_vars PROVE NothingLost'
<1>1. \A w \in issued' : Safe(w)'
  BY IssuedGrows, OldStaysSafe, NewIsSafe DEF IssuesNew
<1> QED BY <1>1 DEF Safe, NothingLost

----------------------------------------------------------------------------
(* The invariant holds. *)

LEMMA InitInv == Init => IndInv
<1> SUFFICES ASSUME Init PROVE IndInv
  OBVIOUS
<1>1. Issuing /\ Queueing /\ Calling /\ Keeping /\ NothingLost
  BY FS_EmptySet
  DEF Init, Issuing, Creates, Used, Queueing, OneWritePerEntry, Calling, Keeping, AtMostOne, NothingLost
<1>2. Serving
  <2>1. Row(Gone) /\ Gone.audit = {} /\ Gone.draft = 0
    BY MobileAssumption DEF Row, Gone, Authors
  <2>2. server = [t \in TxnIds |-> Gone] /\ receipts = {} /\ late = {} /\ web = 0
    BY DEF Init
  <2> QED BY <2>1, <2>2, MobileAssumption DEF Serving
<1>3. Viewing
  BY DEF Init, Viewing, IsViewBy, IsView
<1>4. Drafting
  <2>1. /\ stored = Blank /\ draft = Blank /\ autosave = {} /\ issued = {} /\ composed = 0
        /\ session = "active" /\ alone = FALSE
    BY DEF Init
  <2>2. Creates = {} /\ 0 \in Drafts
    BY <2>1, MobileAssumption DEF Creates, Drafts
  <2>3. Drawn(Blank)
    BY <2>1, <2>2 DEF Drawn, IsDraft, Blank
  <2> QED BY <2>1, <2>2, <2>3 DEF Drafting
<1> QED BY <1>1, <1>2, <1>3, <1>4 DEF IndInv

LEMMA StepInv == ASSUME IndInv, [Next]_vars PROVE IndInv'
BY IssuingStep, ServingStep, QueueingStep, CallingStep, KeepingStep, ViewingStep, DraftingStep, NothingLostStep
DEF IndInv

\* The invariant of every reachable state: it ties each write the user confirmed to the
\* rows, requests, receipts and drafts that carry it.
THEOREM Invariance == Spec => []IndInv
BY InitInv, StepInv, PTL DEF Spec

\* The tables and the phone's memory keep their shape, and every write that is queued,
\* kept, under way or late is one the user confirmed.
THEOREM TypeCorrect == Spec => []TypeOK
<1>1. IndInv => TypeOK
  BY DEF IndInv, Issuing, Serving, Row, Queueing, Waiting, Calling, Requested, Keeping, Viewing, IsViewBy,
         Drafting, Drawn, TypeOK, Used
<1> QED BY <1>1, Invariance, PTL

\* No confirmed write or deletion is lost by a crash, a lost answer, a merge of a
\* snapshot or a change of the session (Save, SyncReply, Merge, Deleted, Crash).
THEOREM WritesSurvive == Spec => []NothingLost
<1>1. IndInv => NothingLost
  BY DEF IndInv
<1> QED BY <1>1, Invariance, PTL

\* The outbox holds one write per entry, so none overtakes another (Save, Queued).
THEOREM WritesDoNotOvertake == Spec => []OneWritePerEntry
<1>1. IndInv => OneWritePerEntry
  BY DEF IndInv, Queueing
<1> QED BY <1>1, Invariance, PTL

\* However often the write of a composed entry is sent, refused, reviewed and replaced,
\* it never becomes two entries on the server (Save, Review, Crash, Written).
THEOREM ComposedOnce == Spec => []NoDuplicateEntry
<1>1. IndInv => NoDuplicateEntry
  <2> SUFFICES ASSUME IndInv, NEW t \in Present, NEW u \in Present,
                      server[t].draft = server[u].draft, server[t].draft # 0
               PROVE  t = u
    BY DEF NoDuplicateEntry
  <2>1. PICK v \in Creates : v.txn = t /\ v.draft = server[t].draft
    BY DEF IndInv, Serving, Present
  <2>2. PICK w \in Creates : w.txn = u /\ w.draft = server[u].draft
    BY DEF IndInv, Serving, Present
  <2> QED BY <2>1, <2>2 DEF IndInv, Issuing
<1> QED BY <1>1, Invariance, PTL
====
