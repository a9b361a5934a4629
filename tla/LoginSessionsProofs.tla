-------------------------- MODULE LoginSessionsProofs --------------------------
(***************************************************************************)
(* What LoginSessions keeps for every number of browsers, sign-ins,        *)
(* handoffs, sessions and requests handled at a time.  TypeOK, IssuedOnce  *)
(* and RevokedHasNothing are inductive together; the handoffs and the      *)
(* spreadsheet requests need a stronger invariant each, ExchangeInv and    *)
(* GatewayInv.                                                             *)
(***************************************************************************)
EXTENDS LoginSessions, TLAPS

----------------------------------------------------------------------------
(* The shape of the state. *)

\* The records TypeOK speaks of.
GoogleSession == [session : SUBSET Sessions, token : {"unused", "fresh", "stale", "over", "gone"}]
Request ==
  [kind : Steps, browser : SUBSET Browsers, signin : SUBSET SignIns,
   session : SUBSET Sessions, google : SUBSET GoogleIds, handoff : SUBSET Handoffs]

\* What the three ways of changing a request do to its fields.
LEMMA IdleIsRequest == Idle \in Request
BY DEF Idle, Request, Steps

\* A request that goes on to its next stage stays a request.
LEMMA ContinuesType ==
  ASSUME work \in [Requests -> Request], NEW r \in Requests, NEW kind \in Steps, Continues(r, kind)
  PROVE  work' \in [Requests -> Request]
BY DEF Continues, Request

\* So does the place a new request is put in.
LEMMA BeginsType ==
  ASSUME work \in [Requests -> Request], NEW r \in Requests, NEW request \in Request, Begins(r, request)
  PROVE  work' \in [Requests -> Request]
BY DEF Begins

\* Going on changes only the stage, and only of this request.
LEMMA ContinuesFields ==
  ASSUME work \in [Requests -> Request], NEW r \in Requests, NEW kind, Continues(r, kind),
         NEW q \in Requests
  PROVE  /\ work'[q].google = work[q].google /\ work'[q].session = work[q].session
         /\ work'[q].handoff = work[q].handoff
         /\ q # r => work'[q] = work[q]
         /\ q = r => work'[q].kind = kind
BY DEF Continues, Request

\* Beginning fills the place of this request only.
LEMMA BeginsFields ==
  ASSUME work \in [Requests -> Request], NEW r \in Requests, NEW request, Begins(r, request),
         NEW q \in Requests
  PROVE  work'[q] = IF q = r THEN request ELSE work[q]
BY DEF Begins

\* Ending empties the place of this request only.
LEMMA EndsFields ==
  ASSUME work \in [Requests -> Request], NEW r \in Requests, Ends(r), NEW q \in Requests
  PROVE  work'[q] = IF q = r THEN Idle ELSE work[q]
BY DEF Ends

\* The part of TypeOK that speaks of requests.
LEMMA WorkType == TypeOK => work \in [Requests -> Request]
BY DEF TypeOK, Request

\* TypeOK in four parts, so that a step proves each from what it changes.
TablesType ==
  /\ pocket \in [Sessions -> {"unused", "live", "over", "purged", "revoked"}]
  /\ signin \in [SignIns -> {"unused", "open", "expired", "cancelled", "used"}]
  /\ handoff \in [Handoffs -> {"unused", "open", "expired", "spent"}]
  /\ consent \in [Consents -> SUBSET Sessions] /\ begun \subseteq Consents /\ forced \subseteq begun
  /\ account \in BOOLEAN
  /\ issued \subseteq SignIns \X (Sessions \cup Handoffs)
  /\ origin \in [Sessions -> SUBSET Handoffs]
GoogleType ==
  /\ google \in [GoogleIds -> GoogleSession]
  /\ \A id \in GoogleIds : google[id].session = {} <=> google[id].token \in {"unused", "gone"}
Jars == [Browsers -> [oauth : SUBSET SignIns, pocket : SUBSET Sessions, google : SUBSET GoogleIds]]
JarType ==
  /\ jar \in Jars
  /\ \A b \in Browsers : \A p \in jar[b].pocket : pocket[p] # "unused"
WorkShape == work \in [Requests -> Request]

\* The four parts are TypeOK ...
LEMMA TypeParts == TypeOK => TablesType /\ GoogleType /\ JarType /\ WorkShape
BY DEF TypeOK, TablesType, GoogleType, JarType, WorkShape, GoogleSession, Request, Jars

\* ... also after a step.
LEMMA PartsType == ASSUME TablesType', GoogleType', JarType', WorkShape' PROVE TypeOK'
BY DEF TypeOK, TablesType, GoogleType, JarType, WorkShape, GoogleSession, Request, Jars

\* What a step leaves alone keeps its part.
LEMMA GoogleKept == ASSUME GoogleType, UNCHANGED google PROVE GoogleType'
BY DEF GoogleType
LEMMA JarKept == ASSUME JarType, UNCHANGED <<jar, pocket>> PROVE JarType'
BY DEF JarType
LEMMA TablesKept ==
  ASSUME TablesType, UNCHANGED <<pocket, signin, handoff, consent, begun, forced, account, issued, origin>>
  PROVE  TablesType'
BY DEF TablesType

\* Deleting Google sessions leaves a table of Google sessions.
LEMMA WithoutType == ASSUME GoogleType, NEW ids, google' = Without(ids) PROVE GoogleType'
BY DEF GoogleType, Without, Gone, GoogleSession

\* Every step keeps the tables of the migrations, the cookies and the requests in
\* shape; the interesting part is that a deleted Google session has no session left.
LEMMA TypeInit == Init => TypeOK
<1> SUFFICES ASSUME Init PROVE TypeOK
  OBVIOUS
<1>1. work \in [Requests -> Request]
  BY IdleIsRequest DEF Init
<1>2. google \in [GoogleIds -> GoogleSession]
  BY DEF Init, Unused, GoogleSession
<1>3. jar \in [Browsers -> [oauth : SUBSET SignIns, pocket : SUBSET Sessions, google : SUBSET GoogleIds]]
  BY DEF Init
<1>4. \A id \in GoogleIds : google[id].session = {} <=> google[id].token \in {"unused", "gone"}
  BY DEF Init, Unused
<1>5. \A b \in Browsers : \A p \in jar[b].pocket : pocket[p] # "unused"
  BY DEF Init
<1> QED
  BY <1>1, <1>2, <1>3, <1>4, <1>5 DEF Init, TypeOK, Request, GoogleSession

\* Requests about the identity provider and the handoff to the app.
LEMMA TypeProvider ==
  ASSUME TypeOK, NEW r \in Requests, Provider(r)
  PROVE  TypeOK'
<1>0. TablesType /\ GoogleType /\ JarType /\ WorkShape
  BY TypeParts
<1>1. ASSUME Issue(r) PROVE TypeOK'
  <2>1. PICK s \in work[r].signin, b \in work[r].browser :
          Open(s) /\ signin' = Used(s) /\ (IssueSession(r, s, b) \/ IssueHandoff(s, b))
    BY <1>1 DEF Issue
  <2>2. s \in SignIns /\ b \in Browsers /\ work[r].session \subseteq Sessions
    BY <1>0 DEF WorkShape, Request
  <2>3. work' = [work EXCEPT ![r] = Idle] /\ UNCHANGED <<begun, forced, account, origin>>
    BY <1>1 DEF Issue, Ends
  <2>4. WorkShape'
    BY <1>0, <2>3, IdleIsRequest DEF WorkShape
  <2>5. signin' \in [SignIns -> {"unused", "open", "expired", "cancelled", "used"}]
    BY <1>0, <2>1, <2>2 DEF TablesType, Used
  <2>6. CASE IssueSession(r, s, b)
    <3>1. PICK new \in NewSessions :
            /\ pocket' = Created(new, Ended(work[r].session))
            /\ issued' = issued \cup {<<s, new>>}
            /\ jar' = [jar EXCEPT ![b].oauth = {}, ![b].pocket = {new}]
      BY <2>6 DEF IssueSession
    <3>2. /\ google' = Without(LinkedTo(work[r].session))
          /\ consent' = Unconsented(work[r].session) /\ handoff' = handoff
      BY <2>6 DEF IssueSession
    <3>3. new \in Sessions /\ pocket[new] = "unused"
      BY DEF NewSessions
    <3>4. pocket' \in [Sessions -> {"unused", "live", "over", "purged", "revoked"}]
      BY <1>0, <3>1 DEF TablesType, Created, Ended
    <3>5. GoogleType'
      BY <1>0, <3>2, WithoutType
    <3>6. jar' \in Jars
      BY <1>0, <2>2, <3>1, <3>3 DEF JarType, Jars
    <3>7. \A p \in Sessions : pocket[p] # "unused" \/ p = new => pocket'[p] # "unused"
      BY <1>0, <3>1 DEF TablesType, Created, Ended
    <3>8. \A c \in Browsers : jar'[c].pocket = IF c = b THEN {new} ELSE jar[c].pocket
      BY <1>0, <2>2, <3>1 DEF JarType, Jars
    <3>9. \A c \in Browsers : jar[c].pocket \subseteq Sessions
      BY <1>0 DEF JarType, Jars
    <3>10. JarType'
      BY <1>0, <3>6, <3>7, <3>8, <3>9, <3>3 DEF JarType
    <3>11. consent' \in [Consents -> SUBSET Sessions]
      BY <1>0, <3>2 DEF TablesType, Unconsented
    <3>12. issued' \subseteq SignIns \X (Sessions \cup Handoffs)
      BY <1>0, <2>2, <3>1, <3>3 DEF TablesType
    <3>13. TablesType'
      BY <1>0, <2>3, <2>5, <3>2, <3>4, <3>11, <3>12 DEF TablesType
    <3> QED
      BY <2>4, <3>5, <3>10, <3>13, PartsType
  <2>7. CASE IssueHandoff(s, b)
    <3>1. PICK h \in Handoffs : handoff' = [handoff EXCEPT ![h] = "open"] /\ issued' = issued \cup {<<s, h>>}
      BY <2>7 DEF IssueHandoff
    <3>2. jar' = [jar EXCEPT ![b].oauth = {}] /\ UNCHANGED <<pocket, google, consent>>
      BY <2>7 DEF IssueHandoff
    <3>3. TablesType'
      BY <1>0, <2>2, <2>3, <2>5, <3>1, <3>2 DEF TablesType
    <3>4. JarType'
      BY <1>0, <2>2, <3>2 DEF JarType, Jars
    <3> QED
      BY <1>0, <2>4, <3>2, <3>3, <3>4, GoogleKept, PartsType
  <2> QED
    BY <2>1, <2>6, <2>7
<1>2. ASSUME CallbackFails(r) PROVE TypeOK'
  <2>1. WorkShape'
    BY <1>0, <1>2, IdleIsRequest DEF CallbackFails, Ends, WorkShape
  <2>2. UNCHANGED <<tables, issued, origin>>
    BY <1>2 DEF CallbackFails
  <2>3. JarType'
    BY <1>0, <1>2 DEF CallbackFails, JarType, Jars, tables
  <2> QED
    BY <1>0, <2>1, <2>2, <2>3, GoogleKept, TablesKept, PartsType DEF tables
<1>3. ASSUME CreateSession(r) PROVE TypeOK'
  <2>1. WorkShape'
    BY <1>0, <1>3, IdleIsRequest DEF CreateSession, Ends, WorkShape
  <2>2. PICK new \in NewSessions : pocket' = Created(new, pocket) /\ origin' = [origin EXCEPT ![new] = work[r].handoff]
    BY <1>3 DEF CreateSession
  <2>3. UNCHANGED <<signin, handoff, consent, begun, forced, google, account, jar, issued>>
    BY <1>3 DEF CreateSession
  <2>4. pocket' \in [Sessions -> {"unused", "live", "over", "purged", "revoked"}]
    BY <1>0, <2>2 DEF TablesType, Created
  <2>5. origin' \in [Sessions -> SUBSET Handoffs]
    BY <1>0, <2>2 DEF TablesType, WorkShape, Request
  <2>6. TablesType'
    BY <1>0, <2>3, <2>4, <2>5 DEF TablesType
  <2>7. \A p \in Sessions : pocket[p] # "unused" => pocket'[p] # "unused"
    BY <1>0, <2>2 DEF TablesType, Created
  <2>8. JarType'
    BY <1>0, <2>3, <2>7 DEF JarType, Jars
  <2> QED
    BY <1>0, <2>1, <2>3, <2>6, <2>8, GoogleKept, PartsType
<1>4. ASSUME NEW b \in Browsers, Callback(r, b) PROVE TypeOK'
  <2>1. PICK s \in jar[b].oauth :
          Begins(r, [Idle EXCEPT !.kind = "callback", !.browser = {b}, !.signin = {s},
                                 !.session = jar[b].pocket])
    BY <1>4 DEF Callback
  <2>2. [Idle EXCEPT !.kind = "callback", !.browser = {b}, !.signin = {s}, !.session = jar[b].pocket]
          \in Request
    BY <1>0 DEF JarType, Jars, Idle, Request, Steps
  <2>3. WorkShape'
    BY <1>0, <2>1, <2>2, BeginsType DEF WorkShape
  <2>4. UNCHANGED <<tables, jar, issued, origin>>
    BY <1>4 DEF Callback
  <2> QED
    BY <1>0, <2>3, <2>4, GoogleKept, JarKept, TablesKept, PartsType DEF tables
<1>5. ASSUME NEW h \in Handoffs, Exchange(r, h) PROVE TypeOK'
  <2>1. [Idle EXCEPT !.kind = "exchange", !.handoff = {h}] \in Request
    BY DEF Idle, Request, Steps
  <2>2. WorkShape'
    BY <1>0, <1>5, <2>1, BeginsType DEF Exchange, WorkShape
  <2>3. UNCHANGED <<pocket, signin, consent, begun, forced, google, account, jar, issued, origin>>
    BY <1>5 DEF Exchange
  <2>4. handoff' \in [Handoffs -> {"unused", "open", "expired", "spent"}]
    BY <1>0, <1>5 DEF Exchange, Spent, TablesType
  <2>5. TablesType'
    BY <1>0, <2>3, <2>4 DEF TablesType
  <2> QED
    BY <1>0, <2>2, <2>3, <2>5, GoogleKept, JarKept, PartsType
<1> QED
  BY <1>1, <1>2, <1>3, <1>4, <1>5 DEF Provider

\* Requests about Google.
LEMMA TypeGoogle ==
  ASSUME TypeOK, NEW r \in Requests, Google(r)
  PROVE  TypeOK'
<1>0. TablesType /\ GoogleType /\ JarType /\ WorkShape
  BY TypeParts
<1>1. ASSUME GoogleTokens(r) PROVE TypeOK'
  <2>1. WorkShape'
    BY <1>0, <1>1, ContinuesType DEF GoogleTokens, WorkShape, Steps
  <2>2. account' = TRUE
        /\ UNCHANGED <<pocket, signin, handoff, consent, begun, forced, google, jar, issued, origin>>
    BY <1>1 DEF GoogleTokens
  <2>3. TablesType'
    BY <1>0, <2>2 DEF TablesType
  <2> QED
    BY <1>0, <2>1, <2>2, <2>3, GoogleKept, JarKept, PartsType
<1>2. ASSUME InsertGoogle(r) PROVE TypeOK'
  <2>1. WorkShape'
    BY <1>0, <1>2, IdleIsRequest DEF InsertGoogle, Ends, WorkShape
  <2>2. PICK p \in Insertable(r), b \in work[r].browser, id \in GoogleIds :
          /\ google' = [google EXCEPT ![id] = [session |-> {p}, token |-> "fresh"]]
          /\ jar' = [jar EXCEPT ![b].google = {id}]
    BY <1>2 DEF InsertGoogle
  <2>3. p \in Sessions /\ b \in Browsers
    BY <1>0 DEF WorkShape, Request, Insertable, Alive
  <2>4. GoogleType'
    BY <1>0, <2>2, <2>3 DEF GoogleType, GoogleSession
  <2>5. UNCHANGED <<pocket, signin, handoff, consent, begun, forced, account, issued, origin>>
    BY <1>2 DEF InsertGoogle
  <2>6. JarType'
    BY <1>0, <2>2, <2>3, <2>5 DEF JarType, Jars
  <2> QED
    BY <1>0, <2>1, <2>4, <2>5, <2>6, TablesKept, PartsType
<1>3. ASSUME ReadGoogle(r) PROVE TypeOK'
  <2>1. WorkShape'
    <3>1. CASE Ends(r)
      BY <1>0, <3>1, IdleIsRequest DEF Ends, WorkShape
    <3>2. ASSUME NEW kind \in {"calling", "refresh"}, Continues(r, kind) PROVE WorkShape'
      BY <1>0, <3>2, ContinuesType DEF Steps, WorkShape
    <3> QED
      BY <1>3, <3>1, <3>2 DEF ReadGoogle
  <2>2. GoogleType'
    <3>1. google' = google \/ \E id \in GoogleIds : google' = Without({id})
      BY <1>3 DEF ReadGoogle, Rows
    <3> QED
      BY <1>0, <3>1, GoogleKept, WithoutType
  <2>3. UNCHANGED <<pocket, signin, handoff, consent, begun, forced, account, jar, issued, origin>>
    BY <1>3 DEF ReadGoogle
  <2> QED
    BY <1>0, <2>1, <2>2, <2>3, JarKept, TablesKept, PartsType
<1>4. ASSUME Refresh(r) PROVE TypeOK'
  <2>1. WorkShape'
    BY <1>0, <1>4, ContinuesType DEF Refresh, WorkShape, Steps
  <2>2. google' = [id \in GoogleIds |->
                     IF id \in Renewable(r) THEN [google[id] EXCEPT !.token = "fresh"] ELSE google[id]]
    BY <1>4 DEF Refresh
  <2>3. \A id \in Renewable(r) : google[id].session # {}
    BY DEF Renewable, Rows
  <2>4. GoogleType'
    BY <1>0, <2>2, <2>3 DEF GoogleType, GoogleSession
  <2>5. UNCHANGED <<pocket, signin, handoff, consent, begun, forced, account, jar, issued, origin>>
    BY <1>4 DEF Refresh
  <2> QED
    BY <1>0, <2>1, <2>4, <2>5, JarKept, TablesKept, PartsType
<1>5. ASSUME RefreshRefused(r) PROVE TypeOK'
  <2>1. WorkShape'
    BY <1>0, <1>5, IdleIsRequest DEF RefreshRefused, Ends, WorkShape
  <2>2. GoogleType'
    BY <1>0, <1>5, WithoutType DEF RefreshRefused
  <2>3. UNCHANGED <<pocket, signin, handoff, consent, begun, forced, account, jar, issued, origin>>
    BY <1>5 DEF RefreshRefused
  <2> QED
    BY <1>0, <2>1, <2>2, <2>3, JarKept, TablesKept, PartsType
<1>6. ASSUME NEW c \in Consents, NeedConsent(r, c) PROVE TypeOK'
  <2>1. WorkShape'
    BY <1>0, <1>6, IdleIsRequest DEF NeedConsent, Ends, WorkShape
  <2>2. /\ begun' = begun \cup {c} /\ forced' = forced \cup {c}
        /\ consent' = [consent EXCEPT ![c] = work[r].session]
        /\ UNCHANGED <<pocket, signin, handoff, google, account, jar, issued, origin>>
    BY <1>6 DEF NeedConsent
  <2>3. work[r].session \subseteq Sessions
    BY <1>0 DEF WorkShape, Request
  <2>4. TablesType'
    BY <1>0, <2>2, <2>3 DEF TablesType
  <2> QED
    BY <1>0, <2>1, <2>2, <2>4, GoogleKept, JarKept, PartsType
<1>7. ASSUME NEW c \in Consents, NEW b \in Browsers, GoogleCallback(r, b, c) PROVE TypeOK'
  <2> DEFINE kind == IF c \in forced THEN "consented" ELSE "consent"
             place == [Idle EXCEPT !.kind = kind, !.browser = {b}, !.session = consent[c]]
  <2>1. place \in Request
    BY <1>0 DEF TablesType, Idle, Request, Steps
  <2>2. WorkShape'
    BY <1>0, <1>7, <2>1, BeginsType DEF GoogleCallback, WorkShape
  <2>3. /\ consent' = [consent EXCEPT ![c] = {}]
        /\ UNCHANGED <<pocket, signin, handoff, begun, forced, google, account, jar, issued, origin>>
    BY <1>7 DEF GoogleCallback
  <2>4. TablesType'
    BY <1>0, <2>3 DEF TablesType
  <2> QED
    BY <1>0, <2>2, <2>3, <2>4, GoogleKept, JarKept, PartsType
<1>8. ASSUME NEW b \in Browsers, Gateway(r, b) PROVE TypeOK'
  <2> DEFINE place == [Idle EXCEPT !.kind = "read", !.session = jar[b].pocket, !.google = jar[b].google]
  <2>1. place \in Request
    BY <1>0 DEF JarType, Jars, Idle, Request, Steps
  <2>2. WorkShape'
    BY <1>0, <1>8, <2>1, BeginsType DEF Gateway, WorkShape
  <2>3. UNCHANGED <<tables, jar, issued, origin>>
    BY <1>8 DEF Gateway
  <2> QED
    BY <1>0, <2>2, <2>3, GoogleKept, JarKept, TablesKept, PartsType DEF tables
<1> QED
  BY <1>1, <1>2, <1>3, <1>4, <1>5, <1>6, <1>7, <1>8 DEF Google

\* Browsers beginning sign-ins, signing out and losing a session that has run out.
LEMMA TypeBrowser ==
  ASSUME TypeOK, NEW b \in Browsers, Browser(b)
  PROVE  TypeOK'
<1>0. TablesType /\ GoogleType /\ JarType /\ WorkShape
  BY TypeParts
<1>1. ASSUME BadCallback(b) PROVE TypeOK'
  <2>1. UNCHANGED <<tables, work, issued, origin>> /\ jar' = [jar EXCEPT ![b].oauth = {}]
    BY <1>1 DEF BadCallback
  <2>2. JarType'
    BY <1>0, <2>1 DEF JarType, Jars, tables
  <2> QED
    BY <1>0, <2>1, <2>2, GoogleKept, TablesKept, PartsType DEF tables, WorkShape
<1>2. ASSUME NEW P \in SUBSET Sessions, NEW ids, pocket' = Ended(P), google' = Without(ids),
             consent' = Unconsented(P)
      PROVE  /\ GoogleType'
             /\ pocket' \in [Sessions -> {"unused", "live", "over", "purged", "revoked"}]
             /\ consent' \in [Consents -> SUBSET Sessions]
             /\ \A p \in Sessions : pocket[p] # "unused" => pocket'[p] # "unused"
  <2>1. GoogleType'
    BY <1>0, <1>2, WithoutType
  <2>2. /\ pocket' \in [Sessions -> {"unused", "live", "over", "purged", "revoked"}]
        /\ \A p \in Sessions : pocket[p] # "unused" => pocket'[p] # "unused"
    BY <1>0, <1>2 DEF TablesType, Ended
  <2>3. consent' \in [Consents -> SUBSET Sessions]
    BY <1>0, <1>2 DEF TablesType, Unconsented
  <2> QED
    BY <2>1, <2>2, <2>3
<1>3. jar[b].pocket \subseteq Sessions
  BY <1>0 DEF JarType, Jars
<1>4. ASSUME Notice(b) PROVE TypeOK'
  <2>1. PICK P \in SUBSET Sessions :
          pocket' = Ended(P) /\ google' = Without(LinkedTo(P)) /\ consent' = Unconsented(P)
    BY <1>3, <1>4 DEF Notice
  <2>2. UNCHANGED <<signin, handoff, begun, forced, account, jar, work, issued, origin>>
    BY <1>4 DEF Notice
  <2>3. /\ GoogleType'
        /\ pocket' \in [Sessions -> {"unused", "live", "over", "purged", "revoked"}]
        /\ consent' \in [Consents -> SUBSET Sessions]
        /\ \A p \in Sessions : pocket[p] # "unused" => pocket'[p] # "unused"
    BY <1>2, <2>1
  <2>4. TablesType'
    BY <1>0, <2>2, <2>3 DEF TablesType
  <2>5. JarType'
    BY <1>0, <2>2, <2>3 DEF JarType, Jars
  <2> QED
    BY <1>0, <2>2, <2>3, <2>4, <2>5, PartsType DEF WorkShape
<1>5. ASSUME Logout(b) PROVE TypeOK'
  <2>1. /\ pocket' = Ended(jar[b].pocket) /\ consent' = Unconsented(jar[b].pocket)
        /\ google' = Without(LinkedTo(jar[b].pocket) \cup jar[b].google)
    BY <1>5 DEF Logout
  <2>2. /\ jar' = [jar EXCEPT ![b] = [oauth |-> {}, pocket |-> {}, google |-> {}]]
        /\ UNCHANGED <<handoff, begun, forced, account, work, issued, origin>>
    BY <1>5 DEF Logout
  <2>3. /\ GoogleType'
        /\ pocket' \in [Sessions -> {"unused", "live", "over", "purged", "revoked"}]
        /\ consent' \in [Consents -> SUBSET Sessions]
        /\ \A p \in Sessions : pocket[p] # "unused" => pocket'[p] # "unused"
    BY <1>2, <1>3, <2>1
  <2>4. signin' \in [SignIns -> {"unused", "open", "expired", "cancelled", "used"}]
    BY <1>0, <1>5 DEF Logout, TablesType
  <2>5. TablesType'
    BY <1>0, <2>2, <2>3, <2>4 DEF TablesType
  <2>6. JarType'
    BY <1>0, <2>2, <2>3 DEF JarType, Jars
  <2> QED
    BY <1>0, <2>2, <2>3, <2>5, <2>6, PartsType DEF WorkShape
<1>6. ASSUME NEW s \in SignIns, Begin(b, s) PROVE TypeOK'
  <2>1. /\ signin' = [signin EXCEPT ![s] = "open"] /\ jar' = [jar EXCEPT ![b].oauth = {s}]
        /\ UNCHANGED <<pocket, handoff, consent, begun, forced, google, account, work, issued, origin>>
    BY <1>6 DEF Begin
  <2>2. TablesType'
    BY <1>0, <2>1 DEF TablesType
  <2>3. JarType'
    BY <1>0, <2>1 DEF JarType, Jars
  <2> QED
    BY <1>0, <2>1, <2>2, <2>3, GoogleKept, PartsType DEF WorkShape
<1>7. ASSUME NEW c \in Consents, BeginGoogle(b, c) PROVE TypeOK'
  <2>1. /\ begun' = begun \cup {c} /\ consent' = [consent EXCEPT ![c] = Alive(jar[b].pocket)]
        /\ UNCHANGED <<pocket, signin, handoff, forced, google, account, jar, work, issued, origin>>
    BY <1>7 DEF BeginGoogle
  <2>2. TablesType'
    BY <1>0, <1>3, <2>1 DEF TablesType, Alive
  <2> QED
    BY <1>0, <2>1, <2>2, GoogleKept, JarKept, PartsType DEF WorkShape
<1> QED
  BY <1>1, <1>4, <1>5, <1>6, <1>7 DEF Browser

\* Expiry, and the app signing out.
LEMMA TypeTime ==
  ASSUME TypeOK, Time
  PROVE  TypeOK'
<1>1. ASSUME NEW s \in SignIns, SignInExpires(s) PROVE TypeOK'
  BY <1>1 DEF TypeOK, SignInExpires
<1>2. ASSUME NEW h \in Handoffs, HandoffExpires(h) PROVE TypeOK'
  BY <1>2 DEF TypeOK, HandoffExpires
<1>3. ASSUME NEW p \in Sessions, RunOut(p) PROVE TypeOK'
  BY <1>3 DEF TypeOK, RunOut
<1>4. ASSUME NEW p \in Sessions, AppLogout(p) PROVE TypeOK'
  BY <1>4 DEF TypeOK, AppLogout, Ended, Without, Rows, Gone, LinkedTo, Unconsented
<1>5. ASSUME NEW c \in Consents, ConsentExpires(c) PROVE TypeOK'
  BY <1>5 DEF TypeOK, ConsentExpires
<1>6. ASSUME NEW id \in GoogleIds, TokenAges(id) PROVE TypeOK'
  BY <1>6 DEF TypeOK, TokenAges, Rows
<1> QED
  BY <1>1, <1>2, <1>3, <1>4, <1>5, <1>6 DEF Time

\* Every step keeps the shape.
LEMMA TypeNext == TypeOK /\ [Next]_vars => TypeOK'
<1> SUFFICES ASSUME TypeOK, [Next]_vars PROVE TypeOK'
  OBVIOUS
<1>1. ASSUME NEW r \in Requests, Finish(r) PROVE TypeOK'
  BY <1>1 DEF TypeOK, Finish, Ends, Idle, Steps, tables
<1>2. CASE Stop
  BY <1>2 DEF TypeOK, Stop, Idle, Steps, tables
<1>3. CASE UNCHANGED vars
  BY <1>3 DEF TypeOK, vars, tables
<1> QED
  BY <1>1, <1>2, <1>3, TypeProvider, TypeGoogle, TypeBrowser, TypeTime DEF Next

\* The tables, cookies and requests always have the shape TypeOK states: in particular
\* revocation (revoke_pocket_session_in) deletes a Google session with its link.
THEOREM TypeCorrect == Spec => []TypeOK
BY TypeInit, TypeNext, PTL DEF Spec

----------------------------------------------------------------------------
(* Sign-ins. *)

\* A step that gives no credential and leaves used sign-ins used keeps IssuedOnce.
LEMMA SignInsKept ==
  ASSUME IssuedOnce, issued' = issued,
         \A s \in SignIns : signin[s] = "used" => signin'[s] = "used",
         issued \subseteq SignIns \X (Sessions \cup Handoffs)
  PROVE  IssuedOnce'
BY DEF IssuedOnce

\* issue_pocket_login gives a credential for an open sign-in and uses it up: no
\* credential given earlier was for this one.
LEMMA IssueOnce ==
  ASSUME TypeOK, IssuedOnce, NEW r \in Requests, Issue(r)
  PROVE  IssuedOnce'
<1>1. PICK s \in work[r].signin, b \in work[r].browser :
        Open(s) /\ signin' = Used(s) /\ (IssueSession(r, s, b) \/ IssueHandoff(s, b))
  BY DEF Issue
<1>2. PICK c : issued' = issued \cup {<<s, c>>}
  BY <1>1 DEF IssueSession, IssueHandoff
<1>3. /\ s \in SignIns /\ signin[s] = "open"
      /\ signin' = [signin EXCEPT ![s] = "used"]
  BY <1>1 DEF TypeOK, Open, Used
<1>4. \A x \in issued : x[1] # s /\ x[1] \in SignIns
  BY <1>3 DEF TypeOK, IssuedOnce
<1> QED
  BY <1>2, <1>3, <1>4 DEF TypeOK, IssuedOnce

\* Beginning, expiry and sign-out touch only sign-ins that are not used.
LEMMA IssuedNext == TypeOK /\ IssuedOnce /\ [Next]_vars => IssuedOnce'
<1> SUFFICES ASSUME TypeOK, IssuedOnce, [Next]_vars PROVE IssuedOnce'
  OBVIOUS
<1>1. ASSUME NEW r \in Requests, Issue(r) PROVE IssuedOnce'
  BY <1>1, IssueOnce
<1>2. ASSUME NEW s \in SignIns, (\E b \in Browsers : Begin(b, s)) \/ SignInExpires(s) PROVE IssuedOnce'
  <2>1. \A t \in SignIns : signin[t] = "used" => signin'[t] = "used"
    BY <1>2 DEF TypeOK, Begin, SignInExpires
  <2> QED
    BY <1>2, <2>1, SignInsKept DEF TypeOK, Begin, SignInExpires
<1>3. ASSUME NEW b \in Browsers, Logout(b) PROVE IssuedOnce'
  <2>1. \A t \in SignIns : signin[t] = "used" => signin'[t] = "used"
    BY <1>3 DEF TypeOK, Logout
  <2> QED
    BY <1>3, <2>1, SignInsKept DEF TypeOK, Logout
<1>4. ASSUME UNCHANGED <<signin, issued>> PROVE IssuedOnce'
  BY <1>4 DEF IssuedOnce
<1>5. ASSUME NEW r \in Requests, Provider(r), ~Issue(r) PROVE UNCHANGED <<signin, issued>>
  BY <1>5 DEF Provider, CallbackFails, CreateSession, Callback, Exchange, tables
<1>6. ASSUME NEW r \in Requests, Google(r) \/ Finish(r) PROVE UNCHANGED <<signin, issued>>
  BY <1>6 DEF Google, Finish, GoogleTokens, InsertGoogle, ReadGoogle, Refresh, RefreshRefused,
              NeedConsent, GoogleCallback, Gateway, tables
<1>7. ASSUME NEW b \in Browsers, BadCallback(b) \/ Notice(b) \/ \E c \in Consents : BeginGoogle(b, c)
      PROVE  UNCHANGED <<signin, issued>>
  BY <1>7 DEF BadCallback, Notice, BeginGoogle, tables
<1>8. ASSUME Time, \A s \in SignIns : ~SignInExpires(s) PROVE UNCHANGED <<signin, issued>>
  BY <1>8 DEF Time, HandoffExpires, RunOut, AppLogout, ConsentExpires, TokenAges
<1>9. CASE Stop \/ UNCHANGED vars
  BY <1>4, <1>9 DEF Stop, vars, tables
<1> QED
  BY <1>1, <1>2, <1>3, <1>4, <1>5, <1>6, <1>7, <1>8, <1>9 DEF Next, Browser

\* However often the callback of a sign-in is sent, and whatever happens while the
\* provider is asked, issue_pocket_login gives at most one credential for it, and
\* none after it was cancelled or has expired.
THEOREM SignInsIssueOnce == Spec => []IssuedOnce
<1>1. Init => IssuedOnce
  BY DEF Init, IssuedOnce
<1> QED
  BY <1>1, IssuedNext, TypeCorrect, PTL DEF Spec

----------------------------------------------------------------------------
(* Revocation. *)

\* Deleting the Google sessions linked to the sessions being revoked is enough.
LEMMA RevocationReaches ==
  ASSUME TypeOK, RevokedHasNothing, NEW P,
         \A p \in Sessions : pocket'[p] = "revoked" => pocket[p] = "revoked" \/ p \in P,
         NEW ids, google' = Without(LinkedTo(P) \cup ids)
  PROVE  RevokedHasNothing'
BY DEF TypeOK, RevokedHasNothing, Without, LinkedTo, Rows, Gone

\* So is every step that revokes nothing and links nothing.
LEMMA SessionsKept ==
  ASSUME TypeOK, RevokedHasNothing,
         \A p \in Sessions : pocket'[p] = "revoked" => pocket[p] = "revoked",
         \A id \in GoogleIds : google'[id].session \subseteq google[id].session
  PROVE  RevokedHasNothing'
BY DEF TypeOK, RevokedHasNothing

\* The one step that links a Google session, insert_google_session, asks whether the
\* session is alive in the same statement.
LEMMA RevokedNext == TypeOK /\ RevokedHasNothing /\ [Next]_vars => RevokedHasNothing'
<1> SUFFICES ASSUME TypeOK, RevokedHasNothing, [Next]_vars PROVE RevokedHasNothing'
  OBVIOUS
<1>1. ASSUME NEW r \in Requests, Issue(r) PROVE RevokedHasNothing'
  <2>1. PICK s, b : IssueSession(r, s, b) \/ IssueHandoff(s, b)
    BY <1>1 DEF Issue
  <2>2. CASE IssueSession(r, s, b)
    <3>1. PICK new \in NewSessions : pocket' = Created(new, Ended(work[r].session))
      BY <2>2 DEF IssueSession
    <3>2. \A p \in Sessions : pocket'[p] = "revoked" => pocket[p] = "revoked" \/ p \in work[r].session
      BY <3>1 DEF Created, Ended
    <3>3. google' = Without(LinkedTo(work[r].session) \cup {})
      BY <2>2 DEF IssueSession, Without
    <3> QED
      BY <3>2, <3>3, RevocationReaches
  <2>3. CASE IssueHandoff(s, b)
    BY <2>3 DEF IssueHandoff, RevokedHasNothing
  <2> QED
    BY <2>1, <2>2, <2>3
<1>2. ASSUME NEW r \in Requests, CreateSession(r) PROVE RevokedHasNothing'
  <2>1. PICK new \in NewSessions : pocket' = Created(new, pocket)
    BY <1>2 DEF CreateSession
  <2>2. \A p \in Sessions : pocket'[p] = "revoked" => pocket[p] = "revoked"
    BY <2>1 DEF Created
  <2> QED
    BY <1>2, <2>2, SessionsKept DEF CreateSession, TypeOK
<1>3. ASSUME NEW b \in Browsers, Notice(b) PROVE RevokedHasNothing'
  <2>1. PICK P : pocket' = Ended(P) /\ google' = Without(LinkedTo(P))
    BY <1>3 DEF Notice
  <2>2. \A p \in Sessions : pocket'[p] = "revoked" => pocket[p] = "revoked" \/ p \in P
    BY <2>1 DEF Ended
  <2>3. google' = Without(LinkedTo(P) \cup {})
    BY <2>1 DEF Without
  <2> QED
    BY <2>2, <2>3, RevocationReaches
<1>4. ASSUME NEW b \in Browsers, Logout(b) PROVE RevokedHasNothing'
  <2>1. \A p \in Sessions : pocket'[p] = "revoked" => pocket[p] = "revoked" \/ p \in jar[b].pocket
    BY <1>4 DEF Logout, Ended
  <2> QED
    BY <1>4, <2>1, RevocationReaches DEF Logout
<1>5. ASSUME NEW p \in Sessions, AppLogout(p) PROVE RevokedHasNothing'
  <2>1. \A q \in Sessions : pocket'[q] = "revoked" => pocket[q] = "revoked" \/ q \in {p}
    BY <1>5 DEF AppLogout, Ended
  <2>2. google' = Without(LinkedTo({p}) \cup {})
    BY <1>5 DEF AppLogout, Without
  <2> QED
    BY <2>1, <2>2, RevocationReaches
<1>6. ASSUME NEW p \in Sessions, RunOut(p) PROVE RevokedHasNothing'
  BY <1>6 DEF RunOut, TypeOK, RevokedHasNothing
<1>7. ASSUME NEW r \in Requests, InsertGoogle(r) PROVE RevokedHasNothing'
  <2>1. PICK p \in Insertable(r), id \in GoogleIds :
          google' = [google EXCEPT ![id] = [session |-> {p}, token |-> "fresh"]]
    BY <1>7 DEF InsertGoogle
  <2>2. pocket[p] = "live" /\ pocket' = pocket
    BY <1>7 DEF InsertGoogle, Insertable, Alive
  <2> QED
    BY <2>1, <2>2 DEF TypeOK, RevokedHasNothing
<1>8. ASSUME NEW r \in Requests, ReadGoogle(r) \/ Refresh(r) \/ RefreshRefused(r) PROVE RevokedHasNothing'
  <2>1. \A id \in GoogleIds : google'[id].session \subseteq google[id].session
    BY <1>8 DEF ReadGoogle, Refresh, RefreshRefused, Without, Gone, TypeOK
  <2> QED
    BY <1>8, <2>1, SessionsKept DEF ReadGoogle, Refresh, RefreshRefused
<1>9. ASSUME NEW id \in GoogleIds, TokenAges(id) PROVE RevokedHasNothing'
  <2>1. \A i \in GoogleIds : google'[i].session \subseteq google[i].session
    BY <1>9 DEF TokenAges, TypeOK
  <2> QED
    BY <1>9, <2>1, SessionsKept DEF TokenAges
<1>10. ASSUME UNCHANGED <<pocket, google>> PROVE RevokedHasNothing'
  BY <1>10 DEF RevokedHasNothing
<1>11. ASSUME NEW r \in Requests, Provider(r), ~Issue(r), ~CreateSession(r) PROVE UNCHANGED <<pocket, google>>
  BY <1>11 DEF Provider, CallbackFails, Callback, Exchange, tables
<1>12. ASSUME NEW r \in Requests, Google(r) \/ Finish(r),
              ~InsertGoogle(r), ~ReadGoogle(r), ~Refresh(r), ~RefreshRefused(r)
       PROVE  UNCHANGED <<pocket, google>>
  BY <1>12 DEF Google, Finish, GoogleTokens, NeedConsent, GoogleCallback, Gateway, tables
<1>13. ASSUME NEW b \in Browsers, Browser(b), ~Notice(b), ~Logout(b) PROVE UNCHANGED <<pocket, google>>
  BY <1>13 DEF Browser, BadCallback, Begin, BeginGoogle, tables
<1>14. ASSUME Time, \A p \in Sessions : ~RunOut(p) /\ ~AppLogout(p), \A id \in GoogleIds : ~TokenAges(id)
       PROVE  UNCHANGED <<pocket, google>>
  BY <1>14 DEF Time, SignInExpires, HandoffExpires, ConsentExpires
<1>15. CASE Stop \/ UNCHANGED vars
  BY <1>10, <1>15 DEF Stop, vars, tables
<1> QED
  BY <1>1, <1>2, <1>3, <1>4, <1>5, <1>6, <1>7, <1>8, <1>9, <1>10, <1>11, <1>12, <1>13, <1>14, <1>15
  DEF Next

\* No Google session belongs to a revoked session, whatever Google sign-in or refresh
\* was under way when revoke_pocket_session_in ran.
THEOREM RevocationIsComplete == Spec => []RevokedHasNothing
<1>1. Init => RevokedHasNothing
  BY DEF Init, RevokedHasNothing, Unused
<1> QED
  BY <1>1, RevokedNext, TypeCorrect, PTL DEF Spec

----------------------------------------------------------------------------
(* Handoffs. *)

\* The handoffs of requests being exchanged and of the sessions that came from them
\* are spent and all different.
ExchangeInv ==
  /\ \A r \in Requests : \A h \in work[r].handoff : handoff[h] = "spent"
  /\ \A p \in Sessions : \A h \in origin[p] : handoff[h] = "spent"
  /\ \A r \in Requests, p \in Sessions : work[r].handoff \cap origin[p] = {}
  /\ \A r, q \in Requests : r # q => work[r].handoff \cap work[q].handoff = {}
  /\ \A p, q \in Sessions : p # q => origin[p] \cap origin[q] = {}

\* Steps that spend no handoff.
LEMMA HandoffsKept ==
  ASSUME TypeOK, ExchangeInv, origin' = origin,
         \A h \in Handoffs : handoff[h] = "spent" => handoff'[h] = "spent",
         \A r \in Requests : work'[r].handoff \subseteq work[r].handoff
  PROVE  ExchangeInv'
BY DEF TypeOK, ExchangeInv

\* The same for steps that touch no request.
LEMMA HandoffOnly ==
  ASSUME TypeOK, ExchangeInv, UNCHANGED <<origin, work>>,
         \A h \in Handoffs : handoff[h] = "spent" => handoff'[h] = "spent"
  PROVE  ExchangeInv'
BY HandoffsKept

\* exchange_mobile_session deletes an open handoff, which nobody holds yet, and hands
\* it on to the session it creates.
LEMMA ExchangeProvider ==
  ASSUME TypeOK, ExchangeInv, NEW r \in Requests, Provider(r)
  PROVE  ExchangeInv'
<1> USE DEF Ends, Idle
<1>1. ASSUME Issue(r) PROVE ExchangeInv'
  <2>1. \A h \in Handoffs : handoff[h] = "spent" => handoff'[h] = "spent"
    BY <1>1 DEF Issue, IssueSession, IssueHandoff, TypeOK
  <2>2. \A q \in Requests : work'[q].handoff \subseteq work[q].handoff
    BY <1>1 DEF Issue, TypeOK
  <2> QED
    BY <1>1, <2>1, <2>2, HandoffsKept DEF Issue
<1>2. CASE CallbackFails(r)
  <2>1. \A q \in Requests : work'[q].handoff \subseteq work[q].handoff
    BY <1>2 DEF CallbackFails, TypeOK
  <2> QED
    BY <1>2, <2>1, HandoffsKept DEF CallbackFails, tables
<1>3. CASE CreateSession(r)
  <2>1. PICK new \in NewSessions : origin' = [origin EXCEPT ![new] = work[r].handoff]
    BY <1>3 DEF CreateSession
  <2>2. new \in Sessions /\ handoff' = handoff
    BY <1>3 DEF CreateSession, NewSessions
  <2>3. \A q \in Requests : work'[q].handoff = IF q = r THEN {} ELSE work[q].handoff
    BY <1>3 DEF CreateSession, TypeOK
  <2>4. \A p \in Sessions : origin'[p] = IF p = new THEN work[r].handoff ELSE origin[p]
    BY <2>1, <2>2 DEF TypeOK
  <2> QED
    BY <2>2, <2>3, <2>4 DEF ExchangeInv
<1>4. ASSUME NEW b \in Browsers, Callback(r, b) PROVE ExchangeInv'
  <2>1. \A q \in Requests : work'[q].handoff \subseteq work[q].handoff
    BY <1>4 DEF Callback, Begins, TypeOK
  <2> QED
    BY <1>4, <2>1, HandoffsKept DEF Callback, tables
<1>5. ASSUME NEW h \in Handoffs, Exchange(r, h) PROVE ExchangeInv'
  <2>1. handoff[h] = "open" /\ origin' = origin
    BY <1>5 DEF Exchange
  <2>2. \A g \in Handoffs : handoff'[g] = IF g = h THEN "spent" ELSE handoff[g]
    BY <1>5 DEF Exchange, Spent, TypeOK
  <2>3. \A q \in Requests : work'[q].handoff = IF q = r THEN {h} ELSE work[q].handoff
    BY <1>5 DEF Exchange, Begins, TypeOK
  <2>4. /\ \A q \in Requests : h \notin work[q].handoff
        /\ \A p \in Sessions : h \notin origin[p]
    BY <2>1 DEF ExchangeInv
  <2>5. /\ \A q \in Requests : work[q].handoff \subseteq Handoffs
        /\ \A p \in Sessions : origin[p] \subseteq Handoffs
    BY DEF TypeOK
  <2>6. \A q \in Requests : \A g \in work'[q].handoff : handoff'[g] = "spent"
    BY <2>2, <2>3, <2>5 DEF ExchangeInv
  <2>7. \A p \in Sessions : \A g \in origin[p] : handoff'[g] = "spent"
    BY <2>2, <2>5 DEF ExchangeInv
  <2>8. \A q \in Requests, p \in Sessions : work'[q].handoff \cap origin[p] = {}
    BY <2>3, <2>4 DEF ExchangeInv
  <2>9. \A q, t \in Requests : q # t => work'[q].handoff \cap work'[t].handoff = {}
    BY <2>3, <2>4 DEF ExchangeInv
  <2> QED
    BY <2>1, <2>6, <2>7, <2>8, <2>9 DEF ExchangeInv
<1> QED
  BY <1>1, <1>2, <1>3, <1>4, <1>5 DEF Provider

\* Requests about Google hold no handoff.
LEMMA ExchangeGoogle ==
  ASSUME TypeOK, ExchangeInv, NEW r \in Requests, Google(r) \/ Finish(r)
  PROVE  ExchangeInv'
<1>1. UNCHANGED <<handoff, origin>>
  <2>1. GoogleTokens(r) \/ InsertGoogle(r) => UNCHANGED <<handoff, origin>>
    BY DEF GoogleTokens, InsertGoogle
  <2>2. ReadGoogle(r) \/ Refresh(r) \/ RefreshRefused(r) => UNCHANGED <<handoff, origin>>
    BY DEF ReadGoogle, Refresh, RefreshRefused
  <2>3. ASSUME NEW c \in Consents, NeedConsent(r, c) PROVE UNCHANGED <<handoff, origin>>
    BY <2>3 DEF NeedConsent
  <2>4. ASSUME NEW b \in Browsers, NEW c \in Consents, GoogleCallback(r, b, c)
        PROVE  UNCHANGED <<handoff, origin>>
    BY <2>4 DEF GoogleCallback
  <2>5. ASSUME NEW b \in Browsers, Gateway(r, b) PROVE UNCHANGED <<handoff, origin>>
    BY <2>5 DEF Gateway, tables
  <2>6. Finish(r) => UNCHANGED <<handoff, origin>>
    BY DEF Finish, tables
  <2> QED
    BY <2>1, <2>2, <2>3, <2>4, <2>5, <2>6 DEF Google
<1>2. CASE \E kind : Continues(r, kind)
  <2>1. \A q \in Requests : work'[q].handoff \subseteq work[q].handoff
    BY <1>2, WorkType, ContinuesFields
  <2> QED
    BY <1>1, <2>1, HandoffsKept
<1>3. CASE Ends(r)
  <2>1. \A q \in Requests : work'[q].handoff \subseteq work[q].handoff
    BY <1>3, WorkType, EndsFields DEF Idle
  <2> QED
    BY <1>1, <2>1, HandoffsKept
<1>4. ASSUME NEW b \in Browsers, Gateway(r, b) \/ \E c \in Consents : GoogleCallback(r, b, c)
      PROVE  ExchangeInv'
  <2>1. PICK request : request.handoff = {} /\ Begins(r, request)
    BY <1>4 DEF Gateway, GoogleCallback, Idle
  <2>2. \A q \in Requests : work'[q].handoff \subseteq work[q].handoff
    BY <2>1, WorkType, BeginsFields
  <2> QED
    BY <1>1, <2>2, HandoffsKept
<1>5. ASSUME GoogleTokens(r) \/ Refresh(r) \/ ReadGoogle(r) PROVE Ends(r) \/ \E kind : Continues(r, kind)
  BY <1>5 DEF GoogleTokens, Refresh, ReadGoogle
<1>6. ASSUME InsertGoogle(r) \/ RefreshRefused(r) \/ Finish(r) \/ \E c \in Consents : NeedConsent(r, c)
      PROVE  Ends(r)
  BY <1>6 DEF InsertGoogle, RefreshRefused, Finish, NeedConsent
<1> QED
  BY <1>2, <1>3, <1>4, <1>5, <1>6 DEF Google

\* Browsers, the clock and a stop of the server revive no handoff.
LEMMA ExchangeNext == TypeOK /\ ExchangeInv /\ [Next]_vars => ExchangeInv'
<1> SUFFICES ASSUME TypeOK, ExchangeInv, [Next]_vars PROVE ExchangeInv'
  OBVIOUS
<1>1. ASSUME NEW b \in Browsers, Browser(b) PROVE ExchangeInv'
  BY <1>1, HandoffOnly DEF Browser, BadCallback, Notice, Logout, Begin, BeginGoogle, tables
<1>2. CASE Time
  <2>1. UNCHANGED <<work, origin>>
    BY <1>2 DEF Time, SignInExpires, HandoffExpires, RunOut, AppLogout, ConsentExpires, TokenAges
  <2>2. \A h \in Handoffs : handoff[h] = "spent" => handoff'[h] = "spent"
    BY <1>2 DEF TypeOK, Time, SignInExpires, HandoffExpires, RunOut, AppLogout, ConsentExpires, TokenAges
  <2> QED
    BY <2>1, <2>2, HandoffOnly
<1>3. CASE Stop
  <2>1. \A q \in Requests : work'[q].handoff \subseteq work[q].handoff
    BY <1>3 DEF Stop, Idle, TypeOK
  <2> QED
    BY <1>3, <2>1, HandoffsKept DEF Stop, tables
<1>4. CASE UNCHANGED vars
  BY <1>4, HandoffOnly DEF vars, tables
<1> QED
  BY <1>1, <1>2, <1>3, <1>4, ExchangeProvider, ExchangeGoogle DEF Next

\* exchange_mobile_session turns a handoff into at most one session, whichever
\* requests present it and wherever the server stops.
THEOREM HandoffsExchangeOnce == Spec => []ExchangedOnce
<1>1. Init => ExchangeInv
  BY DEF Init, ExchangeInv, Idle
<1>2. ExchangeInv => ExchangedOnce
  BY DEF ExchangeInv, ExchangedOnce
<1> QED
  BY <1>1, <1>2, ExchangeNext, TypeCorrect, PTL DEF Spec

----------------------------------------------------------------------------
(* Requests for the spreadsheet. *)

\* A cookie names at most one Google session, which exists or existed; a request that
\* is renewing its access token has found it to be of its own session.
GatewayInv ==
  /\ \A b \in Browsers : \A i, j \in jar[b].google : i = j /\ google[i].token # "unused"
  /\ \A r \in Requests : \A i, j \in work[r].google : i = j /\ google[i].token # "unused"
  /\ \A r \in Requests : \A i \in work[r].google \cap Rows :
       work[r].kind = "refresh" => google[i].session = work[r].session

\* Steps that link no Google session and let no request begin a renewal.
LEMMA GatewayKept ==
  ASSUME TypeOK, GatewayInv,
         \A b \in Browsers : jar'[b].google \subseteq jar[b].google,
         \A i \in GoogleIds : /\ google[i].token # "unused" => google'[i].token # "unused"
                              /\ google'[i].session \in {{}, google[i].session},
         \A r \in Requests :
           \/ work'[r] = work[r] \/ work'[r].google = {}
           \/ work'[r].google = work[r].google /\ work'[r].kind # "refresh"
  PROVE  GatewayInv'
<1>1. \A b \in Browsers : jar[b].google \subseteq GoogleIds
  BY DEF TypeOK
<1>2. \A r \in Requests : work[r].google \subseteq GoogleIds
  BY DEF TypeOK
<1>3. \A b \in Browsers : \A i, j \in jar'[b].google : i = j /\ google'[i].token # "unused"
  BY <1>1 DEF GatewayInv
<1>4. \A r \in Requests : work'[r].google \subseteq work[r].google
  OBVIOUS
<1>5. \A r \in Requests : \A i, j \in work'[r].google : i = j /\ google'[i].token # "unused"
  BY <1>2, <1>4 DEF GatewayInv
<1>6. ASSUME NEW r \in Requests, NEW i \in work'[r].google, google'[i].session # {}, work'[r].kind = "refresh"
      PROVE  google'[i].session = work'[r].session
  <2>1. work'[r] = work[r]
    BY <1>6
  <2>2. i \in GoogleIds /\ google'[i].session = google[i].session
    BY <1>2, <1>6, <2>1
  <2> QED
    BY <1>6, <2>1, <2>2 DEF GatewayInv, Rows
<1> QED
  BY <1>3, <1>5, <1>6 DEF GatewayInv, Rows

\* The steps of requests about Google; current_access_token compares the link with
\* the session before it asks for a renewal.
LEMMA GatewayGoogle ==
  ASSUME TypeOK, GatewayInv, NEW r \in Requests, Google(r)
  PROVE  GatewayInv'
<1>1. CASE InsertGoogle(r)
  <2>1. PICK p \in Insertable(r), b \in work[r].browser, id \in GoogleIds :
          /\ google[id] = Unused
          /\ google' = [google EXCEPT ![id] = [session |-> {p}, token |-> "fresh"]]
          /\ jar' = [jar EXCEPT ![b].google = {id}]
    BY <1>1 DEF InsertGoogle
  <2>2. \A i \in GoogleIds : i # id => google'[i] = google[i]
    BY <2>1 DEF TypeOK
  <2>3. google'[id].token = "fresh" /\ google[id].token = "unused"
    BY <2>1 DEF TypeOK, Unused
  <2>4. \A c \in Browsers : jar'[c].google = jar[c].google \/ jar'[c].google = {id}
    BY <2>1 DEF TypeOK
  <2>5. \A q \in Requests : work'[q] = IF q = r THEN Idle ELSE work[q]
    BY <1>1 DEF InsertGoogle, Ends, TypeOK
  <2>6. \A q \in Requests : id \notin work[q].google
    BY <2>3 DEF GatewayInv
  <2>7. /\ \A c \in Browsers : jar[c].google \subseteq GoogleIds
        /\ \A q \in Requests : work[q].google \subseteq GoogleIds
    BY DEF TypeOK
  <2>8. \A c \in Browsers : \A i, j \in jar'[c].google : i = j /\ google'[i].token # "unused"
    BY <2>2, <2>3, <2>4, <2>7 DEF GatewayInv
  <2>9. \A q \in Requests : \A i \in work'[q].google : work'[q] = work[q] /\ google'[i] = google[i]
    BY <2>2, <2>5, <2>6, <2>7 DEF Idle
  <2>10. \A q \in Requests : \A i, j \in work'[q].google : i = j /\ google'[i].token # "unused"
    BY <2>9 DEF GatewayInv
  <2>11. \A q \in Requests : \A i \in work'[q].google \cap Rows' :
           work'[q].kind = "refresh" => google'[i].session = work'[q].session
    BY <2>7, <2>9 DEF GatewayInv, Rows
  <2> QED
    BY <2>8, <2>10, <2>11 DEF GatewayInv
<1>2. CASE ReadGoogle(r)
  <2>1. PICK id \in work[r].google \cap Rows :
          IF google[id].session = work[r].session /\ google[id].token # "over"
          THEN /\ Continues(r, IF google[id].token = "fresh" THEN "calling" ELSE "refresh")
               /\ UNCHANGED google
          ELSE Ends(r) /\ google' = Without({id})
    BY <1>2 DEF ReadGoogle
  <2>2. jar' = jar
    BY <1>2 DEF ReadGoogle
  <2>3. CASE google[id].session = work[r].session /\ google[id].token # "over"
    <3>1. google' = google /\ \E kind : Continues(r, kind)
      BY <2>1, <2>3
    <3>2. \A q \in Requests : /\ work'[q].google = work[q].google /\ work'[q].session = work[q].session
                              /\ q # r => work'[q].kind = work[q].kind
      BY <3>1 DEF Continues, TypeOK
    <3>3. \A i \in work[r].google : i = id
      BY DEF GatewayInv
    <3> QED
      BY <2>2, <2>3, <3>1, <3>2, <3>3 DEF GatewayInv, Rows
  <2>4. CASE ~(google[id].session = work[r].session /\ google[id].token # "over")
    <3>1. Ends(r) /\ google' = Without({id})
      BY <2>1, <2>4
    <3>2. \A i \in GoogleIds : /\ google[i].token # "unused" => google'[i].token # "unused"
                               /\ google'[i].session \in {{}, google[i].session}
      BY <3>1 DEF TypeOK, Without, Gone
    <3>3. \A q \in Requests : work'[q] = work[q] \/ work'[q].google = {}
      BY <3>1 DEF Ends, Idle, TypeOK
    <3> QED
      BY <2>2, <3>2, <3>3, GatewayKept
  <2> QED
    BY <2>3, <2>4
<1>3. CASE Refresh(r)
  <2>1. \A i \in GoogleIds : /\ google[i].token # "unused" => google'[i].token # "unused"
                             /\ google'[i].session \in {{}, google[i].session}
    BY <1>3 DEF Refresh, TypeOK
  <2>2. \A q \in Requests : work'[q] = work[q] \/ (work'[q].google = work[q].google /\ work'[q].kind # "refresh")
    <3>1. Continues(r, "calling")
      BY <1>3 DEF Refresh
    <3> QED
      BY <3>1, WorkType DEF Continues, Request
  <2> QED
    BY <1>3, <2>1, <2>2, GatewayKept DEF Refresh
<1>4. CASE RefreshRefused(r)
  <2>1. \A i \in GoogleIds : /\ google[i].token # "unused" => google'[i].token # "unused"
                             /\ google'[i].session \in {{}, google[i].session}
    BY <1>4 DEF RefreshRefused, Without, Gone, TypeOK
  <2>2. \A q \in Requests : work'[q] = work[q] \/ work'[q].google = {}
    BY <1>4 DEF RefreshRefused, Ends, Idle, TypeOK
  <2> QED
    BY <1>4, <2>1, <2>2, GatewayKept DEF RefreshRefused
<1>5. ASSUME NEW b \in Browsers, Gateway(r, b) PROVE GatewayInv'
  <2>1. UNCHANGED <<google, jar>>
    BY <1>5 DEF Gateway, tables
  <2>2. \A q \in Requests : IF q = r THEN work'[q].kind = "read" /\ work'[q].google = jar[b].google
                            ELSE work'[q] = work[q]
    BY <1>5 DEF Gateway, Begins, Idle, TypeOK
  <2> QED
    BY <2>1, <2>2 DEF GatewayInv, Rows
<1>6. CASE GoogleTokens(r)
  <2>1. UNCHANGED <<google, jar>>
    BY <1>6 DEF GoogleTokens
  <2>2. \A q \in Requests : work'[q] = work[q] \/ (work'[q].google = work[q].google /\ work'[q].kind # "refresh")
    <3>1. Continues(r, "insert")
      BY <1>6 DEF GoogleTokens
    <3> QED
      BY <3>1, WorkType DEF Continues, Request
  <2> QED
    BY <2>1, <2>2, GatewayKept
<1>7. ASSUME NEW c \in Consents, NeedConsent(r, c) PROVE GatewayInv'
  <2>1. UNCHANGED <<google, jar>> /\ Ends(r)
    BY <1>7 DEF NeedConsent
  <2>2. \A q \in Requests : work'[q] = work[q] \/ work'[q].google = {}
    BY <2>1, WorkType, EndsFields DEF Idle
  <2> QED
    BY <2>1, <2>2, GatewayKept
<1>8. ASSUME NEW c \in Consents, NEW b \in Browsers, GoogleCallback(r, b, c) PROVE GatewayInv'
  <2>1. UNCHANGED <<google, jar>>
    BY <1>8 DEF GoogleCallback
  <2>2. \A q \in Requests : work'[q] = work[q] \/ work'[q].google = {}
    BY <1>8, WorkType DEF GoogleCallback, Begins, Idle, Request
  <2> QED
    BY <2>1, <2>2, GatewayKept
<1> QED
  BY <1>1, <1>2, <1>3, <1>4, <1>5, <1>6, <1>7, <1>8 DEF Google

\* All other steps only delete Google sessions and cookies that name them.
LEMMA GatewayOthers ==
  ASSUME TypeOK, GatewayInv,
         \A b \in Browsers : jar'[b].google \in {{}, jar[b].google},
         google' = google \/ \E ids : google' = Without(ids),
         \A r \in Requests : work'[r] = work[r] \/ work'[r].google = {}
  PROVE  GatewayInv'
<1>1. \A i \in GoogleIds : /\ google[i].token # "unused" => google'[i].token # "unused"
                           /\ google'[i].session \in {{}, google[i].session}
  BY DEF Without, Gone
<1> QED
  BY <1>1, GatewayKept

\* Every step keeps GatewayInv.
LEMMA GatewayNext == TypeOK /\ GatewayInv /\ [Next]_vars => GatewayInv'
<1> SUFFICES ASSUME TypeOK, GatewayInv, [Next]_vars PROVE GatewayInv'
  OBVIOUS
<1>1. ASSUME NEW r \in Requests, Provider(r) \/ Finish(r) PROVE GatewayInv'
  <2>1. google' = google \/ \E ids : google' = Without(ids)
    BY <1>1 DEF Provider, Finish, Issue, IssueSession, IssueHandoff, CallbackFails, CreateSession,
                Callback, Exchange, tables
  <2>2. \A b \in Browsers : jar'[b].google = jar[b].google
    <3>1. CASE Issue(r)
      BY <3>1 DEF Issue, IssueSession, IssueHandoff, TypeOK
    <3>2. CASE CallbackFails(r)
      BY <3>2 DEF CallbackFails, TypeOK
    <3>3. CASE ~Issue(r) /\ ~CallbackFails(r)
      BY <1>1, <3>3 DEF Provider, Finish, CreateSession, Callback, Exchange
    <3> QED
      BY <3>1, <3>2, <3>3
  <2>3. \A q \in Requests : work'[q] = work[q] \/ work'[q].google = {}
    <3>1. ASSUME Issue(r) \/ CallbackFails(r) \/ CreateSession(r) \/ Finish(r) PROVE Ends(r)
      BY <3>1 DEF Issue, CallbackFails, CreateSession, Finish
    <3>2. CASE Ends(r)
      BY <3>2, WorkType, EndsFields DEF Idle
    <3>3. ASSUME NEW b \in Browsers, Callback(r, b)
          PROVE  \A q \in Requests : work'[q] = work[q] \/ work'[q].google = {}
      BY <3>3, WorkType DEF Callback, Begins, Idle, Request
    <3>4. ASSUME NEW h \in Handoffs, Exchange(r, h)
          PROVE  \A q \in Requests : work'[q] = work[q] \/ work'[q].google = {}
      BY <3>4, WorkType DEF Exchange, Begins, Idle, Request
    <3> QED
      BY <1>1, <3>1, <3>2, <3>3, <3>4 DEF Provider
  <2> QED
    BY <2>1, <2>2, <2>3, GatewayOthers
<1>2. ASSUME NEW b \in Browsers, Browser(b) PROVE GatewayInv'
  <2>1. google' = google \/ \E ids : google' = Without(ids)
    BY <1>2 DEF Browser, BadCallback, Notice, Logout, Begin, BeginGoogle, tables
  <2>2. \A c \in Browsers : jar'[c].google \in {{}, jar[c].google}
    <3>1. CASE Logout(b)
      BY <3>1 DEF Logout, TypeOK
    <3>2. CASE BadCallback(b)
      BY <3>2 DEF BadCallback, TypeOK
    <3>3. ASSUME NEW s \in SignIns, Begin(b, s) PROVE \A c \in Browsers : jar'[c].google \in {{}, jar[c].google}
      BY <3>3 DEF Begin, TypeOK
    <3>4. CASE Notice(b) \/ \E c \in Consents : BeginGoogle(b, c)
      BY <3>4 DEF Notice, BeginGoogle
    <3> QED
      BY <1>2, <3>1, <3>2, <3>3, <3>4 DEF Browser
  <2>3. work' = work
    BY <1>2 DEF Browser, BadCallback, Notice, Logout, Begin, BeginGoogle
  <2> QED
    BY <2>1, <2>2, <2>3, GatewayOthers
<1>3. ASSUME NEW id \in GoogleIds, TokenAges(id) PROVE GatewayInv'
  <2>1. \A i \in GoogleIds : /\ google[i].token # "unused" => google'[i].token # "unused"
                             /\ google'[i].session \in {{}, google[i].session}
    BY <1>3 DEF TokenAges, TypeOK
  <2> QED
    BY <1>3, <2>1, GatewayKept DEF TokenAges
<1>4. ASSUME Time, \A id \in GoogleIds : ~TokenAges(id) PROVE GatewayInv'
  <2>1. UNCHANGED <<jar, work>> /\ (google' = google \/ \E ids : google' = Without(ids))
    BY <1>4 DEF Time, SignInExpires, HandoffExpires, RunOut, AppLogout, ConsentExpires
  <2> QED
    BY <2>1, GatewayOthers
<1>5. CASE Stop
  <2>1. UNCHANGED <<jar, google>> /\ \A q \in Requests : work'[q].google = {}
    BY <1>5 DEF Stop, Idle, tables
  <2> QED
    BY <2>1, GatewayOthers
<1>6. CASE UNCHANGED vars
  BY <1>6, GatewayOthers DEF vars, tables
<1> QED
  BY <1>1, <1>2, <1>3, <1>4, <1>5, <1>6, GatewayGoogle DEF Next

\* A request goes on to the spreadsheet from one of two steps: it found a fresh token,
\* or its renewed token was stored.
LEMMA CallStep ==
  ASSUME TypeOK, RevokedHasNothing, GatewayInv, [Next]_vars,
         NEW r \in Requests, NEW p \in work[r].session,
         work'[r].kind = "calling", work[r].kind # "calling"
  PROVE  pocket[p] # "revoked" /\ (work[r].kind = "refresh" => pocket[p] = "live")
<1>1. CASE ReadGoogle(r)
  <2>1. PICK id \in work[r].google \cap Rows :
          IF google[id].session = work[r].session /\ google[id].token # "over"
          THEN Continues(r, IF google[id].token = "fresh" THEN "calling" ELSE "refresh")
          ELSE Ends(r)
    BY <1>1 DEF ReadGoogle
  <2>2. ~Ends(r)
    BY WorkType, EndsFields DEF Idle
  <2> QED
    BY <1>1, <2>1, <2>2 DEF ReadGoogle, RevokedHasNothing, Rows
<1>2. CASE Refresh(r)
  <2>1. PICK id \in Renewable(r) : TRUE
    BY <1>2 DEF Refresh, Renewed
  <2>2. google[id].session = work[r].session
    BY <1>2, <2>1 DEF Refresh, Renewable, GatewayInv
  <2> QED
    BY <2>1, <2>2 DEF Renewable
<1>3. ReadGoogle(r) \/ Refresh(r)
  <2> SUFFICES ASSUME ~ReadGoogle(r), ~Refresh(r) PROVE work'[r].kind # "calling" \/ work'[r].kind = work[r].kind
    OBVIOUS
  <2>1. ASSUME NEW q \in Requests, Ends(q) PROVE work'[r].kind # "calling" \/ work'[r].kind = work[r].kind
    BY <2>1, WorkType, EndsFields DEF Idle
  <2>2. ASSUME NEW q \in Requests, ReadGoogle(q) \/ Refresh(q) PROVE work'[r].kind = work[r].kind
    <3>1. q # r
      BY <2>2
    <3> QED
      BY <2>2, <3>1, WorkType, EndsFields, ContinuesFields DEF ReadGoogle, Refresh
  <2>3. ASSUME NEW q \in Requests, GoogleTokens(q) PROVE work'[r].kind # "calling" \/ work'[r].kind = work[r].kind
    <3>1. Continues(q, "insert")
      BY <2>3 DEF GoogleTokens
    <3> QED
      BY <3>1, WorkType, ContinuesFields
  <2>4. ASSUME NEW q \in Requests, \E h \in Handoffs : Exchange(q, h)
        PROVE  work'[r].kind # "calling" \/ work'[r].kind = work[r].kind
    BY <2>4, WorkType DEF Exchange, Begins, Idle, Request
  <2>5. ASSUME NEW q \in Requests, NEW b \in Browsers, Callback(q, b) \/ Gateway(q, b)
        PROVE  work'[r].kind # "calling" \/ work'[r].kind = work[r].kind
    BY <2>5, WorkType DEF Callback, Gateway, Begins, Idle, Request
  <2>6. ASSUME NEW q \in Requests, NEW b \in Browsers, NEW c \in Consents, GoogleCallback(q, b, c)
        PROVE  work'[r].kind # "calling" \/ work'[r].kind = work[r].kind
    BY <2>6, WorkType DEF GoogleCallback, Begins, Idle, Request
  <2>7. ASSUME NEW b \in Browsers, Browser(b) PROVE work' = work
    BY <2>7 DEF Browser, BadCallback, Notice, Logout, Begin, BeginGoogle
  <2>8. CASE Time
    BY <2>8 DEF Time, SignInExpires, HandoffExpires, RunOut, AppLogout, ConsentExpires, TokenAges
  <2>9. CASE Stop \/ UNCHANGED vars
    BY <2>9 DEF Stop, Idle, vars
  <2>10. ASSUME NEW q \in Requests,
                Issue(q) \/ CallbackFails(q) \/ CreateSession(q) \/ Finish(q) \/ InsertGoogle(q)
                  \/ RefreshRefused(q) \/ \E c \in Consents : NeedConsent(q, c)
         PROVE  Ends(q)
    BY <2>10 DEF Issue, CallbackFails, CreateSession, Finish, InsertGoogle, RefreshRefused, NeedConsent
  <2> QED
    BY <2>1, <2>2, <2>3, <2>4, <2>5, <2>6, <2>7, <2>8, <2>9, <2>10 DEF Next, Provider, Google
<1> QED
  BY <1>1, <1>2, <1>3

\* current_access_token gives no token under a session revoked since the request was
\* let in, and after a renewal only under one that still lasts.
THEOREM CallsAreUnderSessions == Spec => CalledUnderSession
<1>1. Init => GatewayInv
  BY DEF Init, GatewayInv, Idle, Unused
<1>2. TypeOK /\ RevokedHasNothing /\ GatewayInv /\ [Next]_vars =>
        [\A r \in Requests : \A p \in work[r].session :
           work'[r].kind = "calling" /\ work[r].kind # "calling" =>
             pocket[p] # "revoked" /\ (work[r].kind = "refresh" => pocket[p] = "live")]_vars
  BY CallStep
<1> QED
  BY <1>1, <1>2, GatewayNext, TypeCorrect, RevocationIsComplete, PTL DEF Spec, CalledUnderSession
====
