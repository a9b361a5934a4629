----------------------------- MODULE LoginSessions -----------------------------
(***************************************************************************)
(* Signing in and out of the server (server/src/server.rs): sign-ins       *)
(* through the identity provider Pocket ID, the handoff to the app,        *)
(* Google consents and sessions, the refresh of Google access tokens for   *)
(* the spreadsheet gateway, and revocation.                                *)
(*                                                                         *)
(* Every database statement, or explicit transaction, is one step; the     *)
(* calls to the providers between them take as long as they like, and the  *)
(* server may stop in the middle of a request.  A request carries the      *)
(* cookies its browser had when it was sent; answers reach the browser at  *)
(* once.  Abstracted: codes, verifiers and tokens are identities, every    *)
(* member is allowed, and there is one Google account.                     *)
(***************************************************************************)
EXTENDS Integers, FiniteSets

CONSTANTS
  Browsers,      \* cookie jars
  SignIns,       \* states of sign-ins at the identity provider
  AppSignIns,    \* those begun by the app
  Handoffs,      \* handoff codes
  Sessions,      \* sessions, of browsers and of the app
  Consents,      \* states of sign-ins at Google
  GoogleIds,     \* Google sessions
  Requests       \* bound: requests the server handles at a time

ASSUME LoginAssumption == AppSignIns \subseteq SignIns

VARIABLES
  pocket,    \* pocket_sessions: "unused", "live", "over" (run out), "purged", "revoked"
  signin,    \* pocket_id_states: "unused", "open", "expired", "cancelled", "used"
  handoff,   \* pocket_mobile_handoffs: "unused", "open", "expired", "spent"
  consent,   \* oauth_states: the session a Google sign-in under way belongs to
  begun,     \* Google sign-ins ever begun, and those where consent is forced
  forced,
  google,    \* sessions: each Google session's session, and whether its token is
             \* "fresh" or "stale"; "over" (run out), "gone" (no row any more), "unused"
  account,   \* google_accounts: a refresh token is stored
  jar,       \* cookies of each browser
  work,      \* requests being handled
  issued,    \* history: the credential each sign-in gave
  origin     \* history: the handoff a session of the app came from

tables == <<pocket, signin, handoff, consent, begun, forced, google, account>>
vars == <<tables, jar, work, issued, origin>>

----------------------------------------------------------------------------
(* Requests and sessions. *)

Idle == [kind |-> "none", browser |-> {}, signin |-> {}, session |-> {}, google |-> {}, handoff |-> {}]
Begins(r, request) == work[r] = Idle /\ work' = [work EXCEPT ![r] = request]
Continues(r, kind) == work' = [work EXCEPT ![r].kind = kind]
Ends(r) == work' = [work EXCEPT ![r] = Idle]

Alive(P) == {p \in P : pocket[p] = "live"}
NewSessions == {p \in Sessions : pocket[p] = "unused"}

Unused == [session |-> {}, token |-> "unused"]
Gone == [session |-> {}, token |-> "gone"]
Rows == {id \in GoogleIds : google[id].session # {}}
Unlinked(ids) ==
  [id \in GoogleIds |-> IF id \in Rows \cap ids THEN [google[id] EXCEPT !.token = "gone"] ELSE google[id]]  \* mutant
Without(ids) == [id \in GoogleIds |-> IF id \in Rows \cap ids THEN Gone ELSE google[id]]

\* A session ends with everything that depends on it.
LinkedTo(P) == {id \in GoogleIds : google[id].session \cap P # {}}
Ended(P) == [p \in Sessions |-> IF p \in P /\ pocket[p] \in {"live", "over"} THEN "revoked" ELSE pocket[p]]
Unconsented(P) == [c \in Consents |-> consent[c] \ P]

\* Creating a session deletes those that have run out.
Created(new, sessions) ==
  [p \in Sessions |-> IF p = new THEN "live" ELSE IF sessions[p] = "over" THEN "purged" ELSE sessions[p]]

\* A request under a session that has run out revokes it.
Notice(b) ==
  LET P == {p \in jar[b].pocket : pocket[p] = "over"}
  IN /\ P # {}
     /\ pocket' = Ended(P) /\ google' = Without(LinkedTo(P)) /\ consent' = Unconsented(P)
     /\ UNCHANGED <<signin, handoff, begun, forced, account, jar, work, issued, origin>>

----------------------------------------------------------------------------
(* Sign-in at the identity provider. *)

\* The browser is sent to the provider with a cookie that binds the sign-in to it.
Begin(b, s) ==
  /\ signin[s] = "unused" /\ signin' = [signin EXCEPT ![s] = "open"]
  /\ jar' = [jar EXCEPT ![b].oauth = {s}]
  /\ UNCHANGED <<pocket, handoff, consent, begun, forced, google, account, work, issued, origin>>

SignInExpires(s) ==
  /\ signin[s] = "open" /\ signin' = [signin EXCEPT ![s] = "expired"]
  /\ UNCHANGED <<pocket, handoff, consent, begun, forced, google, account, jar, work, issued, origin>>

\* The browser comes back.  The sign-in stays open while the provider is asked.
Callback(r, b) ==
  /\ \E s \in jar[b].oauth :
       /\ signin[s] = "open"
       /\ Begins(r, [Idle EXCEPT !.kind = "callback", !.browser = {b}, !.signin = {s},
                                 !.session = jar[b].pocket])
  /\ UNCHANGED <<tables, jar, issued, origin>>

\* The sign-in is used up in the transaction that gives the credential and revokes
\* the browser's previous session.
OpenAlways(s) == TRUE   \* mutant
Open(s) == signin[s] = "open"
Used(s) == [signin EXCEPT ![s] = IF @ = "open" THEN "used" ELSE @]

IssueSession(r, s, b) ==
  /\ s \notin AppSignIns
  /\ \E new \in NewSessions :
       /\ pocket' = Created(new, Ended(work[r].session))
       /\ issued' = issued \cup {<<s, new>>}
       /\ jar' = [jar EXCEPT ![b].oauth = {}, ![b].pocket = {new}]
  /\ google' = Without(LinkedTo(work[r].session)) /\ consent' = Unconsented(work[r].session)
  /\ UNCHANGED handoff

IssueHandoff(s, b) ==
  /\ s \in AppSignIns
  /\ \E h \in Handoffs :
       /\ handoff[h] = "unused" /\ handoff' = [handoff EXCEPT ![h] = "open"]
       /\ issued' = issued \cup {<<s, h>>}
  /\ jar' = [jar EXCEPT ![b].oauth = {}]
  /\ UNCHANGED <<pocket, google, consent>>

Issue(r) ==
  /\ work[r].kind = "callback" /\ Ends(r)
  /\ \E s \in work[r].signin, b \in work[r].browser :
       Open(s) /\ signin' = Used(s) /\ (IssueSession(r, s, b) \/ IssueHandoff(s, b))
  /\ UNCHANGED <<begun, forced, account, origin>>

\* The provider refuses or cannot be reached, or the sign-in is no longer open.
CallbackFails(r) ==
  /\ work[r].kind = "callback" /\ Ends(r)
  /\ jar' = [b \in Browsers |-> IF b \in work[r].browser THEN [jar[b] EXCEPT !.oauth = {}] ELSE jar[b]]
  /\ UNCHANGED <<tables, issued, origin>>

\* A callback that is not of the browser's sign-in, was denied, or comes too late.
BadCallback(b) ==
  /\ jar[b].oauth # {} /\ jar' = [jar EXCEPT ![b].oauth = {}]
  /\ UNCHANGED <<tables, work, issued, origin>>

HandoffExpires(h) ==
  /\ handoff[h] = "open" /\ handoff' = [handoff EXCEPT ![h] = "expired"]
  /\ UNCHANGED <<pocket, signin, consent, begun, forced, google, account, jar, work, issued, origin>>

\* The app exchanges a handoff: it is deleted first, the session is created next.
SpentLater(h) == handoff   \* mutant
Spent(h) == [handoff EXCEPT ![h] = "spent"]
Exchange(r, h) ==
  /\ handoff[h] = "open" /\ handoff' = Spent(h)
  /\ Begins(r, [Idle EXCEPT !.kind = "exchange", !.handoff = {h}])
  /\ UNCHANGED <<pocket, signin, consent, begun, forced, google, account, jar, issued, origin>>

CreateSession(r) ==
  /\ work[r].kind = "exchange" /\ Ends(r)
  /\ \E new \in NewSessions :
       /\ pocket' = Created(new, pocket)
       /\ origin' = [origin EXCEPT ![new] = work[r].handoff]
  /\ UNCHANGED <<signin, handoff, consent, begun, forced, google, account, jar, issued>>

RunOut(p) ==
  /\ pocket[p] = "live" /\ pocket' = [pocket EXCEPT ![p] = "over"]
  /\ UNCHANGED <<signin, handoff, consent, begun, forced, google, account, jar, work, issued, origin>>

\* Signing out takes what the cookies name: the Google session, the session, and a
\* sign-in under way.
Logout(b) ==
  /\ pocket' = Ended(jar[b].pocket) /\ consent' = Unconsented(jar[b].pocket)
  /\ google' = Without(LinkedTo(jar[b].pocket) \cup jar[b].google)
  /\ signin' = [s \in SignIns |-> IF s \in jar[b].oauth /\ signin[s] = "open" THEN "cancelled" ELSE signin[s]]
  /\ jar' = [jar EXCEPT ![b] = [oauth |-> {}, pocket |-> {}, google |-> {}]]
  /\ UNCHANGED <<handoff, begun, forced, account, work, issued, origin>>

AppLogout(p) ==
  /\ origin[p] # {} /\ pocket[p] \in {"live", "over"}
  /\ pocket' = Ended({p}) /\ google' = Without(LinkedTo({p})) /\ consent' = Unconsented({p})
  /\ UNCHANGED <<signin, handoff, begun, forced, account, jar, work, issued, origin>>

----------------------------------------------------------------------------
(* Google: consents, sessions and access tokens. *)

\* A Google sign-in belongs to the session it was begun under.
BeginGoogle(b, c) ==
  /\ c \notin begun /\ Alive(jar[b].pocket) # {}
  /\ begun' = begun \cup {c} /\ consent' = [consent EXCEPT ![c] = Alive(jar[b].pocket)]
  /\ UNCHANGED <<pocket, signin, handoff, forced, google, account, jar, work, issued, origin>>

ConsentExpires(c) ==
  /\ consent[c] # {} /\ consent' = [consent EXCEPT ![c] = {}]
  /\ UNCHANGED <<pocket, signin, handoff, begun, forced, google, account, jar, work, issued, origin>>

\* The consent is used up before Google is asked for tokens.
GoogleCallback(r, b, c) ==
  /\ consent[c] # {} /\ consent[c] = Alive(jar[b].pocket)
  /\ consent' = [consent EXCEPT ![c] = {}]
  /\ Begins(r, [Idle EXCEPT !.kind = IF c \in forced THEN "consented" ELSE "consent",
                            !.browser = {b}, !.session = consent[c]])
  /\ UNCHANGED <<pocket, signin, handoff, begun, forced, google, account, jar, issued, origin>>

\* Google answers with or without a refresh token; one stored before will do.
GoogleTokens(r) ==
  /\ work[r].kind \in {"consent", "consented"} /\ Continues(r, "insert")
  /\ account' = TRUE
  /\ UNCHANGED <<pocket, signin, handoff, consent, begun, forced, google, jar, issued, origin>>

\* Without any refresh token the browser is sent back once to force the consent.
NeedConsent(r, c) ==
  /\ work[r].kind = "consent" /\ ~account /\ c \notin begun /\ Ends(r)
  /\ begun' = begun \cup {c} /\ forced' = forced \cup {c}
  /\ consent' = [consent EXCEPT ![c] = work[r].session]
  /\ UNCHANGED <<pocket, signin, handoff, google, account, jar, issued, origin>>

\* The Google session is created only if the session is still there.
InsertableAlways(r) == work[r].session   \* mutant
Insertable(r) == Alive(work[r].session)
InsertGoogle(r) ==
  /\ work[r].kind = "insert" /\ Ends(r)
  /\ \E p \in Insertable(r), b \in work[r].browser, id \in GoogleIds :
       /\ google[id] = Unused
       /\ google' = [google EXCEPT ![id] = [session |-> {p}, token |-> "fresh"]]
       /\ jar' = [jar EXCEPT ![b].google = {id}]
  /\ UNCHANGED <<pocket, signin, handoff, consent, begun, forced, account, issued, origin>>

\* An hour passes for the access token, or thirty days for the Google session.
TokenAges(id) ==
  /\ id \in Rows /\ google[id].token # "over"
  /\ \E t \in {"stale", "over"} \ {google[id].token} : google' = [google EXCEPT ![id].token = t]
  /\ UNCHANGED <<pocket, signin, handoff, consent, begun, forced, account, jar, work, issued, origin>>

\* A request for the spreadsheet: first its session is looked up ...
Gateway(r, b) ==
  /\ jar[b].google # {} /\ Alive(jar[b].pocket) # {}
  /\ Begins(r, [Idle EXCEPT !.kind = "read", !.session = jar[b].pocket, !.google = jar[b].google])
  /\ UNCHANGED <<tables, jar, issued, origin>>

\* ... then the Google session, which is deleted if it is not of this session.
ReadGoogle(r) ==
  /\ work[r].kind = "read"
  /\ \E id \in work[r].google \cap Rows :
       IF google[id].session = work[r].session /\ google[id].token # "over"
       THEN /\ Continues(r, IF google[id].token = "fresh" THEN "calling" ELSE "refresh")
            /\ UNCHANGED google
       ELSE Ends(r) /\ google' = Without({id})
  /\ UNCHANGED <<pocket, signin, handoff, consent, begun, forced, account, jar, issued, origin>>

\* Google renews a stale access token.  The new one is stored and used only if the
\* Google session and the session are still there.
Renewable(r) ==
  {id \in work[r].google \cap Rows :
     google[id].token # "over" /\ \A p \in google[id].session : pocket[p] = "live"}
RenewedAlways(r) == TRUE   \* mutant
Renewed(r) == Renewable(r) # {}
Refresh(r) ==
  /\ work[r].kind = "refresh" /\ account
  /\ Renewed(r) /\ Continues(r, "calling")
  /\ google' = [id \in GoogleIds |->
                  IF id \in Renewable(r) THEN [google[id] EXCEPT !.token = "fresh"] ELSE google[id]]
  /\ UNCHANGED <<pocket, signin, handoff, consent, begun, forced, account, jar, issued, origin>>

\* Google refuses the refresh token: all Google sessions of the account go.
RefreshRefused(r) ==
  /\ work[r].kind = "refresh" /\ account /\ Ends(r) /\ google' = Without(GoogleIds)
  /\ UNCHANGED <<pocket, signin, handoff, consent, begun, forced, account, jar, issued, origin>>

\* A request ends: it is answered, or refused where it stands.
Finish(r) ==
  /\ work[r].kind \notin {"none", "callback"} /\ Ends(r)
  /\ UNCHANGED <<tables, jar, issued, origin>>

\* The server stops; what it was doing is lost.
Stop ==
  /\ \E r \in Requests : work[r] # Idle
  /\ work' = [r \in Requests |-> Idle]
  /\ UNCHANGED <<tables, jar, issued, origin>>

----------------------------------------------------------------------------
(* Behaviours. *)

Init ==
  /\ pocket = [p \in Sessions |-> "unused"] /\ signin = [s \in SignIns |-> "unused"]
  /\ handoff = [h \in Handoffs |-> "unused"] /\ consent = [c \in Consents |-> {}]
  /\ begun = {} /\ forced = {} /\ google = [id \in GoogleIds |-> Unused] /\ account = FALSE
  /\ jar = [b \in Browsers |-> [oauth |-> {}, pocket |-> {}, google |-> {}]]
  /\ work = [r \in Requests |-> Idle] /\ issued = {} /\ origin = [p \in Sessions |-> {}]

Provider(r) ==
  \/ Issue(r) \/ CallbackFails(r) \/ CreateSession(r)
  \/ \E b \in Browsers : Callback(r, b)
  \/ \E h \in Handoffs : Exchange(r, h)
Google(r) ==
  \/ GoogleTokens(r) \/ InsertGoogle(r) \/ ReadGoogle(r) \/ Refresh(r) \/ RefreshRefused(r)
  \/ \E c \in Consents : NeedConsent(r, c) \/ \E b \in Browsers : GoogleCallback(r, b, c)
  \/ \E b \in Browsers : Gateway(r, b)
Browser(b) ==
  \/ BadCallback(b) \/ Notice(b) \/ Logout(b)
  \/ (\E s \in SignIns : Begin(b, s)) \/ (\E c \in Consents : BeginGoogle(b, c))
Time ==
  \/ \E s \in SignIns : SignInExpires(s)
  \/ \E h \in Handoffs : HandoffExpires(h)
  \/ \E p \in Sessions : RunOut(p) \/ AppLogout(p)
  \/ \E c \in Consents : ConsentExpires(c)
  \/ \E id \in GoogleIds : TokenAges(id)
Next ==
  \/ \E r \in Requests : Provider(r) \/ Google(r) \/ Finish(r)
  \/ \E b \in Browsers : Browser(b)
  \/ Time \/ Stop

Spec == Init /\ [][Next]_vars

----------------------------------------------------------------------------
(* Properties. *)

Steps == {"none", "callback", "exchange", "consent", "consented", "insert", "read", "refresh", "calling"}

\* The shape of the tables, the cookies and the requests.  A Google session that was
\* deleted belongs to no session, and cookies name what once existed.
TypeOK ==
  /\ pocket \in [Sessions -> {"unused", "live", "over", "purged", "revoked"}]
  /\ signin \in [SignIns -> {"unused", "open", "expired", "cancelled", "used"}]
  /\ handoff \in [Handoffs -> {"unused", "open", "expired", "spent"}]
  /\ consent \in [Consents -> SUBSET Sessions] /\ begun \subseteq Consents /\ forced \subseteq begun
  /\ google \in [GoogleIds -> [session : SUBSET Sessions, token : {"unused", "fresh", "stale", "over", "gone"}]]
  /\ \A id \in GoogleIds : google[id].session = {} <=> google[id].token \in {"unused", "gone"}
  /\ account \in BOOLEAN
  /\ jar \in [Browsers -> [oauth : SUBSET SignIns, pocket : SUBSET Sessions, google : SUBSET GoogleIds]]
  /\ work \in [Requests -> [kind : Steps, browser : SUBSET Browsers, signin : SUBSET SignIns,
                            session : SUBSET Sessions, google : SUBSET GoogleIds, handoff : SUBSET Handoffs]]
  /\ \A b \in Browsers : \A p \in jar[b].pocket : pocket[p] # "unused"
  /\ issued \subseteq SignIns \X (Sessions \cup Handoffs)
  /\ origin \in [Sessions -> SUBSET Handoffs]

\* A sign-in gives one credential, however often its callback is sent, and none once
\* it has been cancelled by signing out or has expired, also while the provider is
\* being asked.
IssuedOnce ==
  \A x, y \in issued : signin[x[1]] = "used" /\ (x[1] = y[1] => x = y)

\* A handoff is worth one session, whichever requests present it and wherever the
\* server stops.
ExchangedOnce == \A p, q \in Sessions : origin[p] = origin[q] /\ origin[p] # {} => p = q

\* Signing out leaves nothing behind: no Google session belongs to a revoked session,
\* whatever consent was under way.
RevokedHasNothing == \A id \in GoogleIds : \A p \in google[id].session : pocket[p] # "revoked"

\* A request gets an access token for the spreadsheet only under a session that has
\* not been revoked since it was looked up, and that still lasts when the token had
\* to be renewed.
CalledUnderSession ==
  [][\A r \in Requests : \A p \in work[r].session :
       work'[r].kind = "calling" /\ work[r].kind # "calling" =>
         pocket[p] # "revoked" /\ (work[r].kind = "refresh" => pocket[p] = "live")]_vars
====
