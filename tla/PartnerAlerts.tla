----------------------------- MODULE PartnerAlerts -----------------------------
(***************************************************************************)
(* Partner transaction alerts: the device registrations and the alert      *)
(* outbox of the server (server/src/push.rs), the worker that drains it    *)
(* through the messaging provider, and the phone that registers and decides*)
(* what to show (PartnerPush.kt, Repository.kt).                           *)
(*                                                                         *)
(* A request of a phone may be lost or arrive late.  The provider may      *)
(* refuse a message, lose its answer, and deliver a message it accepted    *)
(* late and more than once.  The server may stop at any moment: the tables *)
(* survive, the batch in memory does not.                                  *)
(*                                                                         *)
(* Time: `expired` holds the operations older than a day, and the queue    *)
(* holds the alerts whose next attempt is due, first due first.  All       *)
(* members are allowed to use the workspace.                               *)
(***************************************************************************)
EXTENDS Integers, FiniteSets, Sequences, SequencesExt

CONSTANTS
  Phones,       \* installations
  Members,      \* the people who share the workspace
  Sessions,     \* bearer sessions
  MemberOf,     \* the member a session belongs to
  Tokens,       \* provider tokens of installations
  Ops,          \* operations that create an entry
  Batch,        \* alerts the worker takes at once (20 in the code)
  MaxAttempts,  \* attempts before an alert is dropped (12 in the code)
  MaxTurns,     \* bound: times alerts are turned on or off
  MaxLate       \* bound: late requests under way

ASSUME AlertAssumption ==
  /\ IsFiniteSet(Phones)
  /\ MemberOf \in [Sessions -> Members]
  /\ Batch \in Nat \ {0} /\ MaxAttempts \in Nat \ {0}
  /\ MaxTurns \in Nat /\ MaxLate \in Nat

VARIABLES
  session,   \* pocket_sessions: "new", "live", "revoked" or "over" (run out)
  device,    \* push_devices: the session and token of each registered installation
  actor,     \* finance_operations: who created each entry
  outbox,    \* push_outbox: the alerts not yet handed over
  queue,     \* the alerts that are due, in order
  expired,   \* operations whose alerts are a day old
  worker,    \* the drain under way: step, rest of the batch, device token, answer
  provider,  \* messages the provider has accepted
  late,      \* requests given up by a phone that may still arrive
  unused,    \* provider tokens no installation ever had
  signed,    \* phone: the session signed in
  bound,     \* phone, preferences: the session alerts are accepted for
  enabled,   \* phone, preferences: the member wants alerts
  turns,     \* times alerts have been turned on or off
  seen,      \* phone, preferences: alerts shown before
  token,     \* phone: its token at the provider
  reg,       \* phone: the registration under way, under authMutex
  posted,    \* phone: the alerts on screen
  alerted,   \* history: alerts ever shown, per phone
  alone      \* the server does not stop any more

tables == <<session, device, actor, outbox, queue, expired>>
network == <<provider, late, unused>>
phone == <<signed, bound, enabled, turns, seen, token, reg, posted, alerted>>
vars == <<tables, worker, network, phone, alone>>

----------------------------------------------------------------------------
(* The server's tables. *)

Live == {s \in Sessions : session[s] = "live"}

Key(row) == [op |-> row.op, phone |-> row.phone]
Row(k) == {row \in outbox : Key(row) = k}

\* The registration is of a session that is still accepted.
Current(k) == {d \in device[k.phone] : \E row \in Row(k) : row.session = d.session /\ d.session \in Live}

Deliverable(k) ==
  {d.token : d \in {e \in Current(k) :
     k.op \notin expired /\ \E row \in Row(k) : row.attempts < MaxAttempts}}

\* The due alerts that are not of "keys", in their order.
Without(due, keys) ==
  LET kept[n \in 0..Len(due)] ==
        IF n = 0 THEN <<>>
        ELSE IF due[n] \in keys THEN kept[n - 1] ELSE Append(kept[n - 1], due[n])
  IN  kept[Len(due)]

Drop(keys) ==
  /\ outbox' = {row \in outbox : Key(row) \notin keys}
  /\ queue' = Without(queue, keys)

\* A member creates an entry, on a phone or in the browser: in the same database
\* transaction an alert is queued for every registered phone of the others.
Others(m) == {p \in Phones : \E d \in device[p] : d.session \in Live /\ MemberOf[d.session] # m}
Create(o, m) ==
  /\ actor[o] = {} /\ actor' = [actor EXCEPT ![o] = {m}]
  /\ LET rows == UNION {{[op |-> o, phone |-> p, session |-> d.session, attempts |-> 0] : d \in device[p]}
                         : p \in Others(m)}
     IN /\ outbox' = outbox \cup rows
        /\ \E due \in SetToSeqs({Key(row) : row \in rows}) : queue' = queue \o due
  /\ UNCHANGED <<session, device, expired, worker, network, phone>>

\* A day has passed since the operation.
Age(o) ==
  /\ actor[o] # {} /\ o \notin expired /\ expired' = expired \cup {o}
  /\ UNCHANGED <<session, device, actor, outbox, queue, worker, network, phone>>

\* The delay of an alert has passed.
Elapse(k) ==
  /\ Row(k) # {} /\ k \notin ToSet(queue) /\ queue' = Append(queue, k)
  /\ UNCHANGED <<session, device, actor, outbox, expired, worker, network, phone>>

\* A session runs out; its registrations stay until the worker removes them.
RunOut(s) ==
  /\ s \in Live /\ session' = [session EXCEPT ![s] = "over"]
  /\ UNCHANGED <<device, actor, outbox, queue, expired, worker, network, phone>>

\* A session is revoked together with its registrations: the member signs out, or a
\* request is made under a session that has run out.
RevokeSession(s) ==
  /\ session' = [session EXCEPT ![s] = "revoked"]
  /\ device' = [p \in Phones |-> {d \in device[p] : d.session # s}]
Revoke(s) ==
  /\ session[s] \in {"live", "over"} /\ RevokeSession(s)
  /\ UNCHANGED <<actor, outbox, queue, expired, worker, network, phone>>

\* A registration takes the token from any other installation that had it.
RegisteredShared(r) ==
  [device EXCEPT ![r.phone] = {[session |-> r.session, token |-> k] : k \in r.token}]   \* mutant
Registered(r) ==
  [p \in Phones |-> IF p = r.phone THEN {[session |-> r.session, token |-> k] : k \in r.token}
                    ELSE {d \in device[p] : d.token \notin r.token}]

\* A request of a phone: its session is checked first, and what it asks for is
\* written in a database transaction of its own.
Refuse(r) == IF session[r.session] = "over" THEN RevokeSession(r.session) ELSE UNCHANGED <<session, device>>
Served(r) ==
  IF r.step = "register" THEN Registered(r)
  ELSE [device EXCEPT ![r.phone] = {d \in @ : d.session # r.session}]

----------------------------------------------------------------------------
(* The worker: one batch at a time, one alert after the other. *)

Resting == [step |-> "rest", batch |-> <<>>, token |-> {}, answer |-> "none"]
At(step) == worker.step = step
Then(step) == worker' = [worker EXCEPT !.step = step]
\* The alert is done with; the next one of the batch follows.
NextAlert == worker' = [Resting EXCEPT !.step = "alert", !.batch = Tail(worker.batch)]

\* Alerts that are too old, tried too often or have lost their registration go.
Purge ==
  /\ At("rest")
  /\ Drop({Key(row) : row \in {r \in outbox :
       r.op \in expired \/ r.attempts >= MaxAttempts \/ Current(Key(r)) = {}}})
  /\ Then("select")
  /\ UNCHANGED <<session, device, actor, expired, network, phone>>

Select ==
  /\ At("select")
  /\ worker' = [worker EXCEPT !.step = "alert",
                              !.batch = SubSeq(queue, 1, IF Len(queue) < Batch THEN Len(queue) ELSE Batch)]
  /\ UNCHANGED <<tables, network, phone>>

\* The provider's access token is fetched first, so that its latency cannot make
\* the ownership check stale.
Authenticate ==
  /\ At("alert") /\ worker.batch # <<>> /\ Then("check")
  /\ UNCHANGED <<tables, network, phone>>

\* Authentication fails: the attempt counts for the first alert, and every alert
\* that is due waits.
TriedNever(row) == row   \* mutant
Tried(row) == [row EXCEPT !.attempts = @ + 1]
AuthenticationFails ==
  /\ At("alert") /\ worker.batch # <<>>
  /\ outbox' = {IF Key(row) = Head(worker.batch) THEN Tried(row) ELSE row : row \in outbox}
  /\ queue' = <<>>
  /\ worker' = [Resting EXCEPT !.step = "alert"]
  /\ UNCHANGED <<session, device, actor, expired, network, phone>>

\* The registration is read again right before sending.
Check ==
  /\ At("check")
  /\ LET k == Head(worker.batch)
     IN IF Deliverable(k) = {}
        THEN Drop({k}) /\ NextAlert
        ELSE /\ worker' = [worker EXCEPT !.step = "send", !.token = Deliverable(k)]
             /\ UNCHANGED <<outbox, queue>>
  /\ UNCHANGED <<session, device, actor, expired, network, phone>>

\* The provider accepts the message, even if its answer is lost, or refuses it.  It
\* calls a token unregistered only if no installation has it.
Send ==
  /\ At("send")
  /\ \E k \in worker.token, row \in Row(Head(worker.batch)) :
       \/ /\ row.op \notin expired
          /\ provider' = provider \cup
               {[token |-> k, op |-> row.op, phone |-> row.phone, session |-> row.session]}
          /\ \E answer \in {"sent", "retry"} :
               worker' = [worker EXCEPT !.step = "settle", !.answer = answer]
       \/ /\ \E answer \in {"invalid", "permanent", "retry"} :
               /\ answer = "invalid" => \A p \in Phones : token[p] # k
               /\ worker' = [worker EXCEPT !.step = "settle", !.answer = answer]
          /\ UNCHANGED provider
  /\ UNCHANGED <<tables, late, unused, phone>>

\* An unregistered token takes its registration away, unless the phone has registered
\* another token since.
ForgottenAny(p, tokens) == [device EXCEPT ![p] = {}]   \* mutant
Forgotten(p, tokens) == [device EXCEPT ![p] = {d \in @ : d.token \notin tokens}]
Settle ==
  /\ At("settle")
  /\ LET k == Head(worker.batch)
     IN \/ /\ worker.answer \in {"sent", "permanent"} /\ Drop({k}) /\ UNCHANGED device
        \/ /\ worker.answer = "invalid" /\ Drop({k})
           /\ device' = Forgotten(k.phone, worker.token)
        \/ /\ worker.answer = "retry"
           /\ outbox' = {IF Key(row) = k THEN Tried(row) ELSE row : row \in outbox}
           /\ queue' = Without(queue, {k}) /\ UNCHANGED device
  /\ NextAlert
  /\ UNCHANGED <<session, actor, expired, network, phone>>

PurgeDevices ==
  /\ At("alert") /\ worker.batch = <<>>
  /\ device' = [p \in Phones |-> {d \in device[p] : d.session \in Live}]
  /\ worker' = Resting
  /\ UNCHANGED <<session, actor, outbox, queue, expired, network, phone>>

\* The server stops between two steps, or a statement of the worker fails.
Stop ==
  /\ ~alone /\ worker # Resting /\ worker' = Resting
  /\ UNCHANGED <<tables, network, phone>>

----------------------------------------------------------------------------
(* The phone. *)

\* Forgetting the owner also takes the alerts off the screen.
Silence(p) == bound' = [bound EXCEPT ![p] = {}] /\ posted' = [posted EXCEPT ![p] = {}]

\* A new session is exchanged for the sign-in; the phone accepts alerts for it only
\* once it is registered.
LoginKeeps(p) == UNCHANGED <<bound, posted>>   \* mutant
LoginClears(p) == Silence(p)
Login(p, s) ==
  /\ reg[p] = {} /\ session[s] = "new"
  /\ session' = [session EXCEPT ![s] = "live"]
  /\ signed' = [signed EXCEPT ![p] = {s}] /\ LoginClears(p)
  /\ UNCHANGED <<device, actor, outbox, queue, expired, worker, network>>
  /\ UNCHANGED <<enabled, turns, seen, token, reg, alerted>>

\* The member signs out once the server has revoked the session.
Logout(p) ==
  /\ reg[p] = {} /\ signed[p] # {} /\ signed[p] \cap Live = {}
  /\ signed' = [signed EXCEPT ![p] = {}] /\ Silence(p)
  /\ UNCHANGED <<tables, worker, network, enabled, turns, seen, token, reg, alerted>>

\* Any request the server refuses drops the session, also during a registration.
Expire(p) ==
  /\ signed[p] # {} /\ signed[p] \cap Live = {}
  /\ signed' = [signed EXCEPT ![p] = {}] /\ Silence(p)
  /\ UNCHANGED <<tables, worker, network, enabled, turns, seen, token, reg, alerted>>

TurnOff(p) ==
  /\ enabled[p] /\ turns < MaxTurns /\ turns' = turns + 1
  /\ enabled' = [enabled EXCEPT ![p] = FALSE] /\ Silence(p)
  /\ UNCHANGED <<tables, worker, network, signed, seen, token, reg, alerted>>

TurnOn(p) ==
  /\ ~enabled[p] /\ turns < MaxTurns /\ turns' = turns + 1
  /\ enabled' = [enabled EXCEPT ![p] = TRUE]
  /\ UNCHANGED <<tables, worker, network, signed, bound, seen, token, reg, posted, alerted>>

\* The provider gives the installation a new token, or moves its token to another
\* installation.  A token no installation has does not come back.
Rotate(p, k) ==
  /\ k \in unused /\ unused' = unused \ {k}
  /\ \/ token' = [token EXCEPT ![p] = k]
     \/ \E q \in Phones \ {p} : token' = [token EXCEPT ![p] = k, ![q] = token[p]]
  /\ UNCHANGED <<tables, worker, provider, late>>
  /\ UNCHANGED <<signed, bound, enabled, turns, seen, reg, posted, alerted>>

Step(p, r, step) == reg' = [reg EXCEPT ![p] = {[r EXCEPT !.step = step, !.checked = FALSE]}]

\* The registration reads the session first: it removes the registration when the
\* member does not want alerts.
Start(p) ==
  /\ reg[p] = {}
  /\ \E s \in signed[p] :
       reg' = [reg EXCEPT ![p] =
         {[phone |-> p, session |-> s, token |-> {}, checked |-> FALSE,
           step |-> IF enabled[p] THEN "bind" ELSE "remove"]}]
  /\ UNCHANGED <<tables, worker, network, signed, bound, enabled, turns, seen, token, posted, alerted>>

Bind(p) ==
  /\ \E r \in reg[p] :
       r.step = "bind" /\ bound' = [bound EXCEPT ![p] = {r.session}] /\ Step(p, r, "token")
  /\ UNCHANGED <<tables, worker, network, signed, enabled, turns, seen, token, posted, alerted>>

AskToken(p) ==
  /\ \E r \in reg[p] : r.step = "token" /\ Step(p, [r EXCEPT !.token = {token[p]}], "register")
  /\ UNCHANGED <<tables, worker, network, signed, bound, enabled, turns, seen, token, posted, alerted>>

Requested(p) == {r \in reg[p] : r.step \in {"register", "remove"}}

\* The request reaches the server, which checks its session ...
Admit(p) ==
  /\ \E r \in Requested(p) :
       /\ ~r.checked
       /\ IF r.session \in Live
          THEN reg' = [reg EXCEPT ![p] = {[r EXCEPT !.checked = TRUE]}] /\ UNCHANGED <<session, device>>
          ELSE reg' = [reg EXCEPT ![p] = {}] /\ Refuse(r)
  /\ UNCHANGED <<actor, outbox, queue, expired, worker, network>>
  /\ UNCHANGED <<signed, bound, enabled, turns, seen, token, posted, alerted>>

\* ... and serves it and answers.
Serve(p) ==
  /\ \E r \in Requested(p) :
       /\ r.checked /\ device' = Served(r)
       /\ IF r.step = "register" THEN Step(p, [r EXCEPT !.token = {}], "done")
          ELSE reg' = [reg EXCEPT ![p] = {}]
  /\ UNCHANGED <<session, actor, outbox, queue, expired, worker, network>>
  /\ UNCHANGED <<signed, bound, enabled, turns, seen, token, posted, alerted>>

\* A registration that finished after alerts were turned off is undone.
Done(p) ==
  /\ \E r \in reg[p] :
       /\ r.step = "done"
       /\ IF enabled[p] THEN reg' = [reg EXCEPT ![p] = {}] /\ UNCHANGED <<bound, posted>>
          ELSE Step(p, r, "remove") /\ Silence(p)
  /\ UNCHANGED <<tables, worker, network, signed, enabled, turns, seen, token, alerted>>

\* The process ends, or the connection or the provider fails; a request may be late.
GiveUp(p) ==
  /\ reg[p] # {} /\ reg' = [reg EXCEPT ![p] = {}]
  /\ late' \in {late} \cup {l \in {late \cup Requested(p)} : Cardinality(l) <= MaxLate}
  /\ UNCHANGED <<tables, worker, provider, unused, signed, bound, enabled, turns, seen, token, posted, alerted>>

Straggler ==
  /\ \E r \in late :
       \/ /\ ~r.checked /\ r.session \in Live
          /\ late' = (late \ {r}) \cup {[r EXCEPT !.checked = TRUE]} /\ UNCHANGED <<session, device>>
       \/ ~r.checked /\ r.session \notin Live /\ late' = late \ {r} /\ Refuse(r)
       \/ r.checked /\ late' = late \ {r} /\ device' = Served(r) /\ UNCHANGED session
  /\ UNCHANGED <<actor, outbox, queue, expired, worker, provider, unused, phone>>

\* A message arrives.  It is shown, once, if it is for the bound session.
SeenAlways(p, k) == FALSE   \* mutant
Seen(p, k) == k \in seen[p]
Receive(p) ==
  /\ enabled[p]
  /\ \E n \in provider :
       /\ n.token = token[p] /\ bound[p] = {n.session} /\ session[n.session] # "over"
       /\ n.op \notin expired /\ ~Seen(p, Key(n))
       /\ posted' = [posted EXCEPT ![p] = @ \cup {n}]
       /\ seen' = [seen EXCEPT ![p] = @ \cup {Key(n)}]
       /\ alerted' = [alerted EXCEPT ![p] = @ \cup {Key(n)}]
  /\ UNCHANGED <<tables, worker, network, signed, bound, enabled, turns, token, reg>>

----------------------------------------------------------------------------
(* Behaviours. *)

Init ==
  /\ session = [s \in Sessions |-> "new"] /\ device = [p \in Phones |-> {}]
  /\ actor = [o \in Ops |-> {}] /\ outbox = {} /\ queue = <<>> /\ expired = {}
  /\ worker = Resting /\ provider = {} /\ late = {}
  /\ signed = [p \in Phones |-> {}] /\ bound = [p \in Phones |-> {}]
  /\ enabled = [p \in Phones |-> FALSE] /\ turns = 0 /\ seen = [p \in Phones |-> {}]
  /\ token \in {f \in [Phones -> Tokens] : \A p, q \in Phones : f[p] = f[q] => p = q}
  /\ unused = Tokens \ {token[p] : p \in Phones}
  /\ reg = [p \in Phones |-> {}] /\ posted = [p \in Phones |-> {}]
  /\ alerted = [p \in Phones |-> {}] /\ alone = FALSE

Keys == [op : Ops, phone : Phones]
Tables ==
  \/ \E o \in Ops : Age(o) \/ \E m \in Members : Create(o, m)
  \/ \E k \in Keys : Elapse(k)
  \/ \E s \in Sessions : RunOut(s) \/ Revoke(s)
Drain ==
  \/ Purge \/ Select \/ Authenticate \/ AuthenticationFails \/ Check \/ Send \/ Settle
  \/ PurgeDevices
Owner(p) ==
  \/ Logout(p) \/ Expire(p) \/ TurnOff(p) \/ TurnOn(p)
  \/ (\E s \in Sessions : Login(p, s)) \/ (\E k \in Tokens : Rotate(p, k))
Registration(p) ==
  Start(p) \/ Bind(p) \/ AskToken(p) \/ Admit(p) \/ Serve(p) \/ Done(p) \/ GiveUp(p)
Next ==
  /\ \/ Tables \/ Drain \/ Stop \/ Straggler
     \/ \E p \in Phones : Owner(p) \/ Registration(p) \/ Receive(p)
  /\ UNCHANGED alone

Spec == Init /\ [][Next]_vars

\* The worker runs for ever, the delays pass, and at last the server stops no more.
LeftAlone == ~alone /\ alone' = TRUE /\ UNCHANGED <<tables, worker, network, phone>>
FairSpec ==
  /\ Init /\ [][Next \/ LeftAlone]_vars
  /\ WF_vars(LeftAlone) /\ WF_vars(Drain /\ UNCHANGED alone)
  /\ \A k \in Keys : WF_vars(Elapse(k) /\ UNCHANGED alone)

----------------------------------------------------------------------------
(* Properties. *)

Registrations == [session : Sessions, token : Tokens]
Requests == [phone : Phones, session : Sessions, token : SUBSET Tokens, checked : BOOLEAN,
             step : {"bind", "token", "register", "done", "remove"}]

\* The shape of the tables and of the phones' memory.  A token is registered by at
\* most one installation, and due alerts are in the outbox, each once.
TypeOK ==
  /\ session \in [Sessions -> {"new", "live", "revoked", "over"}]
  /\ device \in [Phones -> SUBSET Registrations]
  /\ \A p, q \in Phones : \A d \in device[p], e \in device[q] : d.token = e.token => p = q /\ d = e
  /\ actor \in [Ops -> SUBSET Members] /\ expired \subseteq Ops
  /\ \A row \in outbox :
       /\ Key(row) \in Keys /\ row.session \in Sessions /\ row.attempts \in 0..MaxAttempts
       /\ \A other \in Row(Key(row)) : other = row
  /\ \A i \in 1..Len(queue) : Row(queue[i]) # {} /\ \A j \in 1..Len(queue) : queue[i] = queue[j] => i = j
  /\ \A i \in 1..Len(worker.batch) : worker.batch[i] \in Keys
  /\ \A p \in Phones : reg[p] \subseteq Requests /\ signed[p] \subseteq Sessions
  /\ late \subseteq Requests /\ alone \in BOOLEAN /\ unused \cap {token[p] : p \in Phones} = {}

\* What a phone shows is for the session it accepts alerts for, wanted by its member,
\* and never about an entry that member created, whatever session, token or
\* registration the alert was queued and sent under.
AlertsBelong ==
  \A p \in Phones : \A n \in posted[p] :
    /\ enabled[p] /\ bound[p] = {n.session}
    /\ actor[n.op] # {MemberOf[n.session]}

\* An alert is never shown twice on a phone, although it may be sent and delivered
\* several times.
AlertedOnce ==
  [][\A p \in Phones : \A n \in posted'[p] \ posted[p] : Key(n) \notin alerted[p]]_vars

\* The worker never takes away the registration of a phone under a live session with
\* the token the provider knows it by, however old the answer it acts on.
GoodDevice(p) == {d \in device[p] : d.session \in Live /\ d.token = token[p]}
GoodRegistrationsStay ==
  [][Drain => \A p \in Phones : GoodDevice(p) \subseteq device'[p]]_vars

\* Every alert leaves the outbox, whatever the provider answers.
Drained == \A k \in Keys : Row(k) # {} ~> Row(k) = {}

\* "The phone also checks the recipient and session hash before showing data-only
\* pushes": what is on screen is for the session signed in.
SignedOutSilent == \A p \in Phones : \A n \in posted[p] : signed[p] = {n.session}
====
