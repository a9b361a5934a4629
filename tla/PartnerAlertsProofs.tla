-------------------------- MODULE PartnerAlertsProofs --------------------------
(***************************************************************************)
(* Proofs about PartnerAlerts, for any phones, members, sessions, tokens   *)
(* and operations: what a phone shows belongs to its member, an alert is   *)
(* shown once, the worker leaves good registrations alone, and the outbox  *)
(* and its queue keep their shape.                                         *)
(***************************************************************************)
EXTENDS PartnerAlerts, FiniteSums, SequenceTheorems, TLAPS

----------------------------------------------------------------------------
(* The inductive invariant. *)

Rows == [op : Ops, phone : Phones, session : Sessions, attempts : Nat]
Messages == [token : Tokens, op : Ops, phone : Phones, session : Sessions]

\* The server's tables and the messages, as far as the proofs need their shape.
ServerShape ==
  /\ device \in [Phones -> SUBSET Registrations]
  /\ actor \in [Ops -> SUBSET Members]
  /\ outbox \subseteq Rows /\ provider \subseteq Messages /\ late \subseteq Requests

\* The phones.
PhoneShape ==
  /\ reg \in [Phones -> SUBSET Requests]
  /\ signed \in [Phones -> SUBSET Sessions] /\ bound \in [Phones -> SUBSET Sessions]
  /\ enabled \in [Phones -> BOOLEAN] /\ token \in [Phones -> Tokens]
  /\ posted \in [Phones -> SUBSET Messages]
  /\ seen \in [Phones -> SUBSET Keys] /\ alerted \in [Phones -> SUBSET Keys]

AtMostOne(S) == \A x, y \in S : x = y

\* An installation has one registration, and a request registers one token.
Single ==
  /\ \A p \in Phones : AtMostOne(device[p])
  /\ \A r \in late : AtMostOne(r.token)
  /\ \A p \in Phones : \A r \in reg[p] : AtMostOne(r.token)

\* Somebody created the entry, and not the member of the session.
Foreign(x) == actor[x.op] # {} /\ actor[x.op] # {MemberOf[x.session]}

\* An alert on its way is of an entry that its receiver did not create.
Sent == (\A row \in outbox : Foreign(row)) /\ (\A n \in provider : Foreign(n))

\* The phone accepts alerts for no session but the one signed in, or the one the
\* registration under way has read.
Bound ==
  \A p \in Phones :
    /\ AtMostOne(signed[p])
    /\ \A s \in signed[p] : bound[p] \subseteq {s}
    /\ \A r \in reg[p] : signed[p] \subseteq {r.session} /\ bound[p] \subseteq {r.session}

Shown ==
  \A p \in Phones : \A n \in posted[p] :
    enabled[p] /\ bound[p] = {n.session} /\ Foreign(n)

\* What was ever shown is remembered.
Remembered == \A p \in Phones : alerted[p] \subseteq seen[p]

\* The worker sends to one token; one the provider has called unregistered is of no
\* installation.
Working ==
  /\ worker = [step |-> worker.step, batch |-> worker.batch,
               token |-> worker.token, answer |-> worker.answer]
  /\ AtMostOne(worker.token) /\ \A t \in worker.token : t \in Tokens \ unused
  /\ worker.step = "settle" /\ worker.answer = "invalid" =>
       \A p \in Phones : token[p] \notin worker.token

\* A token that no installation has had yet is registered nowhere.
Issued ==
  /\ \A p \in Phones : token[p] \notin unused
  /\ \A p \in Phones : \A d \in device[p] : d.token \notin unused
  /\ \A p \in Phones : \A r \in reg[p] : r.token \cap unused = {}
  /\ \A r \in late : r.token \cap unused = {}

IndInv ==
  /\ ServerShape /\ PhoneShape /\ Single /\ Sent /\ Working /\ Issued
  /\ Bound /\ Shown /\ Remembered

----------------------------------------------------------------------------
(* What each part of the system leaves alone. *)

LEMMA TablesFrame == ASSUME Tables PROVE UNCHANGED <<worker, network, phone>>
BY DEF Tables, Age, Create, Elapse, RunOut, Revoke

LEMMA DrainFrame ==
  ASSUME Drain
  PROVE  UNCHANGED <<session, actor, expired, late, unused, phone>>
BY DEF Drain, Purge, Select, Authenticate, AuthenticationFails, Check, Send, Settle, PurgeDevices,
       tables, network

LEMMA OwnerFrame ==
  ASSUME NEW p \in Phones, Owner(p)
  PROVE  UNCHANGED <<device, actor, outbox, worker, provider, late, seen, reg, alerted>>
BY DEF Owner, Logout, Expire, TurnOff, TurnOn, Login, Rotate, tables, network

LEMMA RegistrationFrame ==
  ASSUME NEW p \in Phones, Registration(p)
  PROVE  UNCHANGED <<actor, outbox, worker, provider, unused, signed, enabled, token, seen, alerted>>
BY DEF Registration, Start, Bind, AskToken, Admit, Serve, Done, GiveUp, tables, network

LEMMA OtherFrame ==
  /\ Stop => UNCHANGED <<tables, network, phone>>
  /\ Straggler => UNCHANGED <<actor, outbox, worker, provider, unused, phone>>
  /\ \A p \in Phones : Receive(p) =>
       UNCHANGED <<tables, worker, network, signed, bound, enabled, token, reg>>
BY DEF Stop, Straggler, Receive

----------------------------------------------------------------------------
(* Registrations. *)

\* A token is registered by one installation.
OneOwner(devices) ==
  \A p, q \in Phones : \A d \in devices[p], e \in devices[q] : d.token = e.token => p = q /\ d = e

\* A request that is served registers its token, or removes what its session has.
LEMMA ServedDevices ==
  ASSUME ServerShape, Single, NEW r \in Requests, AtMostOne(r.token)
  PROVE  /\ Served(r) \in [Phones -> SUBSET Registrations]
         /\ \A p \in Phones : AtMostOne(Served(r)[p])
         /\ OneOwner(device) => OneOwner(Served(r))
         /\ \A p \in Phones : \A d \in Served(r)[p] : d \in device[p] \/ d.token \in r.token
<1>1. r.phone \in Phones /\ r.session \in Sessions /\ r.token \subseteq Tokens
  BY DEF Requests
<1>2. device \in [Phones -> SUBSET Registrations] /\ \A p \in Phones : AtMostOne(device[p])
  BY DEF ServerShape, Single
<1> DEFINE new == {[session |-> r.session, token |-> k] : k \in r.token}
<1>3. new \subseteq Registrations /\ AtMostOne(new) /\ \A d \in new : d.token \in r.token
  BY <1>1 DEF Registrations, AtMostOne
<1>4. CASE r.step = "register"
  <2>1. Served(r) = [p \in Phones |-> IF p = r.phone THEN new
                                      ELSE {d \in device[p] : d.token \notin r.token}]
    BY <1>4 DEF Served, Registered
  <2> HIDE DEF new
  <2>2. OneOwner(device) => OneOwner(Served(r))
    <3>1. \A p \in Phones : \A d \in Served(r)[p] :
            IF p = r.phone THEN d \in new ELSE d \in device[p] /\ d.token \notin r.token
      BY <2>1
    <3> QED BY <1>3, <3>1 DEF OneOwner, AtMostOne
  <2> QED BY <1>2, <1>3, <2>1, <2>2 DEF AtMostOne
<1>5. CASE r.step # "register"
  <2>1. Served(r) = [device EXCEPT ![r.phone] = {d \in @ : d.session # r.session}]
    BY <1>5 DEF Served
  <2>2. \A p \in Phones : Served(r)[p] \subseteq device[p]
    BY <1>1, <1>2, <2>1
  <2>3. OneOwner(device) => OneOwner(Served(r))
    BY <2>2 DEF OneOwner
  <2> QED BY <1>1, <1>2, <2>1, <2>3 DEF AtMostOne
<1> QED BY <1>4, <1>5

\* A request that is refused, like everything else, only takes registrations away.
LEMMA RevokedDevices ==
  ASSUME ServerShape, NEW s, RevokeSession(s)
  PROVE  device' \in [Phones -> SUBSET Registrations] /\ \A p \in Phones : device'[p] \subseteq device[p]
BY DEF RevokeSession, ServerShape

LEMMA RefusedDevices ==
  ASSUME ServerShape, NEW r, Refuse(r)
  PROVE  device' \in [Phones -> SUBSET Registrations] /\ \A p \in Phones : device'[p] \subseteq device[p]
<1>1. CASE session[r.session] = "over"
  BY <1>1, RevokedDevices DEF Refuse
<1>2. CASE session[r.session] # "over"
  BY <1>2 DEF Refuse, ServerShape
<1> QED BY <1>1, <1>2

LEMMA DrainDevices ==
  ASSUME ServerShape, Drain
  PROVE  device' \in [Phones -> SUBSET Registrations] /\ \A p \in Phones : device'[p] \subseteq device[p]
<1>1. CASE Settle
  <2>1. device' = device \/ \E k : device' = Forgotten(k, worker.token)
    BY <1>1 DEF Settle
  <2> QED BY <2>1 DEF Forgotten, ServerShape
<1>2. CASE PurgeDevices
  BY <1>2 DEF PurgeDevices, ServerShape
<1>3. CASE Purge \/ Select \/ Authenticate \/ AuthenticationFails \/ Check \/ Send
  BY <1>3 DEF Purge, Select, Authenticate, AuthenticationFails, Check, Send, tables, ServerShape
<1> QED BY <1>1, <1>2, <1>3 DEF Drain

\* In a step an installation keeps its registration, loses it, or gets the one of a
\* request under way.
Asked == late \cup UNION {reg[q] : q \in Phones}
DevicesFollow ==
  /\ device' \in [Phones -> SUBSET Registrations]
  /\ \A p \in Phones : AtMostOne(device'[p])
  /\ OneOwner(device) => OneOwner(device')
  /\ \A p \in Phones : \A d \in device'[p] : d \in device[p] \/ \E r \in Asked : d.token \in r.token

LEMMA DeviceStep ==
  ASSUME ServerShape, PhoneShape, Single, [Next]_vars
  PROVE  DevicesFollow
<1>1. ASSUME device' \in [Phones -> SUBSET Registrations], \A p \in Phones : device'[p] \subseteq device[p]
      PROVE  DevicesFollow
  <2>1. OneOwner(device) => OneOwner(device')
    BY <1>1 DEF OneOwner
  <2> QED BY <1>1, <2>1 DEF DevicesFollow, Single, AtMostOne
<1>2. ASSUME device' = device PROVE DevicesFollow
  BY <1>1, <1>2 DEF ServerShape
<1>3. ASSUME NEW r \in Asked, device' = Served(r) PROVE DevicesFollow
  <2>1. r \in Requests /\ AtMostOne(r.token)
    BY DEF Asked, ServerShape, PhoneShape, Single
  <2> QED BY <1>3, <2>1, ServedDevices DEF DevicesFollow
<1>4. CASE Tables
  <2>1. ASSUME NEW s \in Sessions, Revoke(s) PROVE DevicesFollow
    BY <1>1, <2>1, RevokedDevices DEF Revoke
  <2>2. ASSUME NEW s \in Sessions, RunOut(s) PROVE DevicesFollow
    BY <1>2, <2>2 DEF RunOut
  <2>3. ASSUME NEW k \in Keys, Elapse(k) PROVE DevicesFollow
    BY <1>2, <2>3 DEF Elapse
  <2>4. ASSUME NEW o \in Ops, Age(o) \/ \E m \in Members : Create(o, m) PROVE DevicesFollow
    BY <1>2, <2>4 DEF Age, Create
  <2> QED BY <1>4, <2>1, <2>2, <2>3, <2>4 DEF Tables
<1>5. CASE Drain
  BY <1>1, <1>5, DrainDevices
<1>6. CASE Straggler
  <2>1. PICK r \in late : device' = device \/ Refuse(r) \/ device' = Served(r)
    BY <1>6 DEF Straggler
  <2> QED BY <1>1, <1>2, <1>3, <2>1, RefusedDevices DEF Asked
<1>7. ASSUME NEW p \in Phones, Registration(p) PROVE DevicesFollow
  <2>1. CASE Admit(p)
    <3>1. PICK r \in Requested(p) : device' = device \/ Refuse(r)
      BY <2>1 DEF Admit
    <3> QED BY <1>1, <1>2, <3>1, RefusedDevices
  <2>2. CASE Serve(p)
    <3>1. PICK r \in reg[p] : device' = Served(r)
      BY <2>2 DEF Serve, Requested
    <3> QED BY <1>3, <3>1 DEF Asked
  <2>3. CASE Start(p) \/ Bind(p) \/ AskToken(p) \/ Done(p) \/ GiveUp(p)
    BY <1>2, <2>3 DEF Start, Bind, AskToken, Done, GiveUp, tables
  <2> QED BY <1>7, <2>1, <2>2, <2>3 DEF Registration
<1>8. ASSUME NEW p \in Phones, Owner(p) PROVE DevicesFollow
  BY <1>2, <1>8, OwnerFrame
<1>9. ASSUME NEW p \in Phones, Receive(p) PROVE DevicesFollow
  BY <1>2, <1>9, OtherFrame DEF tables
<1>10. CASE Stop \/ UNCHANGED vars
  BY <1>2, <1>10, OtherFrame DEF tables, vars
<1> QED BY <1>4, <1>5, <1>6, <1>7, <1>8, <1>9, <1>10 DEF Next

----------------------------------------------------------------------------
(* Alerts on their way. *)

\* Who created an entry never changes.
LEMMA ActorStays ==
  ASSUME ServerShape, [Next]_vars
  PROVE  /\ actor' \in [Ops -> SUBSET Members]
         /\ \A o \in Ops : actor[o] # {} => actor'[o] = actor[o]
<1>1. CASE \E o \in Ops, m \in Members : Create(o, m)
  <2>1. PICK o \in Ops, m \in Members : actor[o] = {} /\ actor' = [actor EXCEPT ![o] = {m}]
    BY <1>1 DEF Create
  <2> QED BY <2>1 DEF ServerShape
<1>2. CASE UNCHANGED actor
  BY <1>2 DEF ServerShape
<1>3. CASE Tables
  BY <1>1, <1>2, <1>3 DEF Tables, Age, Elapse, RunOut, Revoke
<1> QED BY <1>2, <1>3, DrainFrame, OwnerFrame, RegistrationFrame, OtherFrame DEF Next, vars, tables

LEMMA ForeignStays ==
  ASSUME ServerShape, [Next]_vars, NEW x, x.op \in Ops, Foreign(x)
  PROVE  Foreign(x)'
BY ActorStays DEF Foreign

\* Every alert in the outbox is a new one of a member other than its receiver, or one
\* that was there, perhaps tried once more.
LEMMA OutboxStep ==
  ASSUME IndInv, [Next]_vars
  PROVE  \A row \in outbox' : row \in Rows /\ Foreign(row)'
<1> USE DEF IndInv
<1>1. \A row \in outbox : row \in Rows /\ Foreign(row)'
  <2>1. \A row \in outbox : row \in Rows /\ row.op \in Ops /\ Foreign(row)
    BY DEF ServerShape, Sent, Rows
  <2> QED BY <2>1, ForeignStays
<1>2. CASE outbox' \subseteq outbox
  BY <1>1, <1>2
<1>3. ASSUME NEW row \in outbox PROVE Tried(row) \in Rows /\ Foreign(Tried(row))'
  <2>1. row \in Rows /\ Foreign(row)'
    BY <1>1
  <2>2. Tried(row) \in Rows /\ Tried(row).op = row.op /\ Tried(row).session = row.session
    BY <2>1 DEF Tried, Rows
  <2> QED BY <2>1, <2>2 DEF Foreign
<1>4. ASSUME NEW k, outbox' = {IF Key(row) = k THEN Tried(row) ELSE row : row \in outbox}
      PROVE  \A row \in outbox' : row \in Rows /\ Foreign(row)'
  BY <1>1, <1>3, <1>4
<1>5. ASSUME NEW o \in Ops, NEW m \in Members, Create(o, m)
      PROVE  \A row \in outbox' : row \in Rows /\ Foreign(row)'
  <2>1. actor' = [actor EXCEPT ![o] = {m}]
    BY <1>5 DEF Create
  <2>2. actor'[o] = {m}
    BY <2>1 DEF ServerShape
  <2> DEFINE Queued(p, d) == [op |-> o, phone |-> p, session |-> d.session, attempts |-> 0]
  <2>3. ASSUME NEW p \in Others(m), NEW d \in device[p]
        PROVE  Queued(p, d) \in Rows /\ Foreign(Queued(p, d))'
    <3>1. p \in Phones /\ \E e \in device[p] : MemberOf[e.session] # m
      BY DEF Others
    <3>2. d.session \in Sessions /\ MemberOf[d.session] # m
      BY <3>1 DEF ServerShape, Single, AtMostOne, Registrations
    <3> QED BY <2>2, <3>1, <3>2 DEF Rows, Foreign
  <2>4. outbox' = outbox \cup UNION {{Queued(p, d) : d \in device[p]} : p \in Others(m)}
    BY <1>5 DEF Create
  <2> HIDE DEF Queued
  <2> QED BY <1>1, <2>3, <2>4
<1>6. CASE Tables
  BY <1>2, <1>5, <1>6 DEF Tables, Age, Elapse, RunOut, Revoke
<1>7. CASE Drain
  <2>1. CASE Purge \/ Check
    BY <1>2, <2>1 DEF Purge, Check, Drop
  <2>2. CASE AuthenticationFails \/ Settle
    BY <1>2, <1>4, <2>2 DEF AuthenticationFails, Settle, Drop
  <2>3. CASE Select \/ Authenticate \/ Send \/ PurgeDevices
    BY <1>2, <2>3 DEF Select, Authenticate, Send, PurgeDevices, tables
  <2> QED BY <1>7, <2>1, <2>2, <2>3 DEF Drain
<1> QED BY <1>2, <1>6, <1>7, OwnerFrame, RegistrationFrame, OtherFrame DEF Next, vars, tables

\* What the provider accepts was in the outbox, and goes to a token read there.
LEMMA ProviderStep ==
  ASSUME IndInv, [Next]_vars
  PROVE  \A n \in provider' : n \in Messages /\ Foreign(n)'
<1> USE DEF IndInv
<1>1. CASE UNCHANGED provider
  <2>1. \A n \in provider : n \in Messages /\ n.op \in Ops /\ Foreign(n)
    BY DEF ServerShape, Sent, Messages
  <2> QED BY <1>1, <2>1, ForeignStays
<1>2. CASE Send
  <2>1. PICK k \in worker.token, row \in outbox :
          provider' \subseteq provider \cup {[token |-> k, op |-> row.op, phone |-> row.phone, session |-> row.session]}
    BY <1>2 DEF Send, Row
  <2>2. k \in Tokens /\ row \in Rows /\ Foreign(row)
    BY DEF ServerShape, Sent, Working
  <2>3. \A n \in provider' : n \in Messages /\ n.op \in Ops /\ Foreign(n)
    BY <2>1, <2>2 DEF ServerShape, Sent, Messages, Rows, Foreign
  <2> QED BY <2>3, ForeignStays
<1>3. CASE Drain
  BY <1>1, <1>2, <1>3 DEF Drain, Purge, Select, Authenticate, AuthenticationFails, Check, Settle, PurgeDevices, network
<1> QED BY <1>1, <1>3, TablesFrame, OwnerFrame, RegistrationFrame, OtherFrame DEF Next, vars, network

----------------------------------------------------------------------------
(* The worker and the requests under way. *)

\* The worker reads the token of a registration.
LEMMA DeliverableTokens ==
  ASSUME ServerShape, Single, Issued, NEW k
  PROVE  AtMostOne(Deliverable(k)) /\ \A t \in Deliverable(k) : t \in Tokens \ unused
<1>1. Current(k) \subseteq device[k.phone]
  BY DEF Current
<1>2. ASSUME NEW d \in Current(k) PROVE k.phone \in Phones
  <2>1. PICK row \in outbox : Key(row) = k
    BY DEF Current, Row
  <2> QED BY <2>1 DEF Key, ServerShape, Rows
<1>3. Deliverable(k) \subseteq {d.token : d \in Current(k)}
  BY DEF Deliverable
<1>4. \A d \in Current(k) : d.token \in Tokens \ unused
  BY <1>1, <1>2 DEF ServerShape, Issued, Registrations
<1>5. AtMostOne(Current(k))
  BY <1>1, <1>2 DEF Single, AtMostOne
<1> QED BY <1>3, <1>4, <1>5 DEF AtMostOne

LEMMA WorkerStep ==
  ASSUME IndInv, [Next]_vars
  PROVE  Working'
<1>1. Working
  BY DEF IndInv
<1>2. CASE UNCHANGED <<worker, unused, token>>
  BY <1>1, <1>2 DEF Working
<1>3. CASE worker' = Resting
  BY <1>3 DEF Working, Resting, AtMostOne
<1>4. CASE NextAlert
  BY <1>4 DEF Working, NextAlert, Resting, AtMostOne
<1>5. CASE Drain
  <2>1. UNCHANGED <<unused, token>>
    BY <1>5, DrainFrame DEF phone
  <2>2. CASE Check
    <3>1. /\ AtMostOne(Deliverable(Head(worker.batch)))
          /\ \A t \in Deliverable(Head(worker.batch)) : t \in Tokens \ unused
      BY DeliverableTokens DEF IndInv
    <3>2. CASE worker' = [worker EXCEPT !.step = "send", !.token = Deliverable(Head(worker.batch))]
      BY <1>1, <2>1, <3>1, <3>2 DEF Working
    <3> QED BY <1>4, <2>2, <3>2 DEF Check
  <2>3. CASE Send
    <3>1. PICK k \in worker.token :
            \E answer \in {"sent", "retry", "invalid", "permanent"} :
              /\ worker' = [worker EXCEPT !.step = "settle", !.answer = answer]
              /\ answer = "invalid" => \A p \in Phones : token[p] # k
      BY <2>3 DEF Send
    <3> QED BY <1>1, <2>1, <3>1 DEF Working, AtMostOne
  <2>4. CASE Purge \/ Select \/ Authenticate
    BY <1>1, <2>1, <2>4 DEF Purge, Select, Authenticate, At, Then, Working
  <2>5. CASE AuthenticationFails
    BY <2>5 DEF AuthenticationFails, Resting, Working, AtMostOne
  <2>6. CASE Settle \/ PurgeDevices
    BY <1>3, <1>4, <2>6 DEF Settle, PurgeDevices
  <2> QED BY <1>5, <2>2, <2>3, <2>4, <2>5, <2>6 DEF Drain
<1>6. ASSUME NEW p \in Phones, NEW k \in Tokens, Rotate(p, k) PROVE Working'
  BY <1>1, <1>6 DEF Rotate, Working, IndInv, PhoneShape
<1> QED
  BY <1>2, <1>3, <1>5, <1>6, TablesFrame, RegistrationFrame, OtherFrame
  DEF Next, Owner, Logout, Expire, TurnOff, TurnOn, Login, Stop, vars, network, phone

\* No token becomes unused.
LEMMA UnusedShrinks == ASSUME [Next]_vars PROVE unused' \subseteq unused
<1>1. ASSUME NEW p \in Phones, Owner(p) PROVE unused' \subseteq unused
  BY <1>1 DEF Owner, Logout, Expire, TurnOff, TurnOn, Login, Rotate, network
<1> QED
  BY <1>1, TablesFrame, DrainFrame, RegistrationFrame, OtherFrame DEF Next, vars, network

\* A request is of the right kind, registers one token at most, and one that is known.
Proper(r) == r \in Requests /\ AtMostOne(r.token) /\ r.token \cap unused = {}

LEMMA ProperAsked == ASSUME IndInv PROVE \A r \in Asked : Proper(r)
BY DEF IndInv, Asked, Proper, ServerShape, PhoneShape, Single, Issued

LEMMA ProperStays == ASSUME [Next]_vars, NEW r, Proper(r) PROVE Proper(r)'
BY UnusedShrinks DEF Proper

LEMMA LateStep == ASSUME IndInv, [Next]_vars PROVE \A r \in late' : Proper(r)'
<1>1. \A r \in Asked : Proper(r)
  BY ProperAsked
<1>2. ASSUME NEW r \in late PROVE Proper([r EXCEPT !.checked = TRUE])
  <2>1. Proper(r) /\ r \in Requests
    BY <1>1 DEF Proper, Asked
  <2>2. [r EXCEPT !.checked = TRUE] \in Requests /\ [r EXCEPT !.checked = TRUE].token = r.token
    BY <2>1 DEF Requests
  <2> QED BY <2>1, <2>2 DEF Proper
<1>3. \A r \in late' : Proper(r)
  <2>1. CASE UNCHANGED late
    BY <1>1, <2>1 DEF Asked
  <2>2. CASE Straggler
    <3>1. PICK r \in late : late' \subseteq late \cup {[r EXCEPT !.checked = TRUE]}
      BY <2>2 DEF Straggler
    <3> QED BY <1>1, <1>2, <3>1 DEF Asked
  <2>3. ASSUME NEW p \in Phones, GiveUp(p) PROVE \A r \in late' : Proper(r)
    <3>1. late' \subseteq late \cup reg[p]
      BY <2>3 DEF GiveUp, Requested
    <3> QED BY <1>1, <3>1 DEF Asked
  <2> QED
    BY <2>1, <2>2, <2>3, TablesFrame, DrainFrame, OwnerFrame, OtherFrame
    DEF Next, vars, network, Registration, Start, Bind, AskToken, Admit, Serve, Done
<1> QED BY <1>3, ProperStays

----------------------------------------------------------------------------
(* The phones. *)

\* A registration goes on, with the same session and a token the phone has, or ends.
RegistrationGoes(p) ==
  /\ \A q \in Phones \ {p} : reg'[q] = reg[q]
  /\ \A r \in reg'[p] : Proper(r) /\ \E old \in reg[p] : r.session = old.session
  /\ reg' \in [Phones -> SUBSET Requests]

LEMMA RegistrationGoesOn ==
  ASSUME IndInv, NEW p \in Phones, Bind(p) \/ AskToken(p) \/ Admit(p) \/ Serve(p) \/ Done(p) \/ GiveUp(p)
  PROVE  RegistrationGoes(p)
<1>1. /\ reg \in [Phones -> SUBSET Requests] /\ token[p] \in Tokens \ unused
      /\ \A r \in reg[p] : Proper(r)
  BY ProperAsked DEF IndInv, PhoneShape, Issued, Asked
<1>2. ASSUME reg' = [reg EXCEPT ![p] = {}] PROVE RegistrationGoes(p)
  BY <1>1, <1>2 DEF RegistrationGoes
<1>3. ASSUME NEW r, NEW old \in reg[p], Proper(r), r.session = old.session, reg' = [reg EXCEPT ![p] = {r}]
      PROVE  RegistrationGoes(p)
  BY <1>1, <1>3 DEF RegistrationGoes, Proper
<1>4. ASSUME NEW r \in reg[p], NEW step \in {"bind", "token", "register", "done", "remove"},
             NEW t \in {r.token, {token[p]}, {}}, Step(p, [r EXCEPT !.token = t], step)
      PROVE  RegistrationGoes(p)
  <2> DEFINE new == [[r EXCEPT !.token = t] EXCEPT !.step = step, !.checked = FALSE]
  <2>1. Proper(r) /\ r \in Requests
    BY <1>1 DEF Proper
  <2>2. AtMostOne(t) /\ t \subseteq Tokens /\ t \cap unused = {}
    BY <1>1, <2>1 DEF Proper, AtMostOne, Requests
  <2>3. new \in Requests /\ new.token = t /\ new.session = r.session
    BY <2>1, <2>2 DEF Requests
  <2>4. Proper(new)
    BY <2>2, <2>3 DEF Proper
  <2>5. reg' = [reg EXCEPT ![p] = {new}]
    BY <1>4 DEF Step
  <2> HIDE DEF new
  <2> QED BY <1>3, <2>3, <2>4, <2>5
<1>5. ASSUME NEW r \in reg[p], NEW step \in {"bind", "token", "register", "done", "remove"}, Step(p, r, step)
      PROVE  RegistrationGoes(p)
  <2>1. r = [r EXCEPT !.token = r.token]
    BY <1>1 DEF Proper, Requests
  <2> QED BY <1>4, <1>5, <2>1
<1>6. CASE Bind(p) \/ AskToken(p)
  BY <1>4, <1>5, <1>6 DEF Bind, AskToken
<1>7. CASE Admit(p)
  <2>1. ASSUME NEW r \in reg[p], reg' = [reg EXCEPT ![p] = {[r EXCEPT !.checked = TRUE]}]
        PROVE  RegistrationGoes(p)
    <3>1. Proper([r EXCEPT !.checked = TRUE]) /\ [r EXCEPT !.checked = TRUE].session = r.session
      BY <1>1 DEF Proper, Requests
    <3> QED BY <1>3, <2>1, <3>1
  <2> QED BY <1>2, <1>7, <2>1 DEF Admit, Requested
<1>8. CASE Serve(p) \/ Done(p) \/ GiveUp(p)
  BY <1>2, <1>4, <1>5, <1>8 DEF Serve, Done, GiveUp, Requested
<1> QED BY <1>6, <1>7, <1>8

\* What concerns one phone.
PhoneFits(p) ==
  /\ AtMostOne(signed[p]) /\ \A s \in signed[p] : bound[p] \subseteq {s}
  /\ \A r \in reg[p] : Proper(r) /\ signed[p] \subseteq {r.session} /\ bound[p] \subseteq {r.session}
  /\ \A n \in posted[p] : enabled[p] /\ bound[p] = {n.session} /\ Foreign(n)
  /\ alerted[p] \subseteq seen[p] /\ token[p] \notin unused

PhonesFit == PhoneShape /\ \A p \in Phones : PhoneFits(p)

LEMMA InvFits == IndInv => PhonesFit
BY ProperAsked
DEF IndInv, PhonesFit, PhoneFits, Bound, Shown, Remembered, Issued, Asked

\* A step of one phone leaves what concerns the others alone.
LEMMA OthersFit ==
  ASSUME IndInv, [Next]_vars, NEW p \in Phones,
         reg'[p] = reg[p], signed'[p] = signed[p], bound'[p] = bound[p], enabled'[p] = enabled[p],
         posted'[p] = posted[p], alerted'[p] = alerted[p], seen'[p] = seen[p], token'[p] \notin unused'
  PROVE  PhoneFits(p)'
<1>1. PhoneFits(p) /\ PhoneShape
  BY InvFits DEF PhonesFit
<1>2. \A r \in reg[p] : Proper(r)'
  BY <1>1, ProperStays DEF PhoneFits
<1>3. \A n \in posted[p] : Foreign(n)'
  <2>1. \A n \in posted[p] : n.op \in Ops /\ Foreign(n)
    BY <1>1 DEF PhoneFits, PhoneShape, Messages
  <2> QED BY <2>1, ForeignStays DEF IndInv
<1> QED BY <1>1, <1>2, <1>3 DEF PhoneFits

LEMMA RegistrationFits ==
  ASSUME IndInv, [Next]_vars, NEW p \in Phones, Registration(p)
  PROVE  PhonesFit'
<1>1. PhonesFit /\ IndInv
  BY InvFits
<1>2. UNCHANGED <<unused, signed, enabled, token, seen, alerted>>
  BY RegistrationFrame
<1>3. /\ reg' \in [Phones -> SUBSET Requests] /\ \A q \in Phones \ {p} : reg'[q] = reg[q]
      /\ \A r \in reg'[p] : Proper(r) /\ signed[p] \subseteq {r.session}
                            /\ (bound[p] \subseteq {r.session})
  <2>1. CASE Start(p)
    <3>1. PICK s \in signed[p] : reg' = [reg EXCEPT ![p] =
            {[phone |-> p, session |-> s, token |-> {}, checked |-> FALSE,
              step |-> IF enabled[p] THEN "bind" ELSE "remove"]}]
      BY <2>1 DEF Start
    <3>2. /\ AtMostOne(signed[p]) /\ \A t \in signed[p] : bound[p] \subseteq {t}
          /\ s \in Sessions /\ enabled[p] \in BOOLEAN /\ reg \in [Phones -> SUBSET Requests]
      BY <1>1 DEF PhonesFit, PhoneShape, PhoneFits
    <3>3. PICK r \in Requests : r.session = s /\ r.token = {} /\ reg' = [reg EXCEPT ![p] = {r}]
      BY <3>1, <3>2 DEF Requests
    <3>4. Proper(r)
      BY <3>3 DEF Proper, AtMostOne
    <3> QED BY <3>2, <3>3, <3>4 DEF AtMostOne
  <2>2. CASE Bind(p) \/ AskToken(p) \/ Admit(p) \/ Serve(p) \/ Done(p) \/ GiveUp(p)
    BY <1>1, <2>2, RegistrationGoesOn DEF RegistrationGoes, PhonesFit, PhoneFits
  <2> QED BY <2>1, <2>2 DEF Registration
<1>4. \/ UNCHANGED <<bound, posted>>
      \/ Silence(p)
      \/ posted' = posted /\ \E r \in reg[p] : /\ bound' = [bound EXCEPT ![p] = {r.session}]
                                               /\ \A q \in reg'[p] : q.session = r.session
  <2>1. CASE Bind(p)
    <3>1. PICK r \in reg[p] : bound' = [bound EXCEPT ![p] = {r.session}] /\ Step(p, r, "token")
      BY <2>1 DEF Bind
    <3>2. r \in Requests
      BY <1>1 DEF PhonesFit, PhoneShape
    <3>3. reg'[p] = {[r EXCEPT !.step = "token", !.checked = FALSE]}
      BY <1>1, <3>1 DEF Step, PhonesFit, PhoneShape
    <3>4. \A q \in reg'[p] : q.session = r.session
      BY <3>2, <3>3 DEF Requests
    <3> QED BY <2>1, <3>1, <3>4 DEF Bind
  <2>2. CASE Start(p) \/ AskToken(p) \/ Admit(p) \/ Serve(p) \/ Done(p) \/ GiveUp(p)
    BY <2>2 DEF Start, AskToken, Admit, Serve, Done, GiveUp
  <2> QED BY <2>1, <2>2 DEF Registration
<1>5. PhoneShape'
  BY <1>1, <1>2, <1>3, <1>4 DEF PhonesFit, PhoneShape, Silence, Requests
<1>6. ASSUME NEW q \in Phones \ {p} PROVE PhoneFits(q)'
  <2>1. token[q] \notin unused /\ PhoneShape
    BY <1>1 DEF PhonesFit, PhoneFits
  <2>2. bound'[q] = bound[q] /\ posted'[q] = posted[q]
    BY <1>4, <2>1 DEF PhoneShape, Silence
  <2> QED BY <1>2, <1>3, <2>1, <2>2, OthersFit
<1>7. PhoneFits(p)'
  <2>1. \A r \in reg'[p] : Proper(r)'
    BY <1>3, ProperStays
  <2>2. \A n \in posted[p] : Foreign(n)'
    <3>1. \A n \in posted[p] : n.op \in Ops /\ Foreign(n)
      BY <1>1 DEF PhonesFit, PhoneFits, PhoneShape, Messages
    <3> QED BY <3>1, ForeignStays DEF IndInv
  <2>3. CASE UNCHANGED <<bound, posted>>
    BY <1>1, <1>2, <1>3, <2>1, <2>2, <2>3 DEF PhonesFit, PhoneFits
  <2>4. CASE Silence(p)
    <3>1. bound'[p] = {} /\ posted'[p] = {}
      BY <1>1, <2>4 DEF Silence, PhonesFit, PhoneShape
    <3> QED BY <1>1, <1>2, <1>3, <2>1, <3>1 DEF PhonesFit, PhoneFits
  <2>5. ASSUME posted' = posted, NEW r \in reg[p], bound' = [bound EXCEPT ![p] = {r.session}],
               \A q \in reg'[p] : q.session = r.session
        PROVE  PhoneFits(p)'
    <3>1. bound'[p] = {r.session}
      BY <1>1, <2>5 DEF PhonesFit, PhoneShape
    <3>2. PhoneFits(p) /\ signed[p] \subseteq {r.session} /\ bound[p] \subseteq {r.session}
      BY <1>1 DEF PhonesFit, PhoneFits
    <3>3. \A s \in signed[p] : bound'[p] \subseteq {s}
      BY <3>1, <3>2
    <3>4. \A n \in posted[p] : enabled[p] /\ bound'[p] = {n.session}
      BY <3>1, <3>2 DEF PhoneFits
    <3>5. \A q \in reg'[p] : signed[p] \subseteq {q.session} /\ bound'[p] \subseteq {q.session}
      BY <1>3, <2>5, <3>1
    <3> QED BY <1>2, <2>1, <2>2, <2>5, <3>2, <3>3, <3>4, <3>5 DEF PhoneFits
  <2> QED BY <1>4, <2>3, <2>4, <2>5
<1> QED BY <1>5, <1>6, <1>7 DEF PhonesFit

LEMMA OwnerFits ==
  ASSUME IndInv, [Next]_vars, NEW p \in Phones, Owner(p)
  PROVE  PhonesFit'
<1>1. PhonesFit /\ IndInv
  BY InvFits
<1>2. UNCHANGED <<actor, reg, seen, alerted>>
  BY OwnerFrame
<1>3. ASSUME Silence(p), unused' = unused, token' = token,
             \/ enabled' = enabled /\ signed' = [signed EXCEPT ![p] = {}]
             \/ enabled' = enabled /\ reg[p] = {} /\ \E s \in Sessions : signed' = [signed EXCEPT ![p] = {s}]
             \/ enabled' = [enabled EXCEPT ![p] = FALSE] /\ signed' = signed
      PROVE  PhonesFit'
  <2>1. PhoneShape'
    <3>1. PhoneShape
      BY <1>1 DEF PhonesFit
    <3>2. bound' \in [Phones -> SUBSET Sessions] /\ posted' \in [Phones -> SUBSET Messages]
      BY <1>3, <3>1 DEF PhoneShape, Silence
    <3>3. signed' \in [Phones -> SUBSET Sessions]
      <4>1. CASE signed' = signed
        BY <3>1, <4>1 DEF PhoneShape
      <4>2. ASSUME NEW S \in SUBSET Sessions, signed' = [signed EXCEPT ![p] = S]
            PROVE  signed' \in [Phones -> SUBSET Sessions]
        BY <3>1, <4>2 DEF PhoneShape
      <4>3. \A s \in Sessions : {s} \in SUBSET Sessions
        OBVIOUS
      <4> QED BY <1>3, <4>1, <4>2, <4>3
    <3>4. enabled' \in [Phones -> BOOLEAN]
      BY <1>3, <3>1 DEF PhoneShape
    <3> QED BY <1>2, <1>3, <3>1, <3>2, <3>3, <3>4 DEF PhoneShape
  <2>2. bound'[p] = {} /\ posted'[p] = {}
    BY <1>1, <1>3 DEF Silence, PhonesFit, PhoneShape
  <2>3. AtMostOne(signed'[p]) /\ (signed'[p] \subseteq signed[p] \/ reg[p] = {})
    BY <1>1, <1>3 DEF PhonesFit, PhoneFits, PhoneShape, AtMostOne
  <2>4. PhoneFits(p)'
    BY <1>1, <1>2, <1>3, <2>2, <2>3, ProperStays DEF PhonesFit, PhoneFits
  <2>5. ASSUME NEW q \in Phones \ {p} PROVE PhoneFits(q)'
    <3>1. token[q] \notin unused /\ PhoneShape
      BY <1>1 DEF PhonesFit, PhoneFits
    <3>2. /\ bound'[q] = bound[q] /\ posted'[q] = posted[q]
          /\ signed'[q] = signed[q] /\ enabled'[q] = enabled[q]
      BY <1>3, <3>1 DEF PhoneShape, Silence
    <3> QED BY <1>2, <1>3, <3>1, <3>2, OthersFit
  <2> QED BY <2>1, <2>4, <2>5 DEF PhonesFit
<1>4. CASE Logout(p) \/ Expire(p) \/ TurnOff(p)
  BY <1>3, <1>4 DEF Logout, Expire, TurnOff, network
<1>5. ASSUME NEW s \in Sessions, Login(p, s) PROVE PhonesFit'
  BY <1>3, <1>5 DEF Login, LoginClears, network
<1>6. CASE TurnOn(p)
  <2>1. enabled' = [enabled EXCEPT ![p] = TRUE] /\ UNCHANGED <<signed, bound, unused, token, posted>> /\ ~enabled[p]
    BY <1>6 DEF TurnOn, network
  <2>2. posted[p] = {}
    BY <1>1, <2>1 DEF PhonesFit, PhoneFits
  <2>3. PhoneShape'
    BY <1>1, <1>2, <2>1 DEF PhonesFit, PhoneShape
  <2>4. PhoneFits(p)'
    BY <1>1, <1>2, <2>1, <2>2, ProperStays DEF PhonesFit, PhoneFits
  <2>5. ASSUME NEW q \in Phones \ {p} PROVE PhoneFits(q)'
    <3>1. token[q] \notin unused /\ enabled'[q] = enabled[q]
      BY <1>1, <2>1 DEF PhonesFit, PhoneFits, PhoneShape
    <3> QED BY <1>2, <2>1, <3>1, OthersFit
  <2> QED BY <2>3, <2>4, <2>5 DEF PhonesFit
<1>7. ASSUME NEW k \in Tokens, Rotate(p, k) PROVE PhonesFit'
  <2>1. UNCHANGED <<signed, bound, enabled, posted>> /\ k \in unused /\ unused' = unused \ {k}
    BY <1>7 DEF Rotate
  <2>2. token' \in [Phones -> Tokens] /\ \A q \in Phones : token'[q] = k \/ token'[q] \in {token[r] : r \in Phones}
    BY <1>1, <1>7 DEF Rotate, PhonesFit, PhoneShape
  <2>3. ASSUME NEW q \in Phones PROVE token'[q] \notin unused'
    BY <1>1, <2>1, <2>2 DEF PhonesFit, PhoneFits
  <2>4. PhoneShape'
    BY <1>1, <1>2, <2>1, <2>2 DEF PhonesFit, PhoneShape
  <2>5. ASSUME NEW q \in Phones PROVE PhoneFits(q)'
    BY <1>1, <1>2, <2>1, <2>3, OthersFit
  <2> QED BY <2>4, <2>5 DEF PhonesFit
<1> QED BY <1>4, <1>5, <1>6, <1>7 DEF Owner

LEMMA ReceiveFits ==
  ASSUME IndInv, [Next]_vars, NEW p \in Phones, Receive(p)
  PROVE  PhonesFit'
<1>1. PhonesFit /\ PhoneShape /\ IndInv
  BY InvFits DEF PhonesFit
<1>2. UNCHANGED <<actor, signed, bound, enabled, token, reg, unused>>
  BY OtherFrame DEF tables, network
<1>3. PICK n \in provider :
        /\ enabled[p] /\ bound[p] = {n.session}
        /\ posted' = [posted EXCEPT ![p] = @ \cup {n}]
        /\ seen' = [seen EXCEPT ![p] = @ \cup {Key(n)}]
        /\ alerted' = [alerted EXCEPT ![p] = @ \cup {Key(n)}]
  BY DEF Receive
<1>4. n \in Messages /\ Foreign(n) /\ n.op \in Ops /\ Key(n) \in Keys
  BY DEF IndInv, ServerShape, Sent, Messages, Key, Keys
<1>5. PhoneShape'
  BY <1>1, <1>2, <1>3, <1>4 DEF PhoneShape
<1>6. ASSUME NEW q \in Phones \ {p} PROVE PhoneFits(q)'
  <2>1. token[q] \notin unused
    BY <1>1 DEF PhonesFit, PhoneFits
  <2>2. posted'[q] = posted[q] /\ seen'[q] = seen[q] /\ alerted'[q] = alerted[q]
    BY <1>1, <1>3 DEF PhoneShape
  <2> QED BY <1>2, <2>1, <2>2, OthersFit
<1>7. PhoneFits(p)'
  <2>1. /\ posted'[p] = posted[p] \cup {n}
        /\ seen'[p] = seen[p] \cup {Key(n)} /\ alerted'[p] = alerted[p] \cup {Key(n)}
    BY <1>1, <1>3 DEF PhoneShape
  <2>2. PhoneFits(p)
    BY <1>1 DEF PhonesFit
  <2>3. \A r \in reg[p] : Proper(r)'
    BY <2>2, ProperStays DEF PhoneFits
  <2>4. \A m \in posted[p] \cup {n} : Foreign(m)'
    <3>1. \A m \in posted[p] \cup {n} : m.op \in Ops /\ Foreign(m)
      BY <1>1, <1>4, <2>2 DEF PhoneFits, PhoneShape, Messages
    <3> QED BY <3>1, ForeignStays DEF IndInv
  <2> QED BY <1>2, <1>3, <2>1, <2>2, <2>3, <2>4 DEF PhoneFits
<1> QED BY <1>5, <1>6, <1>7 DEF PhonesFit

LEMMA PhonesStep == ASSUME IndInv, [Next]_vars PROVE PhonesFit'
<1>1. CASE UNCHANGED <<unused, phone>>
  <2>1. PhonesFit
    BY InvFits
  <2>2. PhoneShape'
    BY <1>1, <2>1 DEF PhonesFit, PhoneShape, phone
  <2>3. ASSUME NEW p \in Phones PROVE PhoneFits(p)'
    <3>1. token[p] \notin unused
      BY <2>1 DEF PhonesFit, PhoneFits
    <3> QED BY <1>1, <3>1, OthersFit DEF phone
  <2> QED BY <2>2, <2>3 DEF PhonesFit
<1>2. CASE Tables \/ Drain \/ Stop \/ Straggler \/ UNCHANGED vars
  BY <1>1, <1>2, TablesFrame, DrainFrame, OtherFrame DEF network, vars
<1> QED BY <1>2, RegistrationFits, OwnerFits, ReceiveFits DEF Next

----------------------------------------------------------------------------
(* The invariant holds. *)

LEMMA InitInv == Init => IndInv
<1> SUFFICES ASSUME Init PROVE IndInv
  OBVIOUS
<1>1. ServerShape
  BY DEF Init, ServerShape
<1>2. PhoneShape
  BY DEF Init, PhoneShape
<1>3. Single /\ Sent /\ Working
  BY DEF Init, Single, Sent, Working, Resting, AtMostOne
<1>4. Issued /\ Bound /\ Shown /\ Remembered
  BY DEF Init, Issued, Bound, Shown, Remembered, AtMostOne
<1> QED BY <1>1, <1>2, <1>3, <1>4 DEF IndInv

LEMMA StepInv == ASSUME IndInv, [Next]_vars PROVE IndInv'
<1>1. DevicesFollow
  BY DeviceStep DEF IndInv
<1>2. PhonesFit' /\ Working' /\ (\A r \in late' : Proper(r)')
  BY PhonesStep, WorkerStep, LateStep
<1>3. (\A row \in outbox' : row \in Rows /\ Foreign(row)') /\ (\A n \in provider' : n \in Messages /\ Foreign(n)')
  BY OutboxStep, ProviderStep
<1>4. ServerShape'
  <2>1. actor' \in [Ops -> SUBSET Members]
    BY ActorStays DEF IndInv
  <2> QED BY <1>1, <1>2, <1>3, <2>1 DEF ServerShape, DevicesFollow, Proper
<1>5. PhoneShape' /\ Sent'
  BY <1>2, <1>3 DEF PhonesFit, Sent
<1>6. Single'
  BY <1>1, <1>2 DEF Single, DevicesFollow, PhonesFit, PhoneFits, Proper
<1>7. Issued'
  <2>1. ASSUME NEW p \in Phones, NEW d \in device'[p] PROVE d.token \notin unused'
    <3>1. CASE d \in device[p]
      BY <3>1, UnusedShrinks DEF IndInv, Issued
    <3>2. CASE \E r \in Asked : d.token \in r.token
      BY <3>2, ProperAsked, UnusedShrinks DEF Proper
    <3> QED BY <1>1, <3>1, <3>2 DEF DevicesFollow
  <2> QED BY <1>2, <2>1 DEF Issued, PhonesFit, PhoneFits, Proper
<1>8. Bound' /\ Shown' /\ Remembered'
  BY <1>2 DEF Bound, Shown, Remembered, PhonesFit, PhoneFits
<1> QED BY <1>2, <1>4, <1>5, <1>6, <1>7, <1>8 DEF IndInv

\* The invariant of every reachable state: it says of the registration under way, the
\* requests that may come late, the outbox and the worker what keeps the screen right.
THEOREM Invariance == Spec => []IndInv
BY InitInv, StepInv, PTL DEF Spec

\* What a phone shows is for the session it accepts alerts for, and never about an
\* entry of its own member (Receive, and everything that rebinds a phone).
THEOREM ShownBelongs == Spec => []AlertsBelong
<1>1. IndInv => AlertsBelong
  BY DEF IndInv, Shown, AlertsBelong, Foreign
<1> QED BY <1>1, Invariance, PTL

\* However often an alert is sent and delivered, a phone shows it once (Receive).
THEOREM ShownOnce == Spec => AlertedOnce
<1> DEFINE Once == \A p \in Phones : \A n \in posted'[p] \ posted[p] : Key(n) \notin alerted[p]
<1>1. ASSUME IndInv, [Next]_vars PROVE [Once]_vars
  <2>1. CASE \A p \in Phones : posted'[p] \subseteq posted[p]
    BY <2>1
  <2>2. ASSUME NEW p \in Phones, Receive(p) PROVE Once
    <3>1. PICK n : posted' = [posted EXCEPT ![p] = @ \cup {n}] /\ Key(n) \notin seen[p]
      BY <2>2 DEF Receive, Seen
    <3> QED BY <1>1, <3>1 DEF IndInv, PhoneShape, Remembered
  <2>3. ASSUME NEW p \in Phones, Silence(p) \/ UNCHANGED posted
        PROVE  \A q \in Phones : posted'[q] \subseteq posted[q]
    BY <1>1, <2>3 DEF Silence, IndInv, PhoneShape
  <2>4. ASSUME NEW p \in Phones, Owner(p) \/ Registration(p)
        PROVE  \A q \in Phones : posted'[q] \subseteq posted[q]
    BY <2>3, <2>4
    DEF Owner, Logout, Expire, TurnOff, TurnOn, Login, LoginClears, Rotate,
        Registration, Start, Bind, AskToken, Admit, Serve, Done, GiveUp
  <2> QED
    BY <1>1, <2>1, <2>2, <2>4, TablesFrame, DrainFrame, OtherFrame DEF Next, vars, phone
<1> QED BY <1>1, Invariance, PTL DEF Spec, AlertedOnce

\* The worker leaves the registration a phone is using alone: the token it forgets is
\* one the provider called unregistered, so no installation has it (Settle), and it
\* removes only registrations whose session is over (PurgeDevices).
THEOREM RegistrationsStay == Spec => GoodRegistrationsStay
<1> DEFINE Stay == Drain => \A p \in Phones : GoodDevice(p) \subseteq device'[p]
<1>1. ASSUME IndInv, [Next]_vars PROVE [Stay]_vars
  <2>1. device \in [Phones -> SUBSET Registrations] /\ Working
    BY <1>1 DEF IndInv, ServerShape
  <2>2. CASE Settle
    <3>1. CASE device' = device
      BY <3>1 DEF GoodDevice
    <3>2. CASE worker.answer = "invalid" /\ worker.step = "settle"
      <4>1. PICK q : device' = Forgotten(q, worker.token)
        BY <2>2, <3>2 DEF Settle
      <4> QED BY <2>1, <3>2, <4>1 DEF Forgotten, GoodDevice, Working
    <3> QED BY <2>2, <3>1, <3>2 DEF Settle, At
  <2>3. CASE PurgeDevices
    BY <2>1, <2>3 DEF PurgeDevices, GoodDevice
  <2>4. CASE UNCHANGED device
    BY <2>4 DEF GoodDevice
  <2> QED
    BY <2>2, <2>3, <2>4
    DEF Drain, Purge, Select, Authenticate, AuthenticationFails, Check, Send, tables
<1> QED BY <1>1, Invariance, PTL DEF Spec, GoodRegistrationsStay

----------------------------------------------------------------------------
(* The queue of the alerts that are due. *)

\* g filters the first n alerts of "due".
IsKept(g, due, keys, n) ==
  g = [i \in 0..n |->
         IF i = 0 THEN <<>>
         ELSE IF due[i] \in keys THEN g[i - 1] ELSE Append(g[i - 1], due[i])]

\* The recursion of Without has a solution: one for n alerts gives one for n + 1.
LEMMA KeptExists ==
  ASSUME NEW due, NEW keys, NEW n \in Nat
  PROVE  \E g : IsKept(g, due, keys, n)
<1> DEFINE B == {m \in Nat : ~ \E g : IsKept(g, due, keys, m)}
<1>1. B = {}
  <2> SUFFICES ASSUME B # {} PROVE FALSE
    OBVIOUS
  <2>1. PICK m \in B : \A k \in B : m <= k
    BY LeastNat
  <2>2. m # 0
    <3>1. IsKept([i \in 0..0 |-> <<>>], due, keys, 0)
      BY DEF IsKept
    <3> QED BY <3>1
  <2>3. m \in Nat /\ m - 1 \in Nat
    BY <2>2
  <2>4. m - 1 \notin B
    <3> HIDE DEF B
    <3> QED BY <2>1, <2>3
  <2>5. PICK g : IsKept(g, due, keys, m - 1)
    BY <2>3, <2>4
  <2> DEFINE h == [i \in 0..m |->
                     IF i < m THEN g[i]
                     ELSE IF due[m] \in keys THEN g[m - 1] ELSE Append(g[m - 1], due[m])]
  <2>6. ASSUME NEW i \in 0..m
        PROVE  h[i] = IF i = 0 THEN <<>>
                      ELSE IF due[i] \in keys THEN h[i - 1] ELSE Append(h[i - 1], due[i])
    <3>1. CASE i = m
      BY <2>3, <3>1
    <3>2. CASE i < m
      <4>1. g[i] = IF i = 0 THEN <<>>
                   ELSE IF due[i] \in keys THEN g[i - 1] ELSE Append(g[i - 1], due[i])
        <5>1. i \in 0..(m - 1)
          BY <2>3, <3>2
        <5> HIDE DEF h, B
        <5> QED BY <2>5, <5>1 DEF IsKept
      <4>2. h[i] = g[i] /\ (i # 0 => h[i - 1] = g[i - 1])
        BY <2>3, <3>2
      <4> HIDE DEF h
      <4> QED BY <4>1, <4>2
    <3> QED BY <2>3, <3>1, <3>2
  <2>7. IsKept(h, due, keys, m)
    <3>1. h = [i \in 0..m |-> h[i]]
      OBVIOUS
    <3> HIDE DEF h
    <3> QED BY <2>6, <3>1 DEF IsKept
  <2> QED BY <2>1, <2>7
<1> QED BY <1>1

Distinct(due) == \A i, j \in 1..Len(due) : due[i] = due[j] => i = j

\* What is kept of the queue is in it, is not of the keys, and is there once if it was.
IsPartOf(part, due, keys, n) ==
  \A i \in 1..Len(part) : part[i] \notin keys /\ \E j \in 1..n : part[i] = due[j]

LEMMA WithoutKeeps ==
  ASSUME NEW S, NEW due \in Seq(S), NEW keys
  PROVE  /\ Without(due, keys) \in Seq(S)
         /\ IsPartOf(Without(due, keys), due, keys, Len(due))
         /\ Distinct(due) => Distinct(Without(due, keys))
<1> DEFINE g == CHOOSE f : IsKept(f, due, keys, Len(due))
<1>1. Without(due, keys) = g[Len(due)]
  BY DEF Without, IsKept
<1>2. IsKept(g, due, keys, Len(due))
  BY KeptExists
<1> HIDE DEF g
<1> DEFINE Good(m) == /\ g[m] \in Seq(S) /\ IsPartOf(g[m], due, keys, m)
                      /\ Distinct(due) => Distinct(g[m])
           B == {m \in 0..Len(due) : ~Good(m)}
<1>3. B = {}
  <2> SUFFICES ASSUME B # {} PROVE FALSE
    OBVIOUS
  <2>1. PICK m \in B : \A k \in B : m <= k
    <3>1. B \subseteq Nat
      OBVIOUS
    <3> HIDE DEF B
    <3> QED BY <3>1, LeastNat
  <2>2. g[m] = IF m = 0 THEN <<>>
               ELSE IF due[m] \in keys THEN g[m - 1] ELSE Append(g[m - 1], due[m])
    BY <1>2 DEF IsKept
  <2>3. m # 0
    <3> SUFFICES ASSUME m = 0 PROVE FALSE
      OBVIOUS
    <3>1. Good(0)
      BY <2>2 DEF IsPartOf, Distinct
    <3> QED BY <3>1
  <2>4. m \in 1..Len(due) /\ m - 1 \in 0..Len(due)
    BY <2>3
  <2>5. Good(m - 1)
    <3>1. m - 1 \notin B
      <4> HIDE DEF B
      <4> QED BY <2>1, <2>4
    <3> QED BY <2>4, <3>1
  <2>6. IsPartOf(g[m - 1], due, keys, m)
    BY <2>4, <2>5 DEF IsPartOf
  <2>7. CASE due[m] \in keys
    BY <2>2, <2>3, <2>5, <2>6, <2>7
  <2>8. CASE due[m] \notin keys
    <3>1. g[m] = Append(g[m - 1], due[m]) /\ due[m] \in S /\ g[m - 1] \in Seq(S)
      BY <2>2, <2>3, <2>4, <2>5, <2>8
    <3>2. /\ g[m] \in Seq(S) /\ Len(g[m]) = Len(g[m - 1]) + 1
          /\ \A i \in 1..Len(g[m]) : g[m][i] = IF i = Len(g[m]) THEN due[m] ELSE g[m - 1][i]
      BY <3>1
    <3>3. Len(g[m - 1]) \in Nat
      BY <3>1
    <3>4. IsPartOf(g[m], due, keys, m)
      <4> SUFFICES ASSUME NEW i \in 1..Len(g[m])
                   PROVE  g[m][i] \notin keys /\ \E j \in 1..m : g[m][i] = due[j]
        BY DEF IsPartOf
      <4>1. CASE i = Len(g[m])
        BY <2>4, <2>8, <3>2, <4>1
      <4>2. CASE i # Len(g[m])
        <5>1. i \in 1..Len(g[m - 1]) /\ g[m][i] = g[m - 1][i]
          BY <3>2, <3>3, <4>2
        <5> QED BY <2>6, <5>1 DEF IsPartOf
      <4> QED BY <4>1, <4>2
    <3>5. ASSUME Distinct(due) PROVE Distinct(g[m])
      <4>1. \A i \in 1..Len(g[m - 1]) : g[m - 1][i] # due[m]
        <5> SUFFICES ASSUME NEW i \in 1..Len(g[m - 1]) PROVE g[m - 1][i] # due[m]
          OBVIOUS
        <5>1. PICK j \in 1..(m - 1) : g[m - 1][i] = due[j]
          BY <2>5 DEF IsPartOf
        <5>2. j \in 1..Len(due) /\ j # m
          BY <2>4
        <5> QED BY <2>4, <3>5, <5>1, <5>2 DEF Distinct
      <4>2. Distinct(g[m - 1])
        BY <2>5, <3>5
      <4>3. \A i \in 1..Len(g[m]) : i # Len(g[m]) => i \in 1..Len(g[m - 1]) /\ g[m][i] = g[m - 1][i]
        BY <3>2, <3>3
      <4>4. \A i \in 1..Len(g[m]) : i = Len(g[m]) => g[m][i] = due[m]
        BY <3>2
      <4> HIDE DEF B, Good
      <4> QED BY <4>1, <4>2, <4>3, <4>4 DEF Distinct
    <3> QED BY <3>2, <3>4, <3>5
  <2> QED BY <2>7, <2>8
<1>4. Good(Len(due))
  BY <1>3
<1> QED BY <1>1, <1>4

----------------------------------------------------------------------------
(* The shape of the outbox, its queue and the worker's batch. *)

\* An alert of an operation and a phone is in the outbox once, tried a bounded number
\* of times.
Outs ==
  /\ \A row \in outbox : row.attempts \in 0..MaxAttempts
  /\ \A row, other \in outbox : Key(row) = Key(other) => row = other

\* A due alert is in the outbox, and due once.
Queued ==
  /\ queue \in Seq(Keys) /\ Distinct(queue)
  /\ \A i \in 1..Len(queue) : Row(queue[i]) # {}

\* An alert the worker holds has an attempt left: those without one were purged before
\* the batch was read, and it holds an alert once.
Batched ==
  /\ worker.batch \in Seq(Keys) /\ Distinct(worker.batch)
  /\ worker.step \in {"check", "send", "settle"} => worker.batch # <<>>
  /\ worker.step = "select" => \A row \in outbox : row.attempts < MaxAttempts
  /\ \A row \in outbox : \A i \in 1..Len(worker.batch) :
       Key(row) = worker.batch[i] => row.attempts < MaxAttempts

ShapeInv ==
  /\ session \in [Sessions -> {"new", "live", "revoked", "over"}]
  /\ expired \subseteq Ops
  /\ OneOwner(device) /\ Outs /\ Queued /\ Batched

\* The rest of the batch.
LEMMA RestOfBatch ==
  ASSUME NEW batch \in Seq(Keys), batch # <<>>, Distinct(batch)
  PROVE  /\ Head(batch) \in Keys /\ Tail(batch) \in Seq(Keys) /\ Distinct(Tail(batch))
         /\ 1 \in 1..Len(batch) /\ batch[1] = Head(batch)
         /\ \A i \in 1..Len(Tail(batch)) :
              Tail(batch)[i] # Head(batch) /\ \E j \in 1..Len(batch) : Tail(batch)[i] = batch[j]
<1>1. /\ Tail(batch) \in Seq(Keys) /\ Head(batch) = batch[1] /\ Len(batch) \in Nat \ {0}
      /\ Len(Tail(batch)) = Len(batch) - 1
      /\ \A i \in 1..Len(Tail(batch)) : Tail(batch)[i] = batch[i + 1]
  OBVIOUS
<1>2. \A i \in 1..Len(Tail(batch)) : i + 1 \in 1..Len(batch) /\ i + 1 # 1
  BY <1>1
<1>3. Distinct(Tail(batch))
  BY <1>1, <1>2 DEF Distinct
<1>4. 1 \in 1..Len(batch) /\ batch[1] \in Keys
  BY <1>1
<1> QED BY <1>1, <1>2, <1>3, <1>4 DEF Distinct

LEMMA TriedRow ==
  ASSUME NEW row \in Rows
  PROVE  Key(Tried(row)) = Key(row) /\ Tried(row).attempts = row.attempts + 1
BY DEF Tried, Key, Rows

\* Alerts that leave the outbox leave the queue.
LEMMA DropKeeps ==
  ASSUME ServerShape, Outs, Queued, NEW keys, Drop(keys)
  PROVE  /\ Outs' /\ Queued' /\ outbox' \subseteq outbox
         /\ \A row \in outbox' : Key(row) \notin keys
<1>1. outbox' = {row \in outbox : Key(row) \notin keys} /\ queue' = Without(queue, keys)
  BY DEF Drop
<1>2. Outs'
  BY <1>1 DEF Outs
<1>3. /\ queue' \in Seq(Keys) /\ Distinct(queue')
      /\ IsPartOf(queue', queue, keys, Len(queue))
  BY <1>1, WithoutKeeps DEF Queued
<1>4. ASSUME NEW i \in 1..Len(queue') PROVE (Row(queue[i]) # {})'
  <2>1. PICK j \in 1..Len(queue) : queue'[i] = queue[j] /\ queue[j] \notin keys
    BY <1>3 DEF IsPartOf
  <2>2. PICK row \in outbox : Key(row) = queue[j]
    BY DEF Queued, Row
  <2>3. row \in outbox'
    BY <1>1, <2>1, <2>2
  <2> QED BY <2>1, <2>2, <2>3 DEF Row, Key
<1> QED BY <1>1, <1>2, <1>3, <1>4 DEF Queued

\* The attempt of one alert is counted.
CountedFor(k) == outbox' = {IF Key(row) = k THEN Tried(row) ELSE row : row \in outbox}

LEMMA CountedKeeps ==
  ASSUME ServerShape, Outs, AlertAssumption, NEW k, CountedFor(k),
         \A row \in outbox : Key(row) = k => row.attempts < MaxAttempts
  PROVE  /\ Outs'
         /\ \A row \in outbox : Key(row) # k => row \in outbox'
         /\ \A row \in outbox' : Key(row) # k => row \in outbox
<1>1. ASSUME NEW row \in outbox'
      PROVE  \E old \in outbox : /\ Key(old) = Key(row)
                                /\ row = IF Key(row) = k THEN Tried(old) ELSE old
  <2>1. PICK old \in outbox : row = IF Key(old) = k THEN Tried(old) ELSE old
    BY DEF CountedFor
  <2>2. Key(Tried(old)) = Key(old)
    BY TriedRow DEF ServerShape
  <2> QED BY <2>1, <2>2
<1>2. ASSUME NEW row \in outbox, Key(row) = k PROVE Tried(row).attempts \in 0..MaxAttempts
  <2>1. row.attempts \in 0..MaxAttempts /\ row.attempts < MaxAttempts
    BY <1>2 DEF Outs
  <2>2. Tried(row).attempts = row.attempts + 1 /\ MaxAttempts \in Nat
    BY TriedRow DEF ServerShape, AlertAssumption
  <2> QED BY <2>1, <2>2
<1>3. \A row \in outbox' : row.attempts \in 0..MaxAttempts
  BY <1>1, <1>2 DEF Outs
<1>4. \A row, other \in outbox' : Key(row) = Key(other) => row = other
  BY <1>1 DEF Outs
<1>5. Outs'
  BY <1>3, <1>4 DEF Outs, Key
<1>6. \A row \in outbox : Key(row) # k => row \in outbox'
  BY DEF CountedFor
<1>7. \A row \in outbox' : Key(row) # k => row \in outbox
  BY <1>1
<1> QED BY <1>5, <1>6, <1>7

----------------------------------------------------------------------------
(* The shape holds. *)

\* The alerts queued for a new entry: of installations, each once.
LEMMA CreateShape ==
  ASSUME IndInv, ShapeInv, AlertAssumption, NEW o \in Ops, NEW m \in Members, Create(o, m)
  PROVE  Outs' /\ Queued' /\ Batched'
<1> DEFINE rows == UNION {{[op |-> o, phone |-> p, session |-> d.session, attempts |-> 0] : d \in device[p]}
                          : p \in Others(m)}
           keys == {Key(row) : row \in rows}
<1>1. PICK due \in SetToSeqs(keys) :
        outbox' = outbox \cup rows /\ queue' = queue \o due /\ UNCHANGED worker /\ actor[o] = {}
  BY DEF Create
<1>2. \A row \in rows : /\ row.op = o /\ row.attempts = 0 /\ row.phone \in Phones
                        /\ \E d \in device[row.phone] : row = [op |-> o, phone |-> row.phone,
                                                               session |-> d.session, attempts |-> 0]
  BY DEF Others
<1>3. \A row \in rows : Key(row) = [op |-> o, phone |-> row.phone] /\ Key(row) \in Keys /\ Key(row).op = o
  BY <1>2 DEF Key, Keys
<1>4. \A row, other \in rows : Key(row) = Key(other) => row = other
  <2>1. \A p \in Phones : AtMostOne(device[p])
    BY DEF IndInv, Single
  <2> HIDE DEF rows
  <2>2. ASSUME NEW row \in rows, NEW other \in rows, Key(row) = Key(other) PROVE row = other
    <3>1. row.phone = other.phone
      BY <1>3, <2>2
    <3> QED BY <1>2, <2>1, <3>1 DEF AtMostOne
  <2> QED BY <2>2
<1>5. \A row \in outbox : Key(row) \in Keys /\ Key(row).op # o
  <2>1. \A row \in outbox : row \in Rows /\ actor[row.op] # {}
    BY DEF IndInv, ServerShape, Sent, Foreign
  <2> QED BY <1>1, <2>1 DEF Rows, Key, Keys
<1>6. IsFiniteSet(keys)
  <2>1. keys \subseteq Keys /\ \A k \in keys : k.op = o
    BY <1>3
  <2> HIDE DEF keys
  <2> DEFINE f == [k \in keys |-> k.phone]
  <2>2. f \in Injection(keys, Phones)
    <3>1. \A k \in keys : k.phone \in Phones /\ k = [op |-> o, phone |-> k.phone]
      BY <2>1 DEF Keys
    <3> QED BY <3>1 DEF Injection, IsInjective
  <2> HIDE DEF f
  <2> QED BY <2>2, FS_Injection DEF AlertAssumption
<1>7. /\ due \in Seq(Keys) /\ Distinct(due)
      /\ \A i \in 1..Len(due) : due[i] \in keys
  <2>1. Cardinality(keys) \in Nat /\ keys \subseteq Keys
    BY <1>3, <1>6, FS_CardinalityType
  <2> HIDE DEF keys
  <2>2. /\ due \in [1..Cardinality(keys) -> keys]
        /\ \A i, j \in 1..Cardinality(keys) : i # j => due[i] # due[j]
    BY DEF SetToSeqs
  <2>3. due \in Seq(keys) /\ Len(due) = Cardinality(keys)
    BY <2>1, <2>2
  <2> QED BY <2>1, <2>2, <2>3 DEF Distinct
<1> HIDE DEF rows
<1>8. \A k \in keys : k.op = o /\ \E row \in rows : Key(row) = k
  BY <1>3
<1> HIDE DEF keys
<1>9. Outs'
  <2>1. MaxAttempts \in Nat
    BY DEF AlertAssumption
  <2>2. \A row \in outbox' : row.attempts \in 0..MaxAttempts
    BY <1>1, <1>2, <2>1 DEF ShapeInv, Outs
  <2>3. \A row, other \in outbox' : Key(row) = Key(other) => row = other
    BY <1>1, <1>3, <1>4, <1>5 DEF ShapeInv, Outs
  <2> QED BY <2>2, <2>3 DEF Outs, Key
<1>10. Queued'
  <2>1. /\ queue \in Seq(Keys) /\ Distinct(queue)
        /\ \A i \in 1..Len(queue) : \E row \in outbox : Key(row) = queue[i]
    BY DEF ShapeInv, Queued, Row
  <2>2. /\ queue' \in Seq(Keys) /\ Len(queue') = Len(queue) + Len(due)
        /\ Len(queue) \in Nat /\ Len(due) \in Nat
        /\ \A i \in 1..Len(queue') : queue'[i] = IF i <= Len(queue) THEN queue[i] ELSE due[i - Len(queue)]
    BY <1>1, <1>7, <2>1
  <2>3. \A i \in 1..Len(queue') :
          IF i <= Len(queue) THEN i \in 1..Len(queue) ELSE i - Len(queue) \in 1..Len(due)
    BY <2>2
  <2>4. \A i \in 1..Len(queue) : queue[i].op # o
    BY <1>5, <2>1
  <2>5. \A i \in 1..Len(due) : due[i].op = o
    BY <1>7, <1>8
  <2>6. Distinct(queue')
    <3> SUFFICES ASSUME NEW i \in 1..Len(queue'), NEW j \in 1..Len(queue'), queue'[i] = queue'[j]
                 PROVE  i = j
      BY DEF Distinct
    <3>0. queue'[i] = queue'[j]
      OBVIOUS
    <3>1. CASE i <= Len(queue) /\ j <= Len(queue)
      BY <2>1, <2>2, <2>3, <3>1 DEF Distinct
    <3>2. CASE ~(i <= Len(queue)) /\ ~(j <= Len(queue))
      <4>1. i - Len(queue) = j - Len(queue)
        BY <1>7, <2>2, <2>3, <3>2 DEF Distinct
      <4> QED BY <2>2, <4>1
    <3>3. CASE i <= Len(queue) /\ ~(j <= Len(queue))
      <4>1. queue'[i].op # o /\ queue'[j].op = o
        BY <2>2, <2>3, <2>4, <2>5, <3>3
      <4> QED BY <3>0, <4>1
    <3>4. CASE ~(i <= Len(queue)) /\ j <= Len(queue)
      <4>1. queue'[i].op = o /\ queue'[j].op # o
        BY <2>2, <2>3, <2>4, <2>5, <3>4
      <4> QED BY <3>0, <4>1
    <3> QED BY <3>1, <3>2, <3>3, <3>4
  <2>7. ASSUME NEW i \in 1..Len(queue') PROVE (Row(queue[i]) # {})'
    <3>1. \E row \in outbox' : Key(row) = queue'[i]
      <4>1. CASE i <= Len(queue)
        BY <1>1, <2>1, <2>2, <2>3, <4>1
      <4>2. CASE ~(i <= Len(queue))
        BY <1>1, <1>7, <1>8, <2>2, <2>3, <4>2
      <4> QED BY <4>1, <4>2
    <3> QED BY <3>1 DEF Row, Key
  <2> QED BY <2>2, <2>6, <2>7 DEF Queued
<1>11. Batched'
  <2>1. \A row \in rows : row.attempts < MaxAttempts
    BY <1>2 DEF AlertAssumption
  <2> QED BY <1>1, <2>1 DEF ShapeInv, Batched, Key
<1> QED BY <1>9, <1>10, <1>11

\* Each step of the worker keeps the shape.
LEMMA DrainShape ==
  ASSUME IndInv, ShapeInv, AlertAssumption, Drain
  PROVE  Outs' /\ Queued' /\ Batched'
<1> DEFINE k == Head(worker.batch)
           held == worker.batch
<1>0. /\ ServerShape /\ Outs /\ Queued /\ Batched /\ MaxAttempts \in Nat
      /\ worker = [step |-> worker.step, batch |-> worker.batch,
                   token |-> worker.token, answer |-> worker.answer]
  BY DEF IndInv, ShapeInv, Working, AlertAssumption
<1>1. ASSUME held # <<>>
      PROVE  /\ Tail(held) \in Seq(Keys) /\ Distinct(Tail(held))
             /\ \A row \in outbox : Key(row) = k => row.attempts < MaxAttempts
             /\ \A row \in outbox : \A i \in 1..Len(Tail(held)) :
                  Key(row) = Tail(held)[i] => row.attempts < MaxAttempts
             /\ \A i \in 1..Len(Tail(held)) : Tail(held)[i] # k
  <2>1. held \in Seq(Keys) /\ held # <<>> /\ Distinct(held)
    BY <1>0, <1>1 DEF Batched
  <2>2. /\ Tail(held) \in Seq(Keys) /\ Distinct(Tail(held))
        /\ 1 \in 1..Len(held) /\ held[1] = k
        /\ \A i \in 1..Len(Tail(held)) : Tail(held)[i] # k /\ \E j \in 1..Len(held) : Tail(held)[i] = held[j]
    BY <2>1, RestOfBatch
  <2>3. \A row \in outbox : \A i \in 1..Len(held) : Key(row) = held[i] => row.attempts < MaxAttempts
    BY <1>0 DEF Batched
  <2> HIDE DEF k, held
  <2> QED BY <2>2, <2>3
<1> HIDE DEF k, held
<1>2. ASSUME UNCHANGED <<outbox, queue>> PROVE Outs' /\ Queued'
  BY <1>0, <1>2 DEF Outs, Queued, Row, Key
<1>3. ASSUME worker'.batch = <<>>, worker'.step = "rest" \/ worker'.step = "alert"
      PROVE  Batched'
  BY <1>3 DEF Batched, Distinct
<1>4. ASSUME NextAlert, held # <<>>, \A row \in outbox' : Key(row) # k => row \in outbox
      PROVE  Batched'
  <2>1. worker'.batch = Tail(held) /\ worker'.step = "alert"
    BY <1>4 DEF NextAlert, Resting, held
  <2>2. \A row \in outbox' : \A i \in 1..Len(Tail(held)) :
          Key(row) = Tail(held)[i] => row.attempts < MaxAttempts
    BY <1>1, <1>4
  <2> QED BY <1>1, <1>4, <2>1, <2>2 DEF Batched, Key
<1>5. CASE Purge
  <2> DEFINE keys == {Key(row) : row \in {r \in outbox :
       r.op \in expired \/ r.attempts >= MaxAttempts \/ Current(Key(r)) = {}}}
  <2>1. Drop(keys) /\ Then("select")
    BY <1>5 DEF Purge
  <2>2. \A row \in outbox : row.attempts >= MaxAttempts => Key(row) \in keys
    OBVIOUS
  <2> HIDE DEF keys
  <2>3. /\ Outs' /\ Queued' /\ outbox' \subseteq outbox
        /\ \A row \in outbox' : Key(row) \notin keys
    BY <1>0, <2>1, DropKeeps
  <2>4. \A row \in outbox' : row.attempts < MaxAttempts
    BY <1>0, <2>2, <2>3 DEF Outs
  <2>5. worker'.batch = worker.batch /\ worker'.step = "select"
    BY <1>0, <2>1 DEF Then
  <2> QED BY <1>0, <2>3, <2>4, <2>5 DEF Batched
<1>6. CASE Select
  <2> DEFINE n == IF Len(queue) < Batch THEN Len(queue) ELSE Batch
  <2>1. /\ UNCHANGED <<outbox, queue>> /\ worker.step = "select"
        /\ worker'.batch = SubSeq(queue, 1, n) /\ worker'.step = "alert"
    BY <1>0, <1>6 DEF Select, At, tables
  <2>2. n \in 0..Len(queue) /\ queue \in Seq(Keys)
    BY <1>0 DEF AlertAssumption, Queued
  <2> HIDE DEF n
  <2>3. /\ worker'.batch \in Seq(Keys) /\ Len(worker'.batch) = n
        /\ \A i \in 1..n : worker'.batch[i] = queue[i] /\ i \in 1..Len(queue)
    BY <2>1, <2>2
  <2>4. Distinct(worker'.batch)
    BY <1>0, <2>3 DEF Queued, Distinct
  <2>5. \A row \in outbox' : row.attempts < MaxAttempts
    BY <1>0, <2>1 DEF Batched
  <2>6. Batched'
    BY <2>1, <2>3, <2>4, <2>5 DEF Batched
  <2> QED BY <1>2, <2>1, <2>6
<1>7. CASE Authenticate
  <2>1. /\ UNCHANGED <<outbox, queue>> /\ worker.batch # <<>>
        /\ worker'.batch = worker.batch /\ worker'.step = "check"
    BY <1>0, <1>7 DEF Authenticate, Then, tables
  <2>2. Batched'
    BY <1>0, <2>1 DEF Batched, Key
  <2> QED BY <1>2, <2>1, <2>2
<1>8. CASE AuthenticationFails
  <2>1. CountedFor(k) /\ queue' = <<>> /\ held # <<>> /\ worker'.batch = <<>> /\ worker'.step = "alert"
    BY <1>8 DEF AuthenticationFails, CountedFor, Resting, k, held
  <2>2. Outs'
    BY <1>0, <1>1, <2>1, CountedKeeps
  <2>3. Queued'
    BY <2>1 DEF Queued, Distinct
  <2> QED BY <1>3, <2>1, <2>2, <2>3
<1>9. CASE Check
  <2>1. held # <<>>
    BY <1>0, <1>9 DEF Check, At, Batched, held
  <2>2. CASE Drop({k}) /\ NextAlert
    <3>1. Outs' /\ Queued' /\ outbox' \subseteq outbox
      BY <1>0, <2>2, DropKeeps
    <3> QED BY <1>4, <2>1, <2>2, <3>1
  <2>3. CASE UNCHANGED <<outbox, queue>> /\ worker' = [worker EXCEPT !.step = "send", !.token = Deliverable(k)]
    <3>1. worker'.batch = worker.batch /\ worker'.step = "send"
      BY <1>0, <2>3
    <3>2. Batched'
      BY <1>0, <2>1, <2>3, <3>1 DEF Batched, Key, held
    <3> QED BY <1>2, <2>3, <3>2
  <2> QED BY <1>9, <2>2, <2>3 DEF Check, k
<1>10. CASE Send
  <2>1. /\ UNCHANGED <<outbox, queue>> /\ worker.batch # <<>>
        /\ worker'.batch = worker.batch /\ worker'.step = "settle"
    BY <1>0, <1>10 DEF Send, At, Batched, tables
  <2>2. Batched'
    BY <1>0, <2>1 DEF Batched, Key
  <2> QED BY <1>2, <2>1, <2>2
<1>11. CASE Settle
  <2>1. held # <<>> /\ NextAlert
    BY <1>0, <1>11 DEF Settle, At, Batched, held
  <2>2. CASE Drop({k})
    <3>1. Outs' /\ Queued' /\ outbox' \subseteq outbox
      BY <1>0, <2>2, DropKeeps
    <3> QED BY <1>4, <2>1, <3>1
  <2>3. CASE CountedFor(k) /\ queue' = Without(queue, {k})
    <3>1. /\ Outs'
          /\ \A row \in outbox : Key(row) # k => row \in outbox'
          /\ \A row \in outbox' : Key(row) # k => row \in outbox
      BY <1>0, <1>1, <2>1, <2>3, CountedKeeps
    <3>2. /\ queue' \in Seq(Keys) /\ Distinct(queue')
          /\ IsPartOf(queue', queue, {k}, Len(queue))
      BY <1>0, <2>3, WithoutKeeps DEF Queued
    <3>3. ASSUME NEW i \in 1..Len(queue') PROVE (Row(queue[i]) # {})'
      <4>1. PICK j \in 1..Len(queue) : queue'[i] = queue[j] /\ queue[j] # k
        BY <3>2 DEF IsPartOf
      <4>2. PICK row \in outbox : Key(row) = queue[j]
        BY <1>0 DEF Queued, Row
      <4>3. row \in outbox'
        BY <3>1, <4>1, <4>2
      <4> QED BY <4>1, <4>2, <4>3 DEF Row, Key
    <3>4. Queued'
      BY <3>2, <3>3 DEF Queued
    <3> QED BY <1>4, <2>1, <3>1, <3>4
  <2> QED BY <1>11, <2>2, <2>3 DEF Settle, CountedFor, k
<1>12. CASE PurgeDevices
  <2>1. UNCHANGED <<outbox, queue>> /\ worker'.batch = <<>> /\ worker'.step = "rest"
    BY <1>12 DEF PurgeDevices, Resting
  <2> QED BY <1>2, <1>3, <2>1
<1> QED BY <1>5, <1>6, <1>7, <1>8, <1>9, <1>10, <1>11, <1>12 DEF Drain

LEMMA SessionStep ==
  ASSUME session \in [Sessions -> {"new", "live", "revoked", "over"}], [Next]_vars
  PROVE  session' \in [Sessions -> {"new", "live", "revoked", "over"}]
<1> DEFINE States == {"new", "live", "revoked", "over"}
<1>1. ASSUME NEW s, NEW state \in States, session' = [session EXCEPT ![s] = state]
      PROVE  session' \in [Sessions -> States]
  BY <1>1
<1>2. ASSUME NEW s, RevokeSession(s) PROVE session' \in [Sessions -> States]
  BY <1>1, <1>2 DEF RevokeSession
<1>3. ASSUME NEW r, Refuse(r) PROVE session' \in [Sessions -> States]
  BY <1>2, <1>3 DEF Refuse
<1>4. CASE Tables
  <2>1. ASSUME NEW s \in Sessions, RunOut(s) \/ Revoke(s) PROVE session' \in [Sessions -> States]
    BY <1>1, <1>2, <2>1 DEF RunOut, Revoke
  <2> QED BY <1>4, <2>1 DEF Tables, Age, Create, Elapse
<1>5. CASE Straggler
  BY <1>3, <1>5 DEF Straggler
<1>6. ASSUME NEW p \in Phones, Owner(p) PROVE session' \in [Sessions -> States]
  <2>1. ASSUME NEW s \in Sessions, Login(p, s) PROVE session' \in [Sessions -> States]
    BY <1>1, <2>1 DEF Login
  <2> QED BY <1>6, <2>1 DEF Owner, Logout, Expire, TurnOff, TurnOn, Rotate, tables
<1>7. ASSUME NEW p \in Phones, Registration(p) PROVE session' \in [Sessions -> States]
  <2>1. CASE Admit(p)
    BY <1>3, <2>1 DEF Admit
  <2> QED BY <1>7, <2>1 DEF Registration, Start, Bind, AskToken, Serve, Done, GiveUp, tables
<1> QED
  BY <1>4, <1>5, <1>6, <1>7, DrainFrame, OtherFrame DEF Next, vars, tables

LEMMA ExpiredStep ==
  ASSUME expired \subseteq Ops, [Next]_vars
  PROVE  expired' \subseteq Ops
<1>1. ASSUME NEW p \in Phones, Owner(p) \/ Registration(p) PROVE expired' = expired
  BY <1>1 DEF Owner, Logout, Expire, TurnOff, TurnOn, Login, Rotate, tables,
              Registration, Start, Bind, AskToken, Admit, Serve, Done, GiveUp
<1>2. CASE Tables
  BY <1>2 DEF Tables, Age, Create, Elapse, RunOut, Revoke
<1> QED
  BY <1>1, <1>2, DrainFrame, OtherFrame DEF Next, Straggler, vars, tables

LEMMA ShapeInit == ASSUME Init PROVE ShapeInv
<1>1. Outs /\ OneOwner(device)
  BY DEF Init, Outs, OneOwner
<1>2. Queued /\ Batched
  BY DEF Init, Queued, Batched, Distinct, Resting
<1> QED BY <1>1, <1>2 DEF ShapeInv, Init

LEMMA ShapeStep ==
  ASSUME IndInv, ShapeInv, AlertAssumption, [Next]_vars
  PROVE  ShapeInv'
<1>1. session' \in [Sessions -> {"new", "live", "revoked", "over"}] /\ expired' \subseteq Ops
  BY SessionStep, ExpiredStep DEF ShapeInv
<1>2. OneOwner(device)'
  BY DeviceStep DEF IndInv, ShapeInv, DevicesFollow, OneOwner
<1> SUFFICES Outs' /\ Queued' /\ Batched'
  BY <1>1, <1>2 DEF ShapeInv
<1>3. ASSUME UNCHANGED <<outbox, queue, worker>> PROVE Outs' /\ Queued' /\ Batched'
  <2>1. Outs'
    BY <1>3 DEF ShapeInv, Outs, Key
  <2>2. Queued'
    BY <1>3 DEF ShapeInv, Queued, Row, Key
  <2>3. Batched'
    BY <1>3 DEF ShapeInv, Batched, Key
  <2> QED BY <2>1, <2>2, <2>3
<1>4. ASSUME NEW k \in Keys, Elapse(k) PROVE Outs' /\ Queued' /\ Batched'
  <2>1. Row(k) # {} /\ k \notin ToSet(queue) /\ queue' = Append(queue, k) /\ UNCHANGED <<outbox, worker>>
    BY <1>4 DEF Elapse
  <2>2. queue \in Seq(Keys) /\ Distinct(queue) /\ \A i \in 1..Len(queue) : Row(queue[i]) # {}
    BY DEF ShapeInv, Queued
  <2>3. \A i \in 1..Len(queue) : queue[i] # k
    BY <2>1, <2>2 DEF ToSet
  <2>4. /\ queue' \in Seq(Keys) /\ Len(queue) \in Nat /\ Len(queue') = Len(queue) + 1
        /\ \A i \in 1..Len(queue') : queue'[i] = IF i = Len(queue') THEN k ELSE queue[i]
    BY <2>1, <2>2
  <2>5. \A i \in 1..Len(queue') : i # Len(queue') => i \in 1..Len(queue)
    BY <2>4
  <2>6. Distinct(queue')
    BY <2>2, <2>3, <2>4, <2>5 DEF Distinct
  <2>7. ASSUME NEW i \in 1..Len(queue') PROVE (Row(queue[i]) # {})'
    <3>1. Row(queue'[i]) # {}
      BY <2>1, <2>2, <2>4, <2>5
    <3> QED BY <2>1, <3>1 DEF Row, Key
  <2>8. Outs' /\ Batched'
    BY <2>1 DEF ShapeInv, Outs, Batched, Key
  <2> QED BY <2>4, <2>6, <2>7, <2>8 DEF Queued
<1>5. CASE Tables
  <2>1. ASSUME NEW o \in Ops, NEW m \in Members, Create(o, m) PROVE Outs' /\ Queued' /\ Batched'
    BY <2>1, CreateShape
  <2>2. ASSUME NEW s, RunOut(s) \/ Revoke(s) \/ Age(s) PROVE UNCHANGED <<outbox, queue, worker>>
    BY <2>2 DEF RunOut, Revoke, Age
  <2>3. \/ \E o \in Ops, m \in Members : Create(o, m)
        \/ \E k \in Keys : Elapse(k)
        \/ \E s : RunOut(s) \/ Revoke(s) \/ Age(s)
    BY <1>5 DEF Tables
  <2>4. CASE \E s : RunOut(s) \/ Revoke(s) \/ Age(s)
    BY <1>3, <2>2, <2>4
  <2> QED BY <1>4, <2>1, <2>3, <2>4
<1>6. CASE Stop
  <2>1. UNCHANGED <<outbox, queue>> /\ worker'.batch = <<>> /\ worker'.step = "rest"
    BY <1>6 DEF Stop, Resting, tables
  <2>2. Outs'
    BY <2>1 DEF ShapeInv, Outs, Key
  <2>3. Queued'
    BY <2>1 DEF ShapeInv, Queued, Row, Key
  <2>4. Batched'
    BY <2>1 DEF Batched, Distinct
  <2> QED BY <2>2, <2>3, <2>4
<1>7. ASSUME NEW p \in Phones, Owner(p) \/ Registration(p) \/ Receive(p)
      PROVE  UNCHANGED <<outbox, queue, worker>>
  BY <1>7 DEF Owner, Logout, Expire, TurnOff, TurnOn, Login, Rotate, tables, Receive,
              Registration, Start, Bind, AskToken, Admit, Serve, Done, GiveUp
<1>8. CASE Straggler \/ UNCHANGED vars
  BY <1>3, <1>8 DEF Straggler, vars, tables
<1>9. ASSUME NEW p \in Phones, Owner(p) \/ Registration(p) \/ Receive(p)
      PROVE  Outs' /\ Queued' /\ Batched'
  BY <1>3, <1>7, <1>9
<1> QED BY <1>5, <1>6, <1>8, <1>9, DrainShape DEF Next

\* Every table holds rows of its kind, a token is of one installation, an alert is queued
\* once and never tried too often (drain purges, selects, tries and deletes).
THEOREM TypeCorrect == Spec => []TypeOK
<1> DEFINE Inv == IndInv /\ ShapeInv /\ alone \in BOOLEAN
<1>1. Init => Inv
  BY InitInv, ShapeInit DEF Init
<1>2. Inv /\ [Next]_vars => Inv'
  <2>1. alone \in BOOLEAN /\ [Next]_vars => alone' \in BOOLEAN
    BY DEF Next, vars
  <2> QED BY <2>1, StepInv, ShapeStep, AlertAssumption
<1>3. Inv => TypeOK
  <2> SUFFICES ASSUME Inv PROVE TypeOK
    OBVIOUS
  <2>1. /\ device \in [Phones -> SUBSET Registrations] /\ actor \in [Ops -> SUBSET Members]
        /\ \A p, q \in Phones : \A d \in device[p], e \in device[q] : d.token = e.token => p = q /\ d = e
        /\ late \subseteq Requests
    BY DEF IndInv, ServerShape, ShapeInv, OneOwner
  <2>2. \A row \in outbox :
          /\ Key(row) \in Keys /\ row.session \in Sessions /\ row.attempts \in 0..MaxAttempts
          /\ \A other \in Row(Key(row)) : other = row
    <3>1. \A row \in outbox : row \in Rows
      BY DEF IndInv, ServerShape
    <3>2. \A row \in Rows : Key(row) \in Keys /\ row.session \in Sessions
      BY DEF Rows, Key, Keys
    <3> QED BY <3>1, <3>2 DEF ShapeInv, Outs, Row
  <2>3. /\ \A i \in 1..Len(queue) :
             Row(queue[i]) # {} /\ \A j \in 1..Len(queue) : queue[i] = queue[j] => i = j
        /\ \A i \in 1..Len(worker.batch) : worker.batch[i] \in Keys
    BY DEF ShapeInv, Queued, Batched, Distinct
  <2>4. /\ \A p \in Phones : reg[p] \subseteq Requests /\ signed[p] \subseteq Sessions
        /\ unused \cap {token[p] : p \in Phones} = {}
    BY DEF IndInv, PhoneShape, Issued
  <2>5. session \in [Sessions -> {"new", "live", "revoked", "over"}] /\ expired \subseteq Ops /\ alone \in BOOLEAN
    BY DEF ShapeInv
  <2> QED BY <2>1, <2>2, <2>3, <2>4, <2>5 DEF TypeOK
<1> QED BY <1>1, <1>2, <1>3, PTL DEF Spec
====
