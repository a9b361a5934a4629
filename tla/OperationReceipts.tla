-------------------------- MODULE OperationReceipts --------------------------
(***************************************************************************)
(* What the finance operations promise to their clients, whatever they do: *)
(* an operation id is applied once, an operation that states the account   *)
(* revisions it was computed from is applied to exactly those, a balance   *)
(* never moves without its revision moving, and every answer, first or     *)
(* repeated, is the receipt of that member's very request.                 *)
(***************************************************************************)
EXTENDS Integers, Sequences, Functions

CONSTANTS Accounts

VARIABLES
  balance,   \* the balance of each account
  version,   \* the revision of each account
  log,       \* the receipts, in the order the operations were applied
  reply      \* the last answer: {} or one record

vars == <<balance, version, log, reply>>

BasedOn(receipt) ==
  IF receipt.request.type \in {"edit", "delete", "reconcile"}
  THEN receipt.request.expected ELSE << >>

AnswerTo(receipt) ==
  {[actor |-> receipt.actor, request |-> receipt.request, answer |-> receipt]}

Init ==
  /\ version = [a \in Accounts |-> 0]
  /\ log = << >>
  /\ reply = {}

\* A new operation takes effect.
Apply(receipt) ==
  /\ receipt.op \notin {earlier.op : earlier \in Range(log)}
  /\ \A a \in DOMAIN BasedOn(receipt) : BasedOn(receipt)[a] = version[a]
  /\ version' = [a \in Accounts |->
                   version[a] + (IF a \in DOMAIN receipt.accounts THEN 1 ELSE 0)]
  /\ \A a \in DOMAIN receipt.accounts : receipt.accounts[a].revision = version'[a]
  /\ \A a \in Accounts \ DOMAIN receipt.accounts : balance'[a] = balance[a]
  /\ log' = Append(log, receipt)
  /\ reply' = AnswerTo(receipt)

\* An operation already applied is answered again, and not applied again.
Replay(receipt) ==
  /\ reply' = AnswerTo(receipt)
  /\ UNCHANGED <<balance, version, log>>

Next ==
  \/ log' # << >> /\ Apply(log'[Len(log')])
  \/ \E receipt \in Range(log) : Replay(receipt)

Spec == Init /\ [][Next]_vars
====
