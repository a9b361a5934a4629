---------------------------- MODULE MCPartnerAlerts ----------------------------
(* Small instances of PartnerAlerts for TLC. *)
EXTENDS PartnerAlerts, TLC

CONSTANTS p1, p2, m1, m2, s1, s2

\* The sessions are of different members, who may sign in on one phone one after the
\* other.
OneSession == [s \in {s1} |-> m1]
TwoSessions == [s \in {s1, s2} |-> IF s = s1 THEN m1 ELSE m2]

Symmetry == Permutations(Tokens) \cup Permutations(Phones)
====
