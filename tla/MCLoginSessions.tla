--------------------------- MODULE MCLoginSessions ---------------------------
(* Small instances of LoginSessions for TLC. *)
EXTENDS LoginSessions, TLC

CONSTANTS s1, s2, s3   \* sign-ins; those of the app differ from those of browsers

Symmetry ==
  Permutations(Sessions) \cup Permutations(Requests) \cup Permutations(Browsers)
    \cup Permutations(Consents) \cup Permutations(GoogleIds) \cup Permutations(Handoffs)
====
