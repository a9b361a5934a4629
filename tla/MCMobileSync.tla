----------------------------- MODULE MCMobileSync -----------------------------
(* Small instances of MobileSync for TLC. *)
EXTENDS MobileSync, TLC

Symmetry == Permutations(OpIds) \cup Permutations(TxnIds)
====
