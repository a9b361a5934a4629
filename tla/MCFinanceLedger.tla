--------------------------- MODULE MCFinanceLedger ---------------------------
(* Small instances of FinanceLedger for TLC. *)
EXTENDS FinanceLedger, TLC

MCOpening == [a \in Accounts |-> 0]

\* Operation ids, transaction ids, members and accounts are interchangeable.
Symmetry ==
  Permutations(OpIds) \cup Permutations(TxnIds) \cup Permutations(Subjects) \cup Permutations(Accounts)
====
