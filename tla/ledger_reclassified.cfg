SPECIFICATION Spec
CONSTANTS
  Accounts = {a1}
  External = system
  TxnIds = {t1}
  Imported = {x1}
  OpIds = {o1, o2, o3, o4}
  Subjects = {s1}
  Amounts = {1}
  Observations = {0}
  LastMonth = 2
  Opening <- MCOpening
SYMMETRY Symmetry
INVARIANTS
  FreshBatchExact
