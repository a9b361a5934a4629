SPECIFICATION Spec
CONSTANTS
  Accounts = {a1, a2}
  External = system
  TxnIds = {t1}
  Imported = {x1}
  OpIds = {o1, o2, o3}
  Subjects = {s1}
  Amounts = {1}
  Observations = {2}
  LastMonth = 3
  Opening <- MCOpening
SYMMETRY Symmetry
INVARIANTS
  TypeOK
  BalanceMatchesLedger
  RevisionAudit
  NoLostUpdate
  FreshBatchMatchesLedger
  ClosedInOrder
  ClosedOnFreshReconciliation
  CorrectionsReferToFrozenMonths
PROPERTIES
  ImplementsReceipts
  ClosedMonthFrozen
