SPECIFICATION FairSpec
CONSTANTS
  OpIds = {o1, o2}
  TxnIds = {t1, t2}
  Window = 1
  MaxDrafts = 2
  MaxWeb = 0
  MaxLate = 0
PROPERTIES
  PendingResolved
