SPECIFICATION Spec
CONSTANTS
  OpIds = {o1, o2}
  TxnIds = {t1, t2}
  Window = 1
  MaxDrafts = 2
  MaxWeb = 2
  MaxLate = 1
SYMMETRY Symmetry
INVARIANTS
  TypeOK
  NoDuplicateEntry
  OneWritePerEntry
  NothingLost
  SavedStaysVisible
PROPERTIES
  OverwritesOnlyItsBase
