SPECIFICATION Spec
CONSTANTS
  food = food
  home = home
  unallocated = unallocated
  other = other
  Categories = {food, home}
  Imported <- ImportedFood
  Unallocated = unallocated
  External = other
  TxnIds = {1, 2}
  Requests <- SomeRequests
  Plans <- NothingOrThree
  DefaultPlan <- SixDollars
  Allocations = {1}
  Observations = {1}
  Corrections <- SomeCorrections
  UsdPerEur <- DollarGains
  LastMonth = 3
  MaxOps = 3
INVARIANTS
  RebuiltFromMovements
