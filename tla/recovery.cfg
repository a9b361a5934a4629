SPECIFICATION FairSpec
CONSTANTS
  Phones = {p1}
  Entries = {o1}
  Closings = {c1}
  Months = {m1}
  ImportRun = import
  Keep = 2
  Retry = 1
  Interval = 2
  Requests = {r1, r2}
  MaxLosses = 1
  MaxFaults = 1
INVARIANTS
  TypeOK
  CopiesAreMoments
  ServerIsAMoment
  CopiesRestore
PROPERTIES
  NothingOverwritten
  LatestStays
  BackedUp
