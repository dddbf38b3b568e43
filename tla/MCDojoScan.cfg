SPECIFICATION FairSpec
CONSTANTS
  N = 5
  PageSize = 4
  MinPageSize = 2
  ShrinkFactor = 4
  GrowAfter = 1
  Skew = 1
  Lead = 1
  DeleteUnderScan = FALSE
  MaxClock = 4
  MaxFaults = 2
INVARIANTS TypeOK
PROPERTIES KeepsPromise CaughtUp
