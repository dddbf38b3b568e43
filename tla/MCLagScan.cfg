SPECIFICATION FairSpec
CONSTANTS
  N = 5
  PageSize = 2
  Lag = 2
  Delay = 1
  RunTime = 1
  MinPages = 2
  Backfill = 3
  Burst = FALSE
  MaxClock = 7
  MaxFaults = 1
INVARIANTS TypeOK
PROPERTIES KeepsPromise CaughtUp
