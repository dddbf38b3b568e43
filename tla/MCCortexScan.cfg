SPECIFICATION FairSpec
CONSTANTS
  N = 4
  PageSize = 2
  Grain = 2
  Lead = 0
  Silent = FALSE
  MaxClock = 4
  MaxStops = 1
INVARIANTS TypeOK
PROPERTIES KeepsPromise CaughtUp
