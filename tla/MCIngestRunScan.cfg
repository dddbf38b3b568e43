SPECIFICATION FairSpec
CONSTANTS
  Records = {r1, r2}
  Ordered = FALSE
  BatchSize = 2
  MaxRejects = 1
  ReapsAged = TRUE
  Backfill = 1
  Skew = 1
  Lead = 0
  MaxClock = 3
  MaxChanges = 2
  MaxFaults = 2
INVARIANTS TypeOK NothingSkipped
PROPERTIES KeepsPromise CleanRunIsComplete CaughtUp AbandonedClosed
