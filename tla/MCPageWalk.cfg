SPECIFICATION FairSpec
CONSTANTS
  Campaigns = {c1, c2}
  Leaves = {1, 2, 3}
  Kinds = {"enrollments", "phishing runs", "endpoints"}
  Per = 2
  PageWalkCap = 3
  Shuffles = FALSE
  MaxChanges = 4
  MaxFaults = 1
INVARIANTS TypeOK
PROPERTIES CleanRunIsComplete RunEnds CaughtUp
