SPECIFICATION FairSpec
CONSTANTS
  Runs = {k1, k2, k3}
  Landings = 2
  HandRuns = FALSE
  MaxFaults = 1
INVARIANTS TypeOK NoSnapshotLost OnlyComplete
PROPERTIES EveryCompleteCopied
