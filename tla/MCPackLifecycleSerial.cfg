SPECIFICATION Spec
CONSTANTS
  AwaitIngest = TRUE
  Overlap = FALSE
  SchemaFirst = TRUE
  MaxRecords = 3
  MaxFaults = 2
INVARIANTS TypeOK NothingLost EnabledHasTables CoverageBacked
