SPECIFICATION Spec
CONSTANTS
  AwaitIngest = FALSE
  Overlap = FALSE
  SchemaFirst = TRUE
  MaxRecords = 2
  MaxFaults = 0
INVARIANTS NothingLost
