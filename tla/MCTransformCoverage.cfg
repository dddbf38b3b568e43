SPECIFICATION Spec
CONSTANTS
  r1 = r1
  r2 = r2
  r3 = r3
  Rows = {r1, r2, r3}
  Day <- MCDay
  Month <- MCMonth
  Writers = {w1}
  ChunkRows = 1
  Chunkable = TRUE
  FullRefresh = FALSE
  MaxLandings = 3
  MaxFaults = 0
PROPERTIES CoverageIsProof
