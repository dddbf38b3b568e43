SPECIFICATION Spec
CONSTANTS
  n1 = n1  n2 = n2  c1 = c1  c2 = c2
  Absent = Absent  Refused = Refused  Broken = Broken
  Points = {p1, p2, p3}
  Packs <- MCPacks
  Names = {n1, n2}
  Claims = {c1, c2}
  CoreClaims = {c2}
  CoreVersions <- MCCoreVersions
  Ranges <- MCRanges
  MaxChanges = 3
SYMMETRY Sym
INVARIANTS TypeOK FoundIsExact RunsWhatResolves
PROPERTY NoTakeover
