SPECIFICATION FairSpec
CONSTANTS
  h1 = h1
  h2 = h2
  h3 = h3
  s1 = s1
  s2 = s2
  s3 = s3
  Deployers = {h1, h2, h3}
  Sources = {s1, s2, s3}
  Login <- MCLogin
  Managed <- MCManaged
  Nobody = "nobody"
  MaxChanges = 3
  MaxFaults = 1
INVARIANTS TypeOK HeldBeforeReleased
PROPERTIES KeptApart Converges Settles
