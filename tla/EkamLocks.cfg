SPECIFICATION LocksFairSpec
CONSTANTS
  Procs = {p1, p2}
  Nobody = Nobody
  MaxBuilds = 2
INVARIANTS
  VerdictIsStill
  FirstByte
PROPERTIES
  ToldOfBuild
  NobodyWaitsForEver
