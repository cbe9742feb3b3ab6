SPECIFICATION FairSpec
CONSTANTS
  Pids = {p1, p2, p3, p4}
  Subs = {s1, s2, s3}
  None = None
  Strays = TRUE
CHECK_DEADLOCK FALSE
INVARIANTS
  EndsClean
PROPERTIES
  
  ExitOfOwnIsTold
