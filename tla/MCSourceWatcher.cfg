SPECIFICATION WatcherSpec
CONSTANTS
  root = root
  d = d
  f = f
  g = g
  None = None
  Paths <- MCPaths
  Root = root
  Parent <- MCParent
  Kinds <- MCKinds
  Operations = {"create", "write", "unlink", "rename", "mkdir", "rmdir"}
  MaxChanges = 3
INVARIANTS
  
  WatchersAreTold
PROPERTIES
  ComesToRest
CHECK_DEADLOCK FALSE
