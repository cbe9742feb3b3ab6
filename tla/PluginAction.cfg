SPECIFICATION Spec
CONSTANTS
  Files = {input, f}
  Input = input
  None = None
  MaxCommands = 3
  MaxRuns = 2
INVARIANTS
  HeardWhileRunning
  EndIsNotEarly
  
  NothingOutlives
PROPERTIES
  Returns
CHECK_DEADLOCK FALSE
