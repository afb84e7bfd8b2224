SPECIFICATION Spec
CONSTANTS
  TotalProcs = 4
  Hz = 2
  Diffs = {2, 5}
  None = None
INVARIANT BootSound
PROPERTY BootCompletes
CHECK_DEADLOCK FALSE
