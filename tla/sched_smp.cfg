\* Two cores, the reaper, init, one child, one lock; init may kill its child at any time.
CONSTANTS
  c1 = c1
  c2 = c2
  reaper = reaper
  init = init
  child = child
  l = l
  Cores = {c1, c2}
  Threads = {reaper, init, child}
  Reaper = reaper
  FirstThread = init
  Locks = {l}
  Killable = {child}
  NCHILD = 1
  MaxRunTime = 1
  None = None
SPECIFICATION Spec
SYMMETRY CoreSymmetry
INVARIANTS
  SwitchInv OnePlace TickHitsRunning IdleAtHome ReadySorted
  SleepersSeeWork LockTokens NoMissedUp WaitSeesStatus
PROPERTIES NoOvertaking
