\* Two processes map pages of files, one call or fault at a time.
CONSTANTS
  p1 = p1
  p2 = p2
  f1 = f1
  f2 = f2
  None = None
  Junk = Junk
  Procs = {p1, p2}
  First = p1
  Files = {f1, f2}
  NFrames = 6
  FrameSize = 2
  NPages = 6
  PtSpan = 6
  ApicPage = 11
  Image <- ImageAt
  Stack <- StackAt
  Requests <- FileRequests
  Touches = {7, 8}
  UninitNode = {None}
  MaxEntries = 4
  MaxNodes = 2
  Loaders = {p2}
  NumMod = 8
  Preempt = FALSE
  Tidy = TRUE
  Early = TRUE
  Killable = {}
SPECIFICATION Spec
SYMMETRY FileSymmetry
INVARIANTS NoDangling SharedAsOne FilePageShown CountExact
\* The processes of the model may all be gone.
CHECK_DEADLOCK FALSE
