\* Two processes: faults, mmap, munmap, fork, exec, exit; the child may be killed anywhere.
CONSTANTS
  p1 = p1
  p2 = p2
  f1 = f1
  f2 = f2
  None = None
  Junk = Junk
  Procs = {p1, p2}
  First = p1
  Files = {}
  NFrames = 7
  FrameSize = 2
  NPages = 6
  PtSpan = 2
  ApicPage = 11
  Image <- ImageAt
  Stack <- StackAt
  Requests <- AddrRequests
  Touches = {7, 9, 10}
  UninitNode = {None}
  MaxEntries = 4
  MaxNodes = 2
  Loaders = {p1, p2}
  NumMod = 4
  Preempt = TRUE
  Tidy = FALSE
  Early = FALSE
  Killable = {p2}
SPECIFICATION Spec
INVARIANTS TypeOK OneOwner NoLeak
PROPERTIES MmapKeepsApart
\* The processes of the model may all be gone.
CHECK_DEADLOCK FALSE
