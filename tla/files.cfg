\* A parent and a child, two FileDescriptors, one semaphore.
CONSTANTS
  p1 = p1
  p2 = p2
  d1 = d1
  d2 = d2
  s1 = s1
  None = None
  Panic = Panic
  Fault = Fault
  Console = Console
  Threads = {p1, p2}
  First = p1
  Descs = {d1, d2}
  SemObjects = {s1}
  NFILE = 4
  NSEM = 1
  NCHILD = 1
  KindMod = 16
  OffsetMod = 64
  MaxCalls = 3
  Disk <- Image
  SuperAt = 8
  SectorSize = 4
  GroupSize = 4
  NDirect = 2
  InlineMax = 3
  MaxLinks = 2
  Paths <- SomePaths
  Lens = {3, 9}
  Offsets = {7, 15, 20}
  Holds <- NodeHolds
  Named <- PathNames
SPECIFICATION Spec
SYMMETRY Symmetry
INVARIANTS ReadsTheFile  OpensTheNamedFile
\* The bound on calls is reached.
CHECK_DEADLOCK FALSE
