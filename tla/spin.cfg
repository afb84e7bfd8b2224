\* Two cores, each with a thread and its timer interrupt, three nested locks.
CONSTANTS
  c1 = c1
  c2 = c2
  Cores = {c1, c2}
  Locks = {1, 2, 3}
  Kind <- AllKinds
  MaxRequests <- Requests
  None = None
SPECIFICATION FairSpec
INVARIANTS MutualExclusion NoSelfDeadlock FlagRestored
PROPERTIES EveryoneServed
