\* Two cores: nobody is killed.
CONSTANTS
  c1 = c1
  c2 = c2
  reaper = reaper
  init = init
  child = child
  l = l
  Cores = {c1, c2}
  Threads = {reaper, init, child}
  Reaper = reaper
  FirstThread = init
  Locks = {}
  Killable = {}
  NCHILD = 1
  MaxRunTime = 1
  None = None
SPECIFICATION FairSpec
INVARIANTS NoThreadLost NoPanic
PROPERTIES IdleCoreTakesWork
