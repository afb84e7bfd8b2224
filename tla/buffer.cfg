\* Three threads that put and get in any order, two slots.
CONSTANTS
  Threads = {t1, t2, t3}
  Items = {a, b}
  N = 2
SPECIFICATION FairSpec
PROPERTIES ImplementsFIFO Served
\* All threads may wait in get.
CHECK_DEADLOCK FALSE
