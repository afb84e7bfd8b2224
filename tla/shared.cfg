\* Two threads, four variables, two objects.
CONSTANTS
  Threads = {t1, t2}
  Vars = {v1, v2, v3, v4}
  Fats = {f1, f2, f3}
  Objects = {o1, o2}
  Dead = Dead
  None = None
SPECIFICATION Spec
SYMMETRY Symmetry
CHECK_DEADLOCK FALSE
INVARIANTS CountExact DeletedOnce
