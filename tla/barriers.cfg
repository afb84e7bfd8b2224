\* Three workers, three rounds, two stray notifications.
CONSTANTS
  Workers = {w1, w2, w3}
  Rounds = 3
  MaxStray = 2
  None = None
SPECIFICATION Spec
INVARIANTS Together NoMissedSignal
PROPERTIES EveryonePasses
\* The workers may all be through.
CHECK_DEADLOCK FALSE
