\* A killed process may outlive the two seconds stopLocked waits for it.
SPECIFICATION Spec
CONSTANTS
  Procs = {p1, p2, p3}
  Forks = {f1, f2}
  None = None
  Foreign = Foreign
  KillTimesOut = TRUE
INVARIANTS OwnProcessTracked
CHECK_DEADLOCK FALSE
