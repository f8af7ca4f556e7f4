\* Two processes, two forks, a foreign program on the port, a killed process
\* that exits within two seconds; and both children of the supervisor.
SPECIFICATION MCSpec
CONSTANTS
  Procs = {p1, p2}
  Forks = {f1, f2}
  None = None
  Foreign = Foreign
  KillTimesOut = FALSE
INVARIANTS ProcessesTypeOK OwnProcessTracked ExitsReachTheirOwn FreshFork
PROPERTIES EveryCallReturns StopEndsBoth
CHECK_DEADLOCK FALSE
