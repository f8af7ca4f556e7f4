\* Two source additions; the first forge init is cut short.
SPECIFICATION Spec
CONSTANTS
  s1 = s1  s2 = s2  s3 = s3  t1 = t1  a1 = a1  a2 = a2
  project = project  absolute = absolute  relative = relative
  Simulations = {}
  Replays = {}
  Additions = {a1, a2}
  MaxConcurrent = 2
  None = None
  NoPath = NoPath
  Paths = {NoPath}
  LockingPaths = {}
  Root <- MCRoot
  Dir <- MCDir
  DefaultDir <- MCDefaultDir
  DefaultRoots <- MCDefaultRoots
  DiskFaults = FALSE
  MaxStops = 0
INVARIANTS AddedToResetProject
CHECK_DEADLOCK FALSE
