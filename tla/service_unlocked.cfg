\* The default project named by a path relative to the repository root.
SPECIFICATION Spec
CONSTANTS
  s1 = s1  s2 = s2  s3 = s3  t1 = t1  a1 = a1  a2 = a2
  project = project  absolute = absolute  relative = relative
  Simulations = {s1, s2}
  Replays = {}
  Additions = {a1}
  MaxConcurrent = 2
  None = None
  NoPath = NoPath
  Paths = {absolute, relative}
  LockingPaths = {absolute}
  Root <- MCRoot
  Dir <- MCDir
  DefaultDir <- MCDefaultDir
  DefaultRoots <- MCDefaultRoots
  DiskFaults = FALSE
  MaxStops = 0
INVARIANTS StableSources
CHECK_DEADLOCK FALSE
