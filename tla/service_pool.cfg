\* Three simulations over two workers, local runs, one stop of the server.
SPECIFICATION Spec
CONSTANTS
  s1 = s1  s2 = s2  s3 = s3  t1 = t1  a1 = a1  a2 = a2
  project = project  absolute = absolute  relative = relative
  Simulations = {s1, s2, s3}
  Replays = {}
  Additions = {}
  MaxConcurrent = 2
  None = None
  NoPath = NoPath
  Paths = {NoPath}
  LockingPaths = {}
  Root <- MCRoot
  Dir <- MCDir
  DefaultDir <- MCDefaultDir
  DefaultRoots <- MCDefaultRoots
  DiskFaults = FALSE
  MaxStops = 1
SYMMETRY MCSymmetry
INVARIANTS TypeOK OneRunPerWorker
PROPERTIES ImplementsRunLifecycle
CHECK_DEADLOCK FALSE
