\* Two simulations, local or of the default project, an addition and a replay, one worker.
SPECIFICATION FairSpec
CONSTANTS
  s1 = s1  s2 = s2  s3 = s3  t1 = t1  a1 = a1  a2 = a2
  project = project  absolute = absolute  relative = relative
  Simulations = {s1, s2}
  Replays = {t1}
  Additions = {a1}
  MaxConcurrent = 1
  None = None
  NoPath = NoPath
  Paths = {absolute, NoPath}
  LockingPaths = {absolute}
  Root <- MCRoot
  Dir <- MCDir
  DefaultDir <- MCDefaultDir
  DefaultRoots <- MCDefaultRoots
  DiskFaults = FALSE
  MaxStops = 0
INVARIANTS RecordedIffStarted
PROPERTIES EveryCallAnswered
CHECK_DEADLOCK FALSE
