\* Two simulations in two projects, a source addition, a faulty disk, one stop.
SPECIFICATION Spec
CONSTANTS
  s1 = s1  s2 = s2  s3 = s3  t1 = t1  a1 = a1  a2 = a2
  project = project  absolute = absolute  relative = relative
  Simulations = {s1, s2}
  Replays = {}
  Additions = {a1}
  MaxConcurrent = 2
  None = None
  NoPath = NoPath
  Paths = {project, absolute}
  LockingPaths = {absolute}
  Root <- MCRoot
  Dir <- MCDir
  DefaultDir <- MCDefaultDir
  DefaultRoots <- MCDefaultRoots
  DiskFaults = TRUE
  MaxStops = 1
SYMMETRY MCSymmetry
INVARIANTS CopyStaysWhileUsed NoResidue StableSources CleanStop
PROPERTIES LastUserRemovesCopy
CHECK_DEADLOCK FALSE
