\* Two runs on a database of an earlier version.
SPECIFICATION Spec
CONSTANTS
  r1 = r1  r2 = r2  r3 = r3  l1 = l1  g1 = g1
  pA = pA  pB = pB  pC = pC
  Runs = {r1, r2}
  Lookups = {l1}
  Listings = {g1}
  Projects = {pA, pB, pC}
  Wanted <- MCWanted
  Limit = 2
  MaxKills = 1
  None = None
SYMMETRY MCSymmetry
INVARIANTS EveryRunKept
CHECK_DEADLOCK FALSE
