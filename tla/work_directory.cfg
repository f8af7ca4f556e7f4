\* Three runs in up to three projects, a list of two, a lookup, a listing.
SPECIFICATION Spec
CONSTANTS
  r1 = r1  r2 = r2  r3 = r3  l1 = l1  g1 = g1
  pA = pA  pB = pB  pC = pC
  Runs = {r1, r2, r3}
  Lookups = {l1}
  Listings = {g1}
  Projects = {pA, pB, pC}
  Wanted <- MCWanted
  Limit = 2
  MaxKills = 1
  None = None
SYMMETRY MCSymmetry
INVARIANTS TypeOK ModernRunsKept KnownIsFound ListIsRecent TempsRemoved
CHECK_DEADLOCK FALSE
