SPECIFICATION Spec
CONSTANTS
    Requests = {"latest", "block", "other"}
    Normalize <- MCNormalize
    Stored = {s1}
    Runs = {k1, k2}
    Foreign = {f1}
    Controllers = {c1, c2}
    MaxLoads = 1
    None = None
INVARIANTS
    TypeOK
    OpeningIffLookup
    RecordIsWhatRan
    UrlNamesShown
PROPERTIES
    EditEndsLookup
    OpeningEnds
