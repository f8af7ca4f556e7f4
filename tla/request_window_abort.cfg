SPECIFICATION Spec
CONSTANTS
    Requests = {"latest", "block", "other"}
    Normalize <- MCNormalize
    Stored = {s1}
    Runs = {k1}
    Foreign = {f1}
    Controllers = {c1, c2}
    MaxLoads = 1
    None = None
PROPERTIES
    AbortCancels
