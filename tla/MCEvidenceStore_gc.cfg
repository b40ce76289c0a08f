SPECIFICATION Spec
CONSTANTS
    Calls = {c1, c2, c3}
    Collectors = {g1}
    Blobs = {b1}
    None = None
    Retention = 2
    Overrides = {1}
    MaxTime = 1
    MaxCrashes = 1
SYMMETRY CallSymmetry
INVARIANTS
    TypeOK
    IssuedPackKept
    ReferencesKept
