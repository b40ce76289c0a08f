SPECIFICATION Spec
CONSTANTS
    Calls = {c1, c2}
    Ops = {"screen"}
    IdemKeys = {k}
    None = None
    Flagged = TRUE
    ListLimit = 2
    MaxTime = 0
    MaxErrors = 1
INVARIANTS
    AtMostOnce
CHECK_DEADLOCK FALSE
