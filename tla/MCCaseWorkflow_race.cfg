SPECIFICATION Spec
CONSTANTS
    Calls = {c1, c2, c3}
    Ops = {"screen", "decide", "close", "assign"}
    IdemKeys = {k}
    None = None
    Flagged = TRUE
    ListLimit = 2
    MaxTime = 1
    MaxErrors = 1
SYMMETRY CallSymmetry
INVARIANTS
    TypeOK
    SafeRetry
    QuietCaseAgrees
PROPERTIES
    SettledTimeline
CHECK_DEADLOCK FALSE
