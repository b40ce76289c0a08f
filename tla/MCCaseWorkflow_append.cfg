SPECIFICATION Spec
CONSTANTS
    Calls = {c1, c2, c3}
    Ops = {"screen", "comment"}
    IdemKeys = {k}
    None = None
    Flagged = TRUE
    ListLimit = 3
    MaxTime = 1
    MaxErrors = 1
PROPERTIES
    AppendOnlyTimeline
CHECK_DEADLOCK FALSE
