SPECIFICATION FairSpec
CONSTANTS
    Threads = {t1, t2, t3}
    Keys = {global}
    Free = Free
    MaxCalls = 4
INVARIANTS
    TypeOK
    SingleFlight
    RefreshOwned
    MonotonicServing
PROPERTIES
    ReturnsUnlessWaiting
CHECK_DEADLOCK FALSE
