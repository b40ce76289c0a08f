SPECIFICATION FairSpec
CONSTANTS
    Threads = {t1, t2}
    Keys = {global}
    Free = Free
    MaxCalls = 2
PROPERTIES
    WaiterProceeds
CHECK_DEADLOCK FALSE
