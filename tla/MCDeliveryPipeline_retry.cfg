SPECIFICATION FairSpec
CONSTANTS
    e1 = e1
    a1 = a1
    a2 = a2
    s1 = s1
    s2 = s2
    w1 = w1
    w2 = w2
    Subs = {s1}
    Emitters = {e1}
    Admins = {a1}
    Workers = {w1}
    NoJob = NoJob
    MaxAttempts = 2
    RetryBase = 1
    LeaseTime = 1
    ClaimLimit = 2
    AdminLimit = 2
    MaxTime = 3
    MaxCrashes = 0
    ApiMayCrash = FALSE
PROPERTIES
    RetryIsHandled
