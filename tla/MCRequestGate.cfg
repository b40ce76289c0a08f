CONSTANTS
  Minute = 2
  MaxBuckets = 2
  Keys = {k1, k2}
  Hosts = {h1, h2}
  NoRequest = NoRequest
  DefaultRpm = 2
  PreauthRpm = 3
  PlanRpms = {1, 3}
  MaxRequests = 3
  MaxAnonymous = 1
  MaxClock = 2
  MaxChanges = 2
SPECIFICATION Spec
CHECK_DEADLOCK FALSE
SYMMETRY MCSymmetry
INVARIANTS
  TypeOK
  RateBound
