CONSTANTS
  Workers = {w1, w2}
  Admins = {a1}
  JobIds = {1, 2, 3, 4, 5, 6}
  NoJob = NoJob
  Intervals = {2}
  RetryDelay = 1
  Lease = 1
  MaxEvents = 3
SPECIFICATION FairSpec
CHECK_DEADLOCK FALSE
INVARIANTS
  TypeOK
  ScheduleAlive
  QuietCallDecides
  NoPileUp
PROPERTIES
  RefreshRuns
  ScheduleRecurs
