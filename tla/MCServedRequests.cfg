CONSTANTS
  QueueMax = 2
  BatchSize = 2
  MaxMetered = 5
  RowIds = {1, 2, 3}
  MaxStamp = 2
  PageCap = 2
  Limits = {0, 1, 5}
  Fetches = 3
  FirstNames = {"ann"}
  LastNames = {"lee"}
  Spellings = {"plain", "dashed", "other script"}
  FuzzyScore = 90
SPECIFICATION FairSpec
CHECK_DEADLOCK FALSE
INVARIANTS
  TypeOK
  UsageAccounted
  PagesComplete
  DatabasesAgree
  PackReusable
  DecisionsExplained
PROPERTIES
  UsageSettles
