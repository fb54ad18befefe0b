SPECIFICATION FairSpec
CONSTANTS
  None = None
  Requests = {r1, r2}
  ThreadOf <- SameThread
  TokenCounts = {1}
  MaxRetries = 1
  NoticeLimit = 1
  ThreadLimit = 1
  MaxTotal = 1
  MaxModelFailures = 1
  Mekugi = TRUE
INVARIANTS NoticesAccountedFor  UsageIsWhole
PROPERTY EveryRequestEnds
CHECK_DEADLOCK FALSE
