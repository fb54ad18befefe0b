CONSTANTS
  r1 = r1
  r2 = r2
  r3 = r3
  None = None
  Requests = {r1, r2, r3}
  Threads = {t1}
  InputTokenLimit = 1
  MinToolCalls = 2
  MinMessages = 2
  MaxInputTokens = 1
  MaxItems = 2
SPECIFICATION Spec
SYMMETRY Symmetry
CHECK_DEADLOCK FALSE
INVARIANTS CompletionIsEarned AnnouncedOnce
