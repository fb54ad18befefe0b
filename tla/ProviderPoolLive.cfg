SPECIFICATION FairSpec
CONSTANTS
  r1 = r1
  r2 = r2
  r3 = r3
  k1 = k1
  k2 = k2
  None = None
  Requests = {r1, r2}
  KeyOf <- MixedKeys
  MaxConns = 2
  Limit = 1
  MaxMsgs = 1
  MaxPrefix = 1
  MaxStrays = 0
  Kinds = {"ancillary", "terminal", "error", "invalid", "binary"}
  Disturbances = {"shutdown"}
PROPERTIES AllFinish
CHECK_DEADLOCK FALSE
