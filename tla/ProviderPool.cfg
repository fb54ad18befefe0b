SPECIFICATION Spec
CONSTANTS
  r1 = r1
  r2 = r2
  r3 = r3
  k1 = k1
  k2 = k2
  None = None
  Requests = {r1, r2}
  KeyOf <- SameKey
  MaxConns = 2
  Limit = 1
  MaxMsgs = 1
  MaxPrefix = 1
  MaxStrays = 1
  Kinds = {"event", "terminal"}
  Disturbances = {"cancel", "idle", "age"}
INVARIANTS OwnResponseInOrder ExclusiveLease
PROPERTIES OnlyHolderDiscards CaptureSealed
SYMMETRY Symmetry
CHECK_DEADLOCK FALSE
