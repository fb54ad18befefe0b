SPECIFICATION Spec
CONSTANTS
  p1 = p1
  p2 = p2
  t1 = t1
  t2 = t2
  c1 = c1
  c2 = c2
  c3 = c3
  n1 = n1
  k1 = k1
  k2 = k2
  None = None
  Processes = {p1, p2}
  Threads = {t1, t2}
  Calls = {c1, c2}
  Notes = {n1}
  Correlations = {k1}
  CorrelationOf <- MCCorrelationOf
  AttemptOf <- MCAttemptOf
  Outcomes = {"prepared", "applied"}
  Statuses = {"completed"}
  MaxRecords = 2
  MaxOperations = 4
  MaxFaults = 1
  MaxCrashes = 1
INVARIANTS DiskIsSound PromisesKept
PROPERTIES ChangesOnlyGrow
SYMMETRY Symmetry
CHECK_DEADLOCK FALSE
