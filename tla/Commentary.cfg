CONSTANTS
  r1 = r1
  r2 = r2
  r3 = r3
  Responses = {r1, r2}
  Directories = {d1, d2}
  Threads = {t1}
  Calls = {c1}
  MaxTokens = 3
  MaxPublications = 3
  MaxElapses = 1
  MaxRoutes = 2
  MaxEvents = 3
  MaxEventsPerRoute = 2
  MaxThreadIDs = 2
  None = None
SPECIFICATION Spec
SYMMETRY Symmetry
CHECK_DEADLOCK FALSE
INVARIANTS Accounting PublicationsReachOneResponse RoutesAreOwned
