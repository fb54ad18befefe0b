SPECIFICATION Spec
CONSTANTS
  None = None
  MaxCreates = 2
  MaxSteers = 2
  MaxOutputs = 2
  MaxInFlight = 3
INVARIANTS InputIsTakenOnce HistoryMatches
CHECK_DEADLOCK FALSE
