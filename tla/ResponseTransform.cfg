SPECIFICATION TransformSpec
CONSTANTS
  h1 = h1
  c1 = c1
  c2 = c2
  i1 = i1
  i2 = i2
  Null = Null
  Calls = {h1, c1, c2}
  ToolOf <- CallTools
  Inputs = {i1, i2}
  FormOf <- Programs
  MaxPending = 1
  MaxAnswers = 2
  MaxHeld = 1
  MaxReplay = 2
  MaxTurns = 2
  MaxEvents = 3
  Streamed <- BothModes
  Courses = {"report", "yielded", "waiting", "orphan"}
  Installed = {"shell", "hpatch"}
  MaxTop = 2
  MaxExtra = 1
INVARIANTS CarriersAreRecorded ProviderHearsTheTruth AnswerStaysLast RecoveryFollowsRejection CatalogIsReplaced
CHECK_DEADLOCK FALSE
