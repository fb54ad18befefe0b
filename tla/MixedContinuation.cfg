SPECIFICATION Spec
CONSTANTS
  c1 = c1
  c2 = c2
  None = None
  Readers = {c1, c2}
  Names = {"mixed", "script"}
  Handle = "mixed"
  Script <- EditThenCommand
  Replacements <- Programs
  MaxSteps = 2
  MaxRepairs = 1
  MaxOps = 2
  MaxLaunch = 3
  MaxGrants = 1
INVARIANTS EffectsAreAuthorised PatchIsFresh ResultsAreEarned StorageFollowsUse
SYMMETRY Symmetry
CHECK_DEADLOCK FALSE
