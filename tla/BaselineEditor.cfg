SPECIFICATION EditorSpec
CONSTANTS
  a = a
  b = b
  nl = nl
  Newline = nl
  Characters <- MCCharacters
  Baselines <- MCBaselines
  Values <- MCValues
  Literals <- MCLiterals
  Counts <- MCCounts
  Hash <- MCHash
  Valid <- MCValid
  syntaxLocalizationGroupLimit = 3
  MaxCommands = 3
  MaxBytes = 7
INVARIANTS SpansDisjoint RenderIsSubstitution PositionsTruthful AliasesFollow BlameIsDecisive
CHECK_DEADLOCK FALSE
