SPECIFICATION Spec
CONSTANTS
  go = go
  py = py
  txt = txt
  Names <- MCNames
  GoPaths <- MCGo
  PlainPaths <- MCPlain
  Contents <- MCContents
  Absent = Absent
  Endings <- MCEndings
  Bare <- MCBare
  EndsOf <- MCEndsOf
  MaxCommands = 4
  MaxHooks = 2
INVARIANTS PendingAgrees ChangesMeanScript CallerIsTold
CHECK_DEADLOCK FALSE
