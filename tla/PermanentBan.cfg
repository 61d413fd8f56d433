SPECIFICATION Spec
CONSTANTS
  Mods = {m1}
  Kinds = {"ban"}
  Durations = {0, 1}
  EscalateAt = 3
  EscalateFor = 1
  MaxCommands = 3
  MaxCases = 2
  MaxTime = 2
  MaxCrashes = 0
PROPERTY PermanentBansStay
CHECK_DEADLOCK FALSE
