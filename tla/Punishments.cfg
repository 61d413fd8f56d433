SPECIFICATION Spec
CONSTANTS
  Mods = {m1, m2}
  Kinds = {"ban","warn"}
  Durations = {0, 1, 2}
  EscalateAt = 2
  EscalateFor = 1
  MaxCommands = 3
  MaxCases = 2
  MaxTime = 2
  MaxCrashes = 1
INVARIANT TimersCoverRows
PROPERTY NoEarlyPardon
SYMMETRY MCSymmetry
CHECK_DEADLOCK FALSE
