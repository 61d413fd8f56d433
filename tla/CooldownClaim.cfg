SPECIFICATION Spec
CONSTANTS
  Sessions = {s1, s2}
  NoSession = NoSession
  Keys = {k1, k2}
  NoKey = NoKey
  Near <- MCNear
  Seconds = 2
  Ahead = 1
  MaxTime = 3
INVARIANT NobodyStuck
PROPERTY ImplementsClaims
SYMMETRY MCSymmetry
