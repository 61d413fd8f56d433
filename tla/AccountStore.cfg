SPECIFICATION Spec
CONSTANTS
  Users = {u1, u2}
  Sessions = {s1, s2}
  NoSession = NoSession
  NoOp = NoOp
  Kinds = {"wallet", "limit", "deposit", "transfer", "prestige"}
  Amounts = {1}
  Limits = {0}
  DefaultLimit = 1
  MaxBalance = 2
  MaxPrestige = 1
  Faults = TRUE
INVARIANTS TypeOK Solvent NoLostUpdate
PROPERTY ImplementsLedger
SYMMETRY Symmetry
