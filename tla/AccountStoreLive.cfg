SPECIFICATION FairSpec
CONSTANTS
  Users = {u1, u2}
  Sessions = {s1, s2}
  NoSession = NoSession
  NoOp = NoOp
  Kinds = {"wallet", "transfer", "prestige"}
  Amounts = {1}
  Limits = {1}
  DefaultLimit = 1
  MaxBalance = 1
  MaxPrestige = 1
  Faults = FALSE
INVARIANT TruthfulResult
PROPERTY EveryCallReturns
