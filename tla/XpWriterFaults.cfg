SPECIFICATION Spec
CONSTANTS
  Global = Global
  Coins = Coins
  XpFor <- MCXpFor
  Users = {u1}
  Guilds = {g1}
  Handlers = {h1}
  Awards = {2}
  CoinsPerMessage = 1
  RoleLevel = 2
  MaxPerFlush = 5
  Registered = {}
  MayFail = TRUE
  MaxMessages = 2
  MaxResets = 1
INVARIANTS NeverTwice
CHECK_DEADLOCK FALSE
