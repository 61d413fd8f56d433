SPECIFICATION FairSpec
CONSTANTS
  Global = Global
  Coins = Coins
  XpFor <- MCXpFor
  Users = {u1}
  Guilds = {g1}
  Handlers = {h1, h2}
  Awards = {1, 3}
  CoinsPerMessage = 1
  RoleLevel = 2
  MaxPerFlush = 2
  Registered = {u1}
  MayFail = FALSE
  MaxMessages = 2
  MaxResets = 0
INVARIANTS TypeOK XpConserved   StopDrains
PROPERTIES AnnouncedOnce StopReturns PendingIsFlushed
CHECK_DEADLOCK FALSE
