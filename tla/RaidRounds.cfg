SPECIFICATION Spec
CONSTANTS
  h1 = h1
  h2 = h2
  Handlers = {h1, h2}
  Nobody = Nobody
  Mutexes <- MCMutexes
  Agendas <- MCRaidAgendas
  Starts <- MCStarts
  Single <- MCSingle
  Worth <- MCWorth
  Undone <- MCUndone
PROPERTY RaidRoundsEnd
CHECK_DEADLOCK FALSE
