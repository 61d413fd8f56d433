SPECIFICATION Spec
CONSTANTS
  h1 = h1
  h2 = h2
  Handlers = {h1, h2}
  Nobody = Nobody
  Mutexes <- MCMutexes
  Agendas <- MCAgendas
  Starts <- MCStarts
  Single <- MCSingle
  Worth <- MCWorth
  Undone <- MCUndone
INVARIANTS TypeOK Serializable    
PROPERTY EveryErrandEnds
CHECK_DEADLOCK FALSE
