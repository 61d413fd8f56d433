SPECIFICATION FairSpec
CONSTANTS
  Threads = {t1, t2, t3}
  Conns = {c1, c2, c3, c4}
  NoConn = NoConn
  MaxConnections = 2
  Eager = 2
  MaxLost = 1
INVARIANTS TypeOK Accounting Exclusive PoolBounded
PROPERTY AcquireEnds
