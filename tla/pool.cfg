\* The threads of the server from start to shutdown.
SPECIFICATION FairSpec
CONSTANTS
  k1 = k1  k2 = k2  k3 = k3
  Conns = {k1, k2, k3}
  PoolSize = 2
  MaxJobs = 2
  MaxLog = 1
INVARIANTS TypeOK NoUseAfterDestroy OnePlaceEach
PROPERTIES ShutdownEnds LinesWritten
\* The process ends.
CHECK_DEADLOCK FALSE
