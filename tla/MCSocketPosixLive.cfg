SPECIFICATION FairSpec
CONSTANTS
  Sockets = {s1}
  MaxArms = 3
  MaxReadPolls = 2
  MaxConnectPolls = 1
  PoolThreads = 1
  MayCancel = TRUE
  MayInterrupt = TRUE
  ZeroTimeoutWorks = FALSE
INVARIANTS
  WatchersMatchCallbacks
PROPERTIES
  PendingReadEnds
  PendingConnectEnds
CHECK_DEADLOCK FALSE
