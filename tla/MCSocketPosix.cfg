SPECIFICATION Spec
CONSTANTS
  Sockets = {s1}
  MaxArms = 3
  MaxReadPolls = 12
  MaxConnectPolls = 3
  PoolThreads = 1
  MayCancel = FALSE
  MayInterrupt = FALSE
  ZeroTimeoutWorks = FALSE
INVARIANTS
  TypeOK
  PendingOpsArePolled
  OnlyTheArmedReadIsPolled
PROPERTIES
  ConnectPromise
  ReadPromise
CHECK_DEADLOCK FALSE
