SPECIFICATION Spec
CONSTANTS
  Sockets = {s1}
  MaxArms = 1
  MaxReadPolls = 12
  MaxConnectPolls = 5
  PoolThreads = 1
  MayCancel = FALSE
  MayInterrupt = FALSE
  ZeroTimeoutWorks = FALSE
INVARIANTS
  EstablishedConnectSucceeds
CHECK_DEADLOCK FALSE
