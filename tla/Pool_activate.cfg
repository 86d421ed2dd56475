SPECIFICATION FairSpec
CONSTANTS
  i1 = i1
  i2 = i2
  Invocations = {i1, i2}
  Names = {1, 2, 3}
  Managed = {2, 3}
  WorkerName <- OneEach
  WarmName = 3
  MinAvailable = 0
  IdleTimeout = 1
  MaxPending = 1
  MaxDeliver = 3
  MaxTime = 1
  MaxMetrics = 0
  LifecycleLoop = FALSE
  MaxDisturbed = 2
INVARIANTS ActivationPendingBounded NoDeliveryWasted
PROPERTY NoInvocationBlocks
CHECK_DEADLOCK FALSE
