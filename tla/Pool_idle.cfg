SPECIFICATION Spec
CONSTANTS
  i1 = i1
  i2 = i2
  Invocations = {i1}
  Names = {1, 2}
  Managed = {1}
  WorkerName <- BeforeTemplate
  WarmName = 1
  MinAvailable = 1
  IdleTimeout = 1
  MaxPending = 1
  MaxDeliver = 2
  MaxTime = 2
  MaxMetrics = 1
  LifecycleLoop = TRUE
  MaxDisturbed = 0
INVARIANTS TypeOK NoDispatchToDeleted
PROPERTY DeletionKeepsMinimum
CHECK_DEADLOCK FALSE
