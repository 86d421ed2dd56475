SPECIFICATION FairSpec
CONSTANTS
  w1 = w1
  s1 = s1
  s2 = s2
  None = None
  Activator = Activator
  Invocations = {i1}
  SyncRequests = {}
  Workers = {w1}
  ResultStores = {s1}
  MaxDeliverI = 2
  MaxDeliverD = 2
  MaxDeliverR = 1
  MaxCopiesR = 1
  MayExpire = FALSE
  Outcomes = {"succeeded"}
INVARIANTS TypeOK NoInvocationLost RetriesBounded
PROPERTIES EveryInvocationEnds
