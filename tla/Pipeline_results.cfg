SPECIFICATION Spec
CONSTANTS
  w1 = w1
  s1 = s1
  s2 = s2
  None = None
  Activator = Activator
  Invocations = {i1}
  SyncRequests = {i1}
  Workers = {w1}
  ResultStores = {s1, s2}
  MaxDeliverI = 1
  MaxDeliverD = 2
  MaxDeliverR = 2
  MaxCopiesR = 2
  MayExpire = TRUE
  Outcomes = {"succeeded"}
VIEW MCView
SYMMETRY MCSymmetry
INVARIANTS RepliedAfterPersist
PROPERTIES StoredResultStable
