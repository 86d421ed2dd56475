SPECIFICATION Spec
CONSTANTS
  r1 = r1
  r2 = r2
  r3 = r3
  api1 = api1
  api2 = api2
  None = None
  Requests = {r1, r2}
  Processes = {api1, api2}
  ProcessOf <- TwoReplicas
  Units = {u1, u2}
  Storages = {s1}
  Operations = {o1, o2}
INVARIANTS ExclusiveMount
CHECK_DEADLOCK FALSE
