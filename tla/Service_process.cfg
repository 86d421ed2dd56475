SPECIFICATION FairSpec
CONSTANTS
  r1 = r1
  r2 = r2
  r3 = r3
  api1 = api1
  api2 = api2
  None = None
  Requests = {r1, r2, r3}
  Processes = {api1, api2}
  ProcessOf <- OneReplica
  Units = {u1, u2}
  Storages = {s1}
  Operations = {o1, o2}
INVARIANTS TypeOK ExclusiveMount OneUnitPerOperation DeletionSeesOlderMounts
PROPERTIES RequestsReturn
CHECK_DEADLOCK FALSE
