SPECIFICATION FairSpec
CONSTANTS
  AcceptsBareConditions = TRUE
  None = None
  Specs <- Edited
  Created <- Simple
  Storages = {"ready"}
  Losable = {"service"}
  MaxGen = 2
  MaxFaults = 1
INVARIANTS TypeOK PodsAreIsolated
PROPERTIES StatusIsApplied UnitConverges
CHECK_DEADLOCK FALSE
