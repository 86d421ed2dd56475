SPECIFICATION FairSpec
CONSTANTS
  AcceptsBareConditions = TRUE
  None = None
  Specs <- NoSelectors
  Created <- NoSelectors
  Storages = {"pending"}
  Losable = {}
  MaxGen = 1
  MaxFaults = 0
PROPERTIES UnitConverges
CHECK_DEADLOCK FALSE
