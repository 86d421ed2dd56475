SPECIFICATION FairSpec
CONSTANTS
 s1 = s1
 s2 = s2
 Storages = {s1, s2}
 PreparesOf <- CopyOfEmpty
 MaxUid = 1
 MaxEdits <- NoEdits
 MaxFaults = 2
 AcceptsBareConditions = TRUE
 Deletable = {}
 PromptReconcile = TRUE
INVARIANT PreparedBeforeUse
PROPERTY Converges
CHECK_DEADLOCK FALSE
