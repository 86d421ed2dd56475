SPECIFICATION Spec
CONSTANTS
 s1 = s1
 s2 = s2
 Storages = {s1}
 PreparesOf <- FromImage
 MaxUid = 1
 MaxEdits <- EditFirst
 MaxFaults = 1
 AcceptsBareConditions = TRUE
 Deletable = {s1}
 PromptReconcile = FALSE
INVARIANTS TypeOK PreparedBeforeUse
PROPERTY RecordedSuccessIsFinal
CHECK_DEADLOCK FALSE
