SPECIFICATION FairSpec
CONSTANTS
  c1 = c1
  c2 = c2
  m1 = m1
  NoMsg = NoMsg
  Ids = {m1}
  MaxCopies = 2
  Malformed <- MCMalformed
  Consumers = {c1, c2}
  MaxDeliver = 3
INVARIANTS TypeOK NoSilentDrop
PROPERTIES DeadLetterIsFinal ImplementsAtLeastOnce EveryMessageSettled
CHECK_DEADLOCK FALSE
