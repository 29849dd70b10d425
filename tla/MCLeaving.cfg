CONSTANTS
  Leavers = {l1, l2}
  Chains = {eth, dot}
  FreeEpochs = 2
  MaxEpochs = 9
  MaxInTransit = 2
SPECIFICATION FairSpec
INVARIANTS
  TypeOK
  NotTooEarly
  OwnProof
PROPERTIES
  LeaveEnds
CHECK_DEADLOCK FALSE
