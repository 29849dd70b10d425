CONSTANTS
  Jobs = {j1, j2}
  NoJob = NoJob
  Ops = {"signTxBatch"}
  BatchSize = 2
  Refusals = FALSE
  MaxForeign = 0
SPECIFICATION FairSpec
PROPERTIES
  BatchCallEnds
CHECK_DEADLOCK FALSE
