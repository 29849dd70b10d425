CONSTANTS
  Jobs = {j1, j2, j3}
  NoJob = NoJob
  Ops = {"signTx", "signAndSend", "signBatch", "signTxBatch", "reset"}
  BatchSize = 2
  Refusals = TRUE
  MaxForeign = 1
SPECIFICATION FairSpec
INVARIANTS
  TypeOK
  SessionExclusive
  DistinctNonces
  NoSkippedNonce
  DeliveredMeansCurrent
PROPERTIES
  AtomicSigningSpec
  JobsEnd
CHECK_DEADLOCK FALSE
