CONSTANTS
  Calls = {c1, c2, c3}
  NoCall = NoCall
  Payloads = {p}
  EnclaveRejects = TRUE
  QueryFails = TRUE
  MaxErrors = 1
  MaxUpdates = 1
SPECIFICATION FairSpec
INVARIANTS
  TypeOK
  DistinctNonces
  WaitersServed
  InOrder
  ReceiptOfOwnTx
  QuietMeansCurrent
PROPERTIES
  CallsEnd
  ReceiptsArrive
CHECK_DEADLOCK FALSE
