CONSTANTS
  Addresses = {a1}
  Everyone = Everyone
  MaxSockets = 3
  MaxConnects = 2
  MaxDisconnects = 0
  MaxFailures = 1
  MaxAccountCalls = 0
  RemoteCloses = TRUE
  Refuses = FALSE
SPECIFICATION Spec
INVARIANTS
  TypeOK
  OneConnection
  AnswerMatchesCall
  OpenMeansSubscribed
CHECK_DEADLOCK FALSE
