CONSTANTS
  Addresses = {}
  Everyone = Everyone
  MaxSockets = 3
  MaxConnects = 1
  MaxDisconnects = 1
  MaxFailures = 1
  MaxAccountCalls = 1
  RemoteCloses = FALSE
  Refuses = TRUE
SPECIFICATION FairSpec
PROPERTIES
  Reestablished
CHECK_DEADLOCK FALSE
