SPECIFICATION FairSpec
CONSTANTS
  Attempts = {a1, a2}
  Chains = {eth, dot}
  Kinds = {"app", "client", "session"}
  MaxVersion = 2
  MaxSockets = 3
  MaxFailures = 1
  MaxDisconnects = 1
INVARIANTS TypeOK ReadyMeansUsable SessionsSurvive
PROPERTY Settles
CHECK_DEADLOCK FALSE
