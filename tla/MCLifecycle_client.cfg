\* The classes that make chain clients, with the constructors that the
\* README intends for them.
SPECIFICATION FairSpec
CONSTANTS
  Attempts = {a1}
  Chains = {eth}
  Kinds = {"client"}
  MaxVersion = 1
  MaxSockets = 2
  MaxFailures = 0
  MaxDisconnects = 0
PROPERTY InitializeResolves
CHECK_DEADLOCK FALSE
