CONSTANTS
  Callers = {c1, c2, c3, c4}
  NoCaller = NoCaller
SPECIFICATION FairSpec
INVARIANTS
  MutualExclusion
PROPERTIES
  NoStarvation
  FairQueueSpec
