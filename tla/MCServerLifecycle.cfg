CONSTANTS
  Clients = {c1, c2, c3}
  PoolSize = 2
  MaxStatements = 3
  NULL = NULL
SPECIFICATION FairSpec
INVARIANTS
  TypeOK
  GraceProtectsRequests
  OrderlyExitAbortsNothing
PROPERTIES
  SignalEnds
  WaitersGoOn
CHECK_DEADLOCK FALSE
