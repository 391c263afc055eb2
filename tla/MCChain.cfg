SPECIFICATION FairChainSpec
CONSTANTS
  r1 = r1
  r2 = r2
  Ids <- OneId
  NoId = NoId
  NoConn = NoConn
  MaxConns = 3
  MaxQueue = 0
  MaxCrashes = 1
  MaxRestarts = 1
  Overlap = FALSE
PROPERTIES
  ImplementsApproval
  WaitEnds
CHECK_DEADLOCK FALSE
