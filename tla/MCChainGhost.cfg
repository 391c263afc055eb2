SPECIFICATION ChainSpec
CONSTANTS
  r1 = r1
  r2 = r2
  Ids <- OneId
  NoId = NoId
  NoConn = NoConn
  MaxConns = 2
  MaxQueue = 0
  MaxCrashes = 0
  MaxRestarts = 0
  Overlap = FALSE
INVARIANTS
  NoGhost
CHECK_DEADLOCK FALSE
