SPECIFICATION ChainSpec
CONSTANTS
  r1 = r1
  r2 = r2
  Ids <- TwoIds
  NoId = NoId
  NoConn = NoConn
  MaxConns = 2
  MaxQueue = 0
  MaxCrashes = 0
  MaxRestarts = 0
  Overlap = FALSE
SYMMETRY MCSymmetry
CONSTRAINT OneDecision
INVARIANTS
  VerdictIntegrity
  NeverStranded
CHECK_DEADLOCK FALSE
