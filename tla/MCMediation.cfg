SPECIFICATION FairMediationSpec
CONSTANTS
  r1 = r1
  r2 = r2
  p1 = p1
  p2 = p2
  Ids <- TwoIds
  Pwas <- OnePwa
  NoId = NoId
  NoConn = NoConn
  MaxConns = 3
  MaxQueue = 1
  MaxUp = 1
INVARIANTS
  OwnerRegistered
  InboxMirrors
PROPERTIES
  WebDecisionRouting
  DisconnectScope
  DeadCardsGo
