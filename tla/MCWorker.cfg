SPECIFICATION SwSpec
CONSTANTS
  a = a
  b = b
  NoUrl = NoUrl
  Urls <- TwoUrls
  MaxLoads = 3
  MaxSaves = 1
  MaxDrops = 2
  MaxEvictions = 1
  MaxUpdates = 1
INVARIANTS
  OneLiveSocket
  KeepsTrying
  StatusSettles
PROPERTY
  SessionSurvives
CHECK_DEADLOCK FALSE
