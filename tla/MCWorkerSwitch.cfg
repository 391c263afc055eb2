SPECIFICATION SwSpec
CONSTANTS
  a = a
  b = b
  NoUrl = NoUrl
  Urls <- TwoUrls
  MaxLoads = 1
  MaxSaves = 1
  MaxDrops = 0
  MaxEvictions = 0
  MaxUpdates = 0
INVARIANT
  CardsFromBase
CHECK_DEADLOCK FALSE
