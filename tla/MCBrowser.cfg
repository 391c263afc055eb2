SPECIFICATION BrowserSpec
CONSTANTS
  Ids = {r1, r2}
  Tools = {r2}
  None = None
  Payloads <- AllPayloads
  Missing = Missing
  INBOX_FLAGGED_LINES = 2
  INBOX_SCRIPT_LINES = 2
  INBOX_TOOL_LINES = 3
  NOTIFICATION_FRAGMENT_LIMIT = 1
  Tags = {r1, r2}
  MaxAnnounces = 3
  MaxDrops = 1
  MaxLooks = 2
  Names = {a, b}
  BadNames = {bad}
  Default = Null
  Blank = Blank
  Null = Null
  MaxOpens = 3
  Pages = {"/", "/x"}
  Assets = {"/manifest"}
  Precached = {"/", "/offline", "/manifest"}
  MaxDeploys = 2
INVARIANTS
  CursorSettles FreshDetail
  ScreenSettles ChoiceSurvives PaintedAsChosen
  SuspectIsFlagged ConsumedOnceInOrder PreviewsAgree TokensAreRuns
  AlwaysAnswered
PROPERTIES
  LayersPause ClickNotDropped
  AssetsCatchUp HealsOnline
CHECK_DEADLOCK FALSE
