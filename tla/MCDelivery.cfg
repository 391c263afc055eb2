SPECIFICATION DeliverySpec
CONSTANTS
  CallerIds = {c1}
  Polls = {p1, p2}
  Streams = {s1}
  MaxSeq = 3
  MaxDrops = 1
  MaxPings = 1
  Clients = {c1, c2}
  Requested <- SomePaths
  MaxSignals = 2
  Targets = {"darwin-arm64", "linux-x64", "win32-x64"}
  Hosts = {"darwin-arm64", "darwin-x64", "linux-x64", "win32-x64"}
  MaxDepth = 3
  MaxPush = 1
  MaxFlips = 2
  MaxReruns = 0
  Groups = {"pr"}
  Diffs <- FewDiffs
  Workflows <- AllWorkflows
  Matrices <- SmallMatrices
INVARIANTS
  StreamIsLogPrefix NoUnaskedGzip InstallServes
  GateIsFair
  RefusedForCause OutcomeFollowsNeeds CombinationsKept
PROPERTIES
  DecisionReachesPoll MacCoversMerge ContextReported ResolutionEnds
CHECK_DEADLOCK FALSE
