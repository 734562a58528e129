\* One viewer that may connect twice, every call succeeds.
SPECIFICATION SFairSpec
CONSTANTS
  Conns = {c1, c2}
  Sizes <- MCSizes
  Boxes <- MCBoxes
  Cells = {p}
  StartSize <- MCStart
  NULL = NULL
  Listen = Listen
  AllocFails = FALSE
  MaxViewers = 1
  MaxRequests = 2
  MaxResizes = 9
  MaxMode = 16
  MaxXrandr = 2
  MaxEvents = 1
  MaxServers = 2
CHECK_DEADLOCK FALSE
INVARIANT NotifyIsExact
INVARIANT CaughtUp
INVARIANT UpdateIsUnderWay
PROPERTY SharesScreen
PROPERTY BoundSessionIsSafe
