\* One viewer while an X client draws.
SPECIFICATION XSpec
CONSTANTS
  Conns = {c1, c2}
  Sizes <- MCSizes
  Boxes <- MCBoxes
  Cells = {p}
  StartSize <- MCStart
  NULL = NULL
  Listen = Listen
  AllocFails = FALSE
  MaxViewers = 1
  MaxRequests = 1
  MaxResizes = 9
  MaxMode = 16
  MaxXrandr = 2
  MaxEvents = 2
  MaxServers = 1
CHECK_DEADLOCK FALSE
PROPERTY DamageIsAnnounced
