\* One viewer at a time, every allocation may fail.
SPECIFICATION Spec
CONSTANTS
  Conns = {c1, c2}
  Sizes <- MCOneSize
  Boxes <- MCBoxes
  NULL = NULL
  Listen = Listen
  AllocFails = TRUE
  MaxViewers = 1
  MaxRequests = 1
  MaxResizes = 2
  MaxEvents = 2
  MaxServers = 1
SYMMETRY MCSymmetry
CHECK_DEADLOCK FALSE
INVARIANT TypeOK
INVARIANT NewestBufferIsSurface
INVARIANT ViewerIsHeard
PROPERTY BoundViewerIsSafe
