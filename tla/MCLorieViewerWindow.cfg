\* The host moves to another window once.
SPECIFICATION Spec
CONSTANTS
  AllocFails = FALSE
  ServerStops = FALSE
  ZeroBuffers = FALSE
  ShortFiles = FALSE
  WindowMoves = TRUE
  MaxBuffers = 1
  MaxInbox = 2
  MaxConnects = 2
CHECK_DEADLOCK FALSE
INVARIANT SurfaceIsMapped
