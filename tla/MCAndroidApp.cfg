\* Surfaces come and go at any pace, every call may fail.
SPECIFICATION AFairSpec
CONSTANTS
  AllocFails = TRUE
  ServerStops = TRUE
  ZeroBuffers = TRUE
  ShortFiles = TRUE
  WindowMoves = TRUE
  MaxBuffers = 2
  MaxInbox = 2
  MaxConnects = 2
  MaxSurfaces = 3
CHECK_DEADLOCK FALSE
INVARIANT ATypeOK
INVARIANT DeadWindowIsDropped
INVARIANT WindowIsSurface
INVARIANT MappedIffOpen
PROPERTY SurfaceIsShown
PROPERTY ReceivesBuffers
