\* Every buffer is usable, windows change, the server may hang up.
SPECIFICATION FairSpec
CONSTANTS
  AllocFails = FALSE
  ServerStops = TRUE
  ZeroBuffers = FALSE
  ShortFiles = TRUE
  WindowMoves = TRUE
  MaxBuffers = 4
  MaxInbox = 3
  MaxConnects = 3
CHECK_DEADLOCK FALSE
INVARIANT TypeOK
INVARIANT HoldsOneBuffer
PROPERTY EveryBufferIsDrawn
PROPERTY HangupSeenOnSend
PROPERTY ServedViewerLives
