\* The server hangs up on an idle viewer.
SPECIFICATION FairSpec
CONSTANTS
  AllocFails = FALSE
  ServerStops = TRUE
  ZeroBuffers = FALSE
  ShortFiles = FALSE
  WindowMoves = FALSE
  MaxBuffers = 1
  MaxInbox = 2
  MaxConnects = 2
CHECK_DEADLOCK FALSE
PROPERTY HangupSeen
