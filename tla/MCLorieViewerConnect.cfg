\* The server hangs up during lorie_client_connect.
SPECIFICATION Spec
CONSTANTS
  AllocFails = FALSE
  ServerStops = TRUE
  ZeroBuffers = FALSE
  ShortFiles = FALSE
  WindowMoves = FALSE
  MaxBuffers = 1
  MaxInbox = 2
  MaxConnects = 2
CHECK_DEADLOCK FALSE
INVARIANT ConnectSurvives
