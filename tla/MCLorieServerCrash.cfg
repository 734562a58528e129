\* The main loop of src/test/test-server.c while a viewer connects.
SPECIFICATION Spec
CONSTANTS
  Conns = {c1, c2}
  Sizes <- MCOneSize
  Boxes <- MCBoxes
  NULL = NULL
  Listen = Listen
  AllocFails = FALSE
  MaxViewers = 1
  MaxRequests = 1
  MaxResizes = 2
  MaxEvents = 2
  MaxServers = 1
SYMMETRY MCSymmetry
CHECK_DEADLOCK FALSE
INVARIANT NeverCrashes
