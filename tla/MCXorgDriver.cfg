\* A viewer in one of two server generations, every call may fail, X clients that
\* resize the screen and set modes.
SPECIFICATION XSpec
CONSTANTS
  Conns = {c1}
  Sizes <- MCSizesAndModes
  Boxes <- MCBoxes
  Cells = {p}
  StartSize <- MCStart
  NULL = NULL
  Listen = Listen
  AllocFails = TRUE
  MaxViewers = 1
  MaxRequests = 2
  MaxResizes = 9
  MaxMode = 16
  MaxXrandr = 2
  MaxEvents = 0
  MaxServers = 2
CHECK_DEADLOCK FALSE
INVARIANT XTypeOK
INVARIANT PixmapIsSurface
INVARIANT ConfiguredSizeIsShown
INVARIANT NewestBufferIsSurface
INVARIANT MappingsAreBounded
PROPERTY UsesLibraryCorrectly
