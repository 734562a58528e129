\* 6-bit ints and size_t: 3 is to them what 32767 is to 32 bits.
SPECIFICATION Spec
CONSTANTS
  IntMax = 31
  SizeMax = 63
  MaxDim = 3
  MaxTexture = 3
  Dims <- MCDims
  Numbers = {0, 1, 2}
  Surfaceless = FALSE
  Fails = TRUE
  MaxFiles = 2
  MaxWire = 2
CHECK_DEADLOCK FALSE
INVARIANT TypeOK
INVARIANT PixelsFit
INVARIANT SurfaceHasItsNumber
INVARIANT HoldsItsObjects
INVARIANT CanDraw
INVARIANT TextureFits
PROPERTY OthersKeepTheirs
PROPERTY ReceivesBuffers
