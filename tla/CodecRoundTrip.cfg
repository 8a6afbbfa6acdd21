SPECIFICATION Spec
CONSTANTS
  U32 = 256
  LZ4Max = 126
  Writers = {h1}
  Readers = {h1}
  Cubes = {c1, c2}
  None = None
  Setups <- MixedSetups
  Loans <- LongBuffers
  ChecksRoom = TRUE
  Retries = FALSE
  MaxLayers = 1
INVARIANTS
  TypeOK
  CodecInv
  RoundTrip
  CubeNeverLost
  StreamKept
  StreamWithinBuffer
  NoStreamRejected
  StagesStayInside
PROPERTY ImplementsArchive
SYMMETRY CubeSymmetry
