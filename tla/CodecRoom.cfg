SPECIFICATION Spec
CONSTANTS
  U32 = 256
  LZ4Max = 126
  Writers = {h1}
  Readers = {h1}
  Cubes = {c1}
  None = None
  Setups <- OneSetup
  Loans <- ShortBuffer
  ChecksRoom = FALSE
  Retries = FALSE
  MaxLayers = 1
INVARIANT StagesStayInside
