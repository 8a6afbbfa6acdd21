SPECIFICATION Spec
CONSTANTS
  U32 = 256
  LZ4Max = 126
  Writers = {h1}
  Readers = {h1}
  Cubes = {c1}
  None = None
  Setups <- FallbackSetups
  Loans <- NoLoans
  ChecksRoom = TRUE
  Retries = TRUE
  MaxLayers = 2
INVARIANT RoundTrip
