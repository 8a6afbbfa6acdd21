\* Room for an encode, whatever the configuration.
CONSTANTS
  U32 = 256
  LZ4Max = 126
  a1 = a1
  a2 = a2
  a3 = a3
  Addr = {a1, a2, a3}
  NULL = NULL
  Sizes <- MixedCubes
  Headers <- NoHeaders
  Configs <- EncodingConfigs
  CallerSizes = {}
SPECIFICATION Spec
SYMMETRY AddrSymmetry
PROPERTY
  RoomAfterAllocate
