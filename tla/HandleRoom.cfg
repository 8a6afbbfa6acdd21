\* Room for an encode, under changing sizes and methods; no lent buffers.
CONSTANTS
  U32 = 256
  LZ4Max = 126
  a1 = a1
  a2 = a2
  a3 = a3
  Addr = {a1, a2, a3}
  NULL = NULL
  Sizes <- MixedCubes
  Headers <- SmallHeaders
  Configs <- VariedConfigs
  CallerSizes = {}
SPECIFICATION Spec
SYMMETRY AddrSymmetry
INVARIANTS
  AllocateInv
  ReorderStaysInside
PROPERTIES
  AllocateGivesRoom
