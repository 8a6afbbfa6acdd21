\* A cube beyond the input limit of LZ4.
CONSTANTS
  U32 = 256
  LZ4Max = 126
  a1 = a1
  a2 = a2
  a3 = a3
  Addr = {a1, a2, a3}
  NULL = NULL
  Sizes <- SmallAndLarge
  Headers <- NoHeaders
  Configs <- FewConfigs
  CallerSizes = {}
SPECIFICATION Spec
SYMMETRY AddrSymmetry
INVARIANT
  BuffersLive
