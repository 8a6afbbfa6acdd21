\* Ownership of the buffers over the whole life of a handle.
CONSTANTS
  U32 = 256
  LZ4Max = 126
  a1 = a1
  a2 = a2
  a3 = a3
  Addr = {a1, a2, a3}
  NULL = NULL
  Sizes <- OneAndRejected
  Headers <- SmallHeaders
  Configs <- FewConfigs
  CallerSizes = {12}
SPECIFICATION Spec
SYMMETRY AddrSymmetry
INVARIANTS
  TypeOK
  BuffersLive
  NoLeak
  SizeWithinBlock
  HandleInv
