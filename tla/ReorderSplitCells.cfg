\* Any chunks: omp_parallel = 1 and an odd border.
CONSTANTS
  Bits = 4
  t1 = t1
  t2 = t2
  Threads = {t1, t2}
  Jobs <- RenibbleOnly
  Cubes <- FewRamps
  Schedules <- AnyChunks
SPECIFICATION FairSpec
INVARIANT
  ReorderLossless
