\* Every method in parallel: omp_parallel = 1.
CONSTANTS
  Frames = 3
  Depth = 2
  Npix = 3
  Word = 4
  Methods = {"pixel"}
  t1 = t1
  t2 = t2
  Threads = {t1, t2}
  Schedules <- AllParallel
  Cubes <- SampleCubes
SPECIFICATION FairSpec
INVARIANT
  Lossless
