\* Frame differencing in parallel, pixel differencing on one thread.
CONSTANTS
  Frames = 3
  Depth = 2
  Npix = 3
  Word = 4
  Methods = {"previous", "first", "pixel"}
  t1 = t1
  t2 = t2
  Threads = {t1, t2}
  Schedules <- FrameParallel
  Cubes <- SampleCubes
SPECIFICATION FairSpec
INVARIANTS
  TypeOK
  Lossless
  DifferenceDeterministic
  NoDataRace
  ReferenceStable
  IInv
PROPERTIES
  ImplementsInPlace
  CallsReturn
