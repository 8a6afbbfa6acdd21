\* Chunks that do not split a byte or word that pixels share.
CONSTANTS
  Bits = 4
  t1 = t1
  t2 = t2
  Threads = {t1, t2}
  Jobs <- EveryMethod
  Cubes <- Ramps
  Schedules <- WholeCells
SPECIFICATION FairSpec
INVARIANTS
  TypeOK
  ReorderInv
  ReorderLossless
  LayoutDeterministic
  NoDataRace
  UpdatesCarried
PROPERTY
  CallsReturn
