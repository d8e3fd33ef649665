CONSTANTS
  MapThread = {t1, t2, t3}
  MapKey = {9, 17}
  ChunkSize = 1
  MaxOps = 3
  Fillers <- Colliding
  MinProbes = 2
  MaxTable = 2
SPECIFICATION FilledSpec
SYMMETRY Threads
INVARIANT NoMarkReturned
CHECK_DEADLOCK FALSE
