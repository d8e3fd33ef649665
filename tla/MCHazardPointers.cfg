CONSTANTS
  NoNode = NoNode
  Node = {n1, n2, n3, n4}
  ThreadsN = 3
  BlockSize = 1
  Workloads <- OneOrTwoProducers
  MapThread = {t1, t2}
  MapKey = {9, 10, 17, 25}
  ChunkSize = 1
  MaxOps = 4
  Fillers <- Colliding
  MinProbes = 2
  MaxTable = 8
SPECIFICATION HazardSpec
SYMMETRY Addresses
INVARIANTS
  FirstInFirstOut
  ConsumersProtected
  MapAgrees
PROPERTY EmptyIsTrue
CHECK_DEADLOCK FALSE
