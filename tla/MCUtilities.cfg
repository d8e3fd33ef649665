CONSTANTS
  Writer = {w1, w2}
  MaxPuts = 3
  PoolThread = {p1, p2, p3}
  Creator = p1
  MaxStorages = 2
  MaxCreated = 3
  Holder = {h1, h2, h3}
  Allocator = h1
  MaxRaws = 3
  MaxPtrs = 3
  MaxAllocs = 4
  Copier = {c1, c2}
  Word = {a, b}
  MaxWrites = 3
  Pipelines <- SomePipelines
  MaxFlowBytes = 3
  MaxOutput = 3
  FirstSeqNo = 1
  MaxEvents = 8
  LimitSets <- SomeLimits
  MaxFloodTime = 6
  MaxFloodEvents = 6
  Starter = {s1, s2, s3}
  MaxActive = 1
  HeapNode = {1, 2, 3, 4, 5, 6}
  HeapKey = {1, 2}
  Capacity = 2
  MaxNodes = 3
  MaxBytes = 4
  TableKeys = 6
  Hashes <- TwoHashes
  Arity = 2
SPECIFICATION UtilitiesSpec
INVARIANTS
  NoLostWakeup
  SingleWakeup
  StorageInOnePlace
  AliveReadsAreValid
  PoolCountsRight
  CopyIsWhole
  FlowsAreRight
  HandledInOrder
  FloodControlled
  HeapIsRight
  StreamIsWhole
  TableAgrees
PROPERTY ImplementsInbox
CHECK_DEADLOCK FALSE
