CONSTANTS
  NoNode = NoNode
  Node = {n1, n2, n3, n4}
  ThreadsN = 3
  BlockSize = 1
  Workloads <- OneOrTwoProducers
SPECIFICATION Spec
SYMMETRY Addresses
INVARIANT NoUseAfterDelete
CHECK_DEADLOCK FALSE
