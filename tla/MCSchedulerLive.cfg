CONSTANTS
  s0 = s0
  s1 = s1
  a = a
  b = b
  c = c
  NoSched = NoSched
  Sched = {s0, s1}
  Info = {a, b}
  Home <- HomeOfTwo
  InitialActors = {a, b}
  Destinations = {s0, s1}
  MaxGen = 1
  MaxSends = 2
  MaxMoves = 1
SPECIFICATION Spec
INVARIANTS
  InOrder
PROPERTY AllDelivered
CHECK_DEADLOCK FALSE
