CONSTANTS
  main = main
  s1 = s1
  a = a
  b = b
  Sched = {main, s1}
  Main = main
  NoSched = NoSched
  Slot = {a, b}
  Home <- HomeOf
  InitialActors = {a}
  MaxMoves = 1
  MaxBirths = 1
SPECIFICATION Spec
INVARIANTS
  AloneInClear
  DestroyedInOrder
PROPERTY FinishCompletes
CHECK_DEADLOCK FALSE
