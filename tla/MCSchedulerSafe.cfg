CONSTANTS
  s0 = s0
  s1 = s1
  a = a
  b = b
  c = c
  NoSched = NoSched
  Sched = {s0, s1}
  Info = {a, b, c}
  Home <- HomeOf
  InitialActors = {a, b}
  Destinations = {s0, s1}
  MaxGen = 2
  MaxSends = 1
  MaxMoves = 1
SPECIFICATION MigrateOrReuse
INVARIANTS
  TypeOK
  ChecksHold
  OwnersAndLists
  EventsConserved
  OwnEvents
PROPERTY TearDownLast
CHECK_DEADLOCK FALSE
