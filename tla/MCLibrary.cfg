CONSTANTS
  Worker = {w1, w2, w3}
  Producer = {p}
  Nobody = nobody
  MaxItems = 3
  ThreadCount = 2
  Skip = 1
  MaxLocks = 3
  MaxObjects = 1
  Owner = {o1, o2}
  N = 2
  MaxValues = 4
  TimerKey = {k1, k2}
  MaxTime = 1
  Delays = {0, 1}
  MaxCalls = 3
  Arity = 2
  Chain = {c1, c2}
  Limit = 2
  MaxTasks = 3
  MaxResets = 2
  MaxAdded = 2
  MaxAsked = 3
SPECIFICATION LibrarySpec
INVARIANTS
  SomeoneAwake
  NoUseAfterRetire
  EachValueOnce
  ChainsRight
  KeysAreWatched
  PromisesKept
PROPERTIES
  WorkIsTaken
  RetireSyncEnds
  KeysExpire
CHECK_DEADLOCK FALSE
