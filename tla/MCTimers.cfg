CONSTANTS
  TimerKey = {k1, k2}
  MaxTime = 1
  Delays = {0, 1}
  MaxCalls = 3
  Arity = 2
SPECIFICATION TimersSpec
INVARIANT NotSetAgain
CHECK_DEADLOCK FALSE
