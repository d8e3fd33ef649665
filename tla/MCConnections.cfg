CONSTANTS
  c1 = c1
  c2 = c2
  Conn = {c1, c2}
  Listening = Listening
  NoFd = NoFd
  MaxData <- DataOf
  SendBuffer = 1
SPECIFICATION Spec
INVARIANTS
  NothingLeftBehind
  ReadBeforeClose
PROPERTY PeersAnswered
CHECK_DEADLOCK FALSE
