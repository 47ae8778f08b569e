SPECIFICATION LiveSpec
CONSTANTS
  a = a
  b = b
  Nicks = {a, b}
  Alphabet <- MCAlphabet
  Settings <- OnlyCalm
  x = x
  y = y
  Clients = {x, y}
  Commands = {"chat", "send", "get", "close"}
  Sizes = {0, 3}
  Block = 2
  AckMod = 4
  MaxPorts = 1
  Failures = {"accept", "write"}
  SendsAgain = FALSE
  PerSecond = 2
  ClockSeconds = 2
  MaxNow = 3
  MaxTimers = 3
  Waits = {0, 2}
  LineLength = 3
  BufferSize = 6
  MaxConnections = 1
  MaxLines = 3
  StreamSettings <- LiveStreams
PROPERTIES RequestsEnd TransferEnds TimersEnd LinesAreRead TimersKeepPromise SleepsLessThanASecondLate
CHECK_DEADLOCK FALSE
