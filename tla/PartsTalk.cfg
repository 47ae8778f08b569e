SPECIFICATION TalkSpec
CONSTANTS
  x = x
  y = y
  Clients = {x, y}
  Commands = {"chat", "send", "get", "close"}
  Sizes = {0, 3, 5}
  Block = 2
  AckMod = 4
  MaxPorts = 2
  Failures = {"write"}
  SendsAgain = FALSE
  WhoServers = {1, 2}
  MaxRequests = 2
  WhoSettings <- TalkWho
  MaxLetters = 7
  MaximumSplits = 4
  SplitSettings <- TalkSplits
INVARIANTS TransfersInOrder WhoAsAsked TextIsWhole ShownAsGiven
CHECK_DEADLOCK FALSE
