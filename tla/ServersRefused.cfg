SPECIFICATION Spec
CONSTANTS
  c = c
  w1 = w1
  w2 = w2
  MaxServers = 2
  MaxRich = 2
  Windows = {w1}
  Channels = {}
  Groups = {0}
  Commands = {"server"}
  Outcomes = {"pending"}
  Ssls = {FALSE}
  Patient = TRUE
PROPERTY OldServerKept
CHECK_DEADLOCK FALSE
