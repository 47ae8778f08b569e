SPECIFICATION FairSpec
CONSTANTS
  c = c
  w1 = w1
  w2 = w2
  MaxServers = 2
  MaxRich = 2
  Windows = {w1}
  Channels = {}
  Groups = {0, 1}
  Commands = {"server", "disconnect"}
  Outcomes = {"fail", "pending", "up"}
  Ssls = {FALSE}
  Patient = TRUE
PROPERTY SwitchDecided
CHECK_DEADLOCK FALSE
