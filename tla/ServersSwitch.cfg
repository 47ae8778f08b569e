SPECIFICATION Spec
CONSTANTS
  c = c
  w1 = w1
  w2 = w2
  MaxServers = 3
  MaxRich = 2
  Windows = {w1}
  Channels = {c}
  Groups = {0}
  Commands = {"server", "disconnect"}
  Outcomes = {"fail", "pending"}
  Ssls = {FALSE, TRUE}
  Patient = TRUE
INVARIANTS SwitchConsistent ConnectedIsOpen
PROPERTIES OldConnectionKept
CHECK_DEADLOCK FALSE
