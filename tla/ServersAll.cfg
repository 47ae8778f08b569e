SPECIFICATION Spec
CONSTANTS
  c = c
  w1 = w1
  w2 = w2
  MaxServers = 2
  MaxRich = 2
  Windows = {w1, w2}
  Channels = {}
  Groups = {0}
  Commands = {"server", "window", "disconnect", "delete", "windows", "password"}
  Outcomes = {"fail", "pending"}
  Ssls = {FALSE}
  Patient = TRUE
INVARIANT TypeOK
SYMMETRY WindowSymmetry
CHECK_DEADLOCK FALSE
