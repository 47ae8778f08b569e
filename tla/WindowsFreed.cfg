SPECIFICATION WindowsSpec
CONSTANTS
  Panes = 3
  MaxStack = 2
  WindowSettings <- Careless
INVARIANTS HiddenExists
VIEW Seen
