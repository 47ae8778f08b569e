SPECIFICATION WindowsSpec
CONSTANTS
  Panes = 3
  MaxStack = 2
  WindowSettings <- Careful
PROPERTIES WindowsArranged
VIEW Seen
