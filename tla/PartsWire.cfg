SPECIFICATION WireSpec
CONSTANTS
  a = a
  b = b
  Nicks = {a, b}
  Alphabet <- MCAlphabet
  Settings <- Everything
  Channels = {"chan"}
  Names = {"me", "you"}
  ChannelSettings <- AllSettings
  MaxTyped = 2
  MaxEvents = 3
INVARIANTS WireTypeOK QueueInStep SwallowOnlyForHead ListInStep
PROPERTIES MarksAreAnswers
CHECK_DEADLOCK FALSE
