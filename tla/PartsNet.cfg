SPECIFICATION NetSpec
CONSTANTS
  MaxNow = 5
  MaxArrivals = 4
  FloodSettings <- FloodSettingsAll
  IgnoreLevels = {"MSGS", "CTCPS"}
  MaxSums = 3
  IgnoreSettings <- IgnoreSettingsAll
  MaxPieces = 13
  MessageSettings <- MessageSettingsAll
  ChannelOrder <- ChannelOrderAll
  TargetServers = {1, 2}
  MaxTargetWindows = 3
  TargetSettings <- TargetSettingsAll
  LineLength = 3
  BufferSize = 2
  MaxConnections = 2
  MaxLines = 4
  StreamSettings <- StreamSettingsAll
  LoginServers = {1, 2}
  LoginPrimary = 1
  Nicknames = {"me", "you", "they"}
  Taken = {"they"}
  MaxTyped = 4
  MaxEvents = 2
  LoginSettings <- LoginSettingsAll
  IcbNames = {"me", "you", "a", "b"}
  IcbMe = "me"
  IcbGroups = {"g", "h"}
  MembersPerLine = 2
  Remaining = 3
  LookBack = 2
  MaxIcbEvents = 4
  IcbSettings <- IcbSettingsAll
INVARIANTS NetTypeOK FloodsCounted IgnoresHold TalkIsShown LinesAsSent LoginAgreed IcbAgreed MessagesHold
CHECK_DEADLOCK FALSE
