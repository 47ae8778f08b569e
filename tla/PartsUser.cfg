SPECIFICATION UserSpec
CONSTANTS
  MaxChars = 5
  MaxQuestions = 2
  MaxEntries = 3
  InputSettings <- InputSettingsAll
  MaxHooks = 3
  MaxLevel = 2
  WaitBuffer = 3
  HookSettings <- HookSettingsAll
  KeySettings <- KeySettingsAll
  AliasNames <- AliasNamesAll
  AliasTables <- AliasTablesAll
  Given <- GivenAll
  AliasLimits = {1, 2}
  MaxAliasFrames = 4
  Initial <- InitialAll
  Trees <- TreesAll
  MaxEvaluations = 1
  QueuedCommands <- QueuedCommandsAll
  QueueSettings <- QueueSettingsAll
  MaxQueued = 8
  MaxQueueCalls = 3
  LoadCommands <- LoadCommandsAll
  LoadTables <- LoadTablesAll
  MaxLoadDepth = 2
  IrcVariable <- IrcVariableAll
  SetLines <- SetLinesAll
  GlobalFiles <- GlobalFilesAll
  NumberOf <- NumberOfAll
  Folded <- FoldedAll
  MaxSets = 2
  Programs <- ProgramsAll
  VarNames <- VarNamesAll
  InitialValues <- InitialValuesAll
  Letters <- LettersAll
  RefersTo <- RefersToAll
  MaxShown = 4
INVARIANTS UserTypeOK HooksHold SettingsHold AliasesHold ValueAsMeant DroppedHaveRun ScriptsHold
PROPERTIES InputKept
CHECK_DEADLOCK FALSE
