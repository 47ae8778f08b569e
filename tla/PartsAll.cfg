SPECIFICATION Spec
CONSTANTS
    DisplaySize = 2
    HoldModeMaxes = {0, 2}
    Lastlogs = {1, 3}
    PagingSettings <- PagingSettingsAll
    MaxWritten = 5
    MaxStarts = 2
    Pids = {1, 2}
    MaxDescriptor = 9
    ExecSettings <- ExecSettingsAll
INVARIANTS DisplayHolds SkippedAreSeen
PROPERTIES ExecHolds
