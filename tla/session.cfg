SPECIFICATION FairSpec
CONSTANTS
    Threads = {"tool", "shell"}
    Requests <- MCRequests
    DeviceTrees <- MCDeviceTrees
    ResetPolls = 2
    MaxFaults = 1
    Tools = {"c", "cpp"}
    Options <- MCOptions
    OthersSet <- MCOthers
    MaxRuns = 2
    MaxEvents = 1
INVARIANT TypeOK
INVARIANT SettingsAgree
INVARIANT ProbeErasesThePast
INVARIANT RateContract
INVARIANT CapturesAsAsked
INVARIANT ExitLeavesBufferOff
INVARIANT FreshStartSucceeds
PROPERTY PeriodFixed
PROPERTY ToolSettles
