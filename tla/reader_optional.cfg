SPECIFICATION Spec
CONSTANTS
    Threads = {"tool", "shell"}
    Requests <- MCRequests
    DeviceTrees <- MCDeviceTrees
    ResetPolls = 2
    MaxFaults = 0
    Tools = {"cpp_strict"}
    Options <- MCOptions
    OthersSet <- MCOthers
    MaxRuns = 1
    MaxEvents = 0
INVARIANT StrictMeansFatal
