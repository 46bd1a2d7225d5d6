SPECIFICATION Spec
CONSTANTS
    Watermarks <- MCWatermarks
    MaxFaults = 1
INVARIANT ResetWhileStopped
