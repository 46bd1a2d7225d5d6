SPECIFICATION Spec
CONSTANTS
    FifoFrames = 3
    DrainMax = 2
    Watermark = 2
    KfifoLen = 2
    ClearedBy = "own_read"
    MaxSamples = 5
    MaxFlushes = 0
    MaxFaults = 1
PROPERTY OverflowReported
