SPECIFICATION Spec
CONSTANTS
    FifoFrames = 3
    DrainMax = 2
    Watermark = 2
    KfifoLen = 2
    ClearedBy = "any_read"
    MaxSamples = 6
    MaxFlushes = 0
    MaxFaults = 0
PROPERTY OverflowReported
