SPECIFICATION Spec
CONSTANTS
    FifoFrames = 3
    DrainMax = 2
    Watermark = 2
    KfifoLen = 2
    ClearedBy = "any_read"
    MaxSamples = 4
    MaxFlushes = 0
    MaxFaults = 1
PROPERTY PoppedKept
