SPECIFICATION HSpec
CONSTANTS
    FifoFrames = 3
    DrainMax = 2
    Watermark = 2
    KfifoLen = 2
    ClearedBy = "any_read"
    MaxSamples = 6
    MaxFlushes = 1
    MaxFaults = 0
INVARIANT RecoveryIsNeeded
PROPERTY ImplementsStream
PROPERTY LossesEstimated
PROPERTY OverflowsMissed
