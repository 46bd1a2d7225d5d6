SPECIFICATION FairSpec
CONSTANTS
    FifoFrames = 3
    DrainMax = 2
    Watermark = 2
    KfifoLen = 2
    ClearedBy = "any_read"
    MaxSamples = 5
    MaxFlushes = 1
    MaxFaults = 1
PROPERTY PendingKept
PROPERTY InOrder
PROPERTY PendingDelivered
