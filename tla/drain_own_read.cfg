SPECIFICATION Spec
CONSTANTS
    FifoFrames = 3
    DrainMax = 2
    Watermark = 2
    KfifoLen = 2
    ClearedBy = "own_read"
    MaxSamples = 6
    MaxFlushes = 1
    MaxFaults = 0
INVARIANT TypeOK
INVARIANT NotFromTheFuture
INVARIANT FlushDelivers
PROPERTY PoppedKept
PROPERTY OverflowReported
