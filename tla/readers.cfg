SPECIFICATION FairSpec
CONSTANTS
    ScanBytes = 3
    ReadBytes = 7
    KfifoLen = 4
    BufWatermark = 2
    MaxFrames = 5
    SplitReads = TRUE
    IdMod = 9
INVARIANT TypeOK
INVARIANT FrameLimit
INVARIANT NothingForgotten
PROPERTY LinesAreScans
PROPERTY ReadableIsRead
PROPERTY LatencyBounded
PROPERTY RemovalNoticed
PROPERTY StopEndsLoop
