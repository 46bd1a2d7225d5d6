SPECIFICATION FairSpec
CONSTANTS
    FifoFrames = 5
    DrainMax = 3
    Watermark = 2
    MaxLoops = 2
    KfifoLen = 4
    MaxFaults = 2
INVARIANT TypeOK
INVARIANT Attended
PROPERTY DrainedAgain
