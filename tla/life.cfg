SPECIFICATION FairSpec
CONSTANTS
    Watermarks <- MCWatermarks
    MaxFaults = 2
INVARIANT TypeOK
INVARIANT TriggerRouting
INVARIANT WatermarkProgrammed
INVARIANT QuietWhenOff
INVARIANT StrayIrqIgnored
INVARIANT HandlerStopped
PROPERTY SessionEnds
PROPERTY RemovalCompletes
