SPECIFICATION CallsSpec
CONSTANTS
    Word = 16
    CNTCR = 3
    TicksPerMs = 2
    Delays <- MCDelays
    NO_DELAY <- MCNoDelay
    MaxLoadTicks = 5
    MaxPollTicks = 1
    UsTicks = 2
    Retries = 2
    CntValues = 3
PROPERTIES
    DelayEnds
