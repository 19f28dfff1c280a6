SPECIFICATION EitherSpec
CONSTANTS
    Word = 24
    CNTCR = 3
    TicksPerMs = 2
    Delays <- MCDelays
    NO_DELAY <- MCNoDelay
    MaxLoadTicks = 5
    MaxPollTicks = 2
    UsTicks = 2
    Retries = 2
    CntValues = 3
INVARIANTS
    NeverEarly
    FrameLasts
    MeasuredExactly
    OnTime
    GivenUpOnlyIfStill
PROPERTIES
    CheckEnds
