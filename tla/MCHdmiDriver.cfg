SPECIFICATION FairSpec
CONSTANTS
    DcssPriority = 249
    ClientPriority = 248
    MAX_FRAME_COUNT = 6
INVARIANTS
    NoDrawOnProgrammed
    SingleToken
    NoUseAfterFree
    NoLostNotification
    FrameBudget
PROPERTIES
    ImplementsPipeline
    EveryFrameShown
    CallReturns
    MovingImageEnds
CHECK_DEADLOCK FALSE
