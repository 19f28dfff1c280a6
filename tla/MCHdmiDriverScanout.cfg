SPECIFICATION Spec
CONSTANTS
    DcssPriority = 249
    ClientPriority = 248
    MAX_FRAME_COUNT = 4
INVARIANTS
    NoDrawOnDisplayed
CHECK_DEADLOCK FALSE
