SPECIFICATION FairSpec
CONSTANTS
    Modes <- MCModes
    FRAME_BUFFER_SIZE <- MCFrameBufferSize
INVARIANTS
    PathAgrees
    FetchFits
PROPERTIES
    RewiredInTheDark
    EndsShown

CHECK_DEADLOCK FALSE
