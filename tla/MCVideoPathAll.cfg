SPECIFICATION Spec
CONSTANTS
    Modes <- MCAllModes
    FRAME_BUFFER_SIZE <- MCFrameBufferSize
INVARIANT
    FetchFits

CHECK_DEADLOCK FALSE
