SPECIFICATION EitherSpec
CONSTANTS
    Modes <- MCModes
    API_EXAMPLE_2_SIDE_LENGTH = 5
    h_active = 720
    v_active = 480
    MOVING_SQUARE_SIDE_LENGTH = 95
INVARIANTS
    InPicture
    OneSquareShown
    StillPictures
PROPERTIES
    BarsRotate
CHECK_DEADLOCK FALSE
