SPECIFICATION Spec
CONSTANTS
    Modes <- MCModes
    Stack = {0, 255}
    Other <- MCOther
INVARIANTS
    SendsWhatWasSet
    AviTellsMode
