SPECIFICATION EitherSpec
CONSTANTS
    PixelFreqs <- MCPixelFreqs
    StackValues <- MCStackValues
    ResetValues <- MCResetValues
    AskedFreqs <- MCAskedFreqs
    Depths <- MCDepths
    LocalValues <- MCStackValues
INVARIANTS
    FieldsDefined
    RowsConsistent
    ClocksAsReturned
PROPERTIES
    RetunedInReset
    ImplementsClockSource
    PollsEnd
CHECK_DEADLOCK FALSE
