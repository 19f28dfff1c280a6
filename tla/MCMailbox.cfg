SPECIFICATION FairSpec
CONSTANTS
    Radix = 2
    Width = 2
    FifoDepth = 3
    BufferSize = 10
    Addr <- MCAddr
    Val <- MCVal
    Echoes <- MCEchoes
INVARIANTS
    QuietBetweenCalls
PROPERTIES
    ImplementsService
    CallEnds
    WritesLand
