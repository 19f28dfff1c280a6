SPECIFICATION Spec
CONSTANTS
    Radix = 32
    BufferSize = 13
    Args <- MCArgs
    Registers = {33}
    Slaves = {5}
    Edid <- MCEdid
    Prior = {3}
    MaxPosted = 2
INVARIANTS
    Answered
    BuffKept
