\* The first connection and two messages are enough for two writers to meet.
CONSTANTS
    Reader = reader
    Workers = {w1}
    Beats = {b1}
    MaxConns = 1
    MaxSeq = 3
    MaxInbound = 1
SPECIFICATION Spec
INVARIANT NoCrash
