\* One download across one reconnect.
CONSTANTS
    Sessions = {}
    Names = {f1}
    Downloads = {d1}
    Length = 2
    MaxHandles = 0
    MaxConns = 2
CHECK_DEADLOCK FALSE
SPECIFICATION Spec
INVARIANT CompleteMeansWhole
