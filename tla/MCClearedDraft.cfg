\* A conversation cleared while the worker plans a turn of it.
SPECIFICATION Spec
CONSTANTS
    r1 = r1
    r2 = r2
    x1 = x1
    x2 = x2
    Requests = {r1, r2}
    NoRequest = NoRequest
    Texts = {x1, x2}
    NoText = NoText
    MessageBound = 3
    SaveBound = 2
    ClearBound = 1
    FaultBound = 0
SYMMETRY NamesSymmetry
CHECK_DEADLOCK FALSE
INVARIANT ClearedStaysClean
