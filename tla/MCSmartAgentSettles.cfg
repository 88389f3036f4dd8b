\* One request id and the messages of chosen candidates; fairness assumed.
SPECIFICATION FairSpec
CONSTANTS
    r1 = r1
    r2 = r2
    x1 = x1
    x2 = x2
    Requests = {r1}
    NoRequest = NoRequest
    Texts = {x1}
    NoText = NoText
    MessageBound = 3
    SaveBound = 2
    ClearBound = 1
    FaultBound = 1
CHECK_DEADLOCK FALSE
PROPERTIES
    EveryMessageSettles
    TurnsEnd
