\* Two server processes on one database, one task, three faults.
SPECIFICATION FairWorkersSpec
CONSTANTS
    u1 = u1
    j1 = j1
    j2 = j2
    w1 = w1
    w2 = w2
    Users = {u1}
    FreeUsers = {}
    Jobs = {j1}
    Requests = {}
    NoRequest = NoRequest
    Texts = {x1}
    Price <- MCPrice
    OpeningCredit <- MCCredit
    UserLimit = 2
    GlobalLimit = 2
    MaxAttempts = 2
    ClaimBound = 5
    NoRow = NoRow
    NoOne = NoOne
    NoAnswer = NoAnswer
    Workers = {w1, w2}
    FaultBound = 3
    NoJob = NoJob
CHECK_DEADLOCK FALSE
INVARIANTS
    AttemptsBounded
PROPERTIES
    WorkersKeepTaskProtocol
    EveryTranslationSettles
