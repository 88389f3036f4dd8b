\* A question about a character, answered by a button; no faults and no clear.
SPECIFICATION ServicesSpec
CONSTANTS
    Orders = {o1, o2}
    Buyers = {b1}
    Methods = {m1, m2}
    MaxPending = 1
    Threads = {t1, t2}
    Notifiers = {n1, n2}
    NotifyLimit = 1
    NoOrder = NoOrder
    NoBuyer = NoBuyer
    NoMethod = NoMethod
    Payers = {p1}
    Calls = {c1, c2, c3}
    Prices = {0, 2}
    OpeningBalance <- MCOpeningBalance
    CallIds = {x}
    NoCallId = NoCallId
    Callers = {h1, h2}
    NoPayer = NoPayer
    NoCall = NoCall
    a = a
    b = b
    c = c
    Characters = {a, b, c}
    NoCharacter = NoCharacter
    Slots = {1, 2, 3}
    Requests <- MCRequests
    NoRequest = NoRequest
    MessageBound = 1
    QuestionBound = 2
    FaultBound = 0
    ClearBound = 0
    ResolutionLimit = 2
    Desks = {d1, d2}
    ListLimit = 2
    PostBound = 3
    Submits = {j1, j2}
    SubmitIds = {y}
    NoSubmitId = NoSubmitId
    Pictures = {q1, q2}
    NoPicture = NoPicture
    RateCallers = {k1, k2}
    RateKeys = {1}
    RateLimit = 2
    RateWindow = 1
    ClockBound = 1
    BreakBound = 1
    CountBound = 4
    TaskBound = 3
    PerJob = 3
    AgentSeconds = 2
    MinRemaining = 1
    Lanes = {1, 2}
    SecondBound = 2
SYMMETRY Symmetry
CHECK_DEADLOCK FALSE
INVARIANT AnsweredIsNotAskedAgain
