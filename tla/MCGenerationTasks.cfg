\* Three users, one of them the owner with free plain and fast tasks, so that
\* the limit of one task each and the limit of two in all refuse different tasks.
SPECIFICATION SmallSpec
CONSTANTS
    u1 = u1
    u2 = u2
    u3 = u3
    j1 = j1
    j2 = j2
    j3 = j3
    Users = {u1, u2, u3}
    FreeUsers = {u2}
    Jobs = {j1, j2, j3}
    Requests = {r1}
    NoRequest = NoRequest
    Texts = {x1, x2}
    Price <- MCPrice
    OpeningCredit <- MCCredit
    UserLimit = 1
    GlobalLimit = 2
    MaxAttempts = 1
    ClaimBound = 2
    NoRow = NoRow
    NoOne = NoOne
    NoAnswer = NoAnswer
SYMMETRY Symmetry
CHECK_DEADLOCK FALSE
INVARIANTS
    RefundedExactlyOnce
    BalanceMatchesTasks
    TranslationFollowsTask
    OneTaskPerRequest
    AnswerFitsRequest
    ActiveWithinLimits
PROPERTIES
    FinishedIsFinal
    KeepsBillingPromise
