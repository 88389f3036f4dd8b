\* Two server processes, so that two reviewer loops can hold the same review; two faults.
SPECIFICATION FairSpec
CONSTANTS
    u1 = u1
    Users = {u1}
    Jobs = {j1}
    Fees = {0, 2}
    NoOne = NoOne
    OpeningCredit <- MCCredit
    Reviewers = {r1, r2}
    Admins = {a1}
    FaultBound = 2
    NoJob = NoJob
CHECK_DEADLOCK FALSE
INVARIANTS
    ShownRefundedIsPaid
PROPERTIES
    KeepsRefundPromise
    UndecidedIsReviewed
