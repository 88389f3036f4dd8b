\* One database call raises.
SPECIFICATION FairSpec
CONSTANTS
    u1 = u1
    Users = {u1}
    Jobs = {j1}
    Fees = {2}
    NoOne = NoOne
    OpeningCredit <- MCCredit
    Reviewers = {r1}
    Admins = {a1}
    FaultBound = 1
    NoJob = NoJob
CHECK_DEADLOCK FALSE
PROPERTIES
    PendingRefundIsRetried
