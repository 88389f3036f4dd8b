\* Two administrators, no faults.
SPECIFICATION Spec
CONSTANTS
    u1 = u1
    Users = {u1}
    Jobs = {j1}
    Fees = {2}
    NoOne = NoOne
    OpeningCredit <- MCCredit
    Reviewers = {r1}
    Admins = {a1, a2}
    FaultBound = 0
    NoJob = NoJob
CHECK_DEADLOCK FALSE
PROPERTIES
    RejectedAppealIsFinal
