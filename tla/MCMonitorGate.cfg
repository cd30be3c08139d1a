CONSTANTS
    r1 = r1
    r2 = r2
    o1 = o1
    o2 = o2
    Requests = {r1, r2}
    Operators = {o1, o2}
    NoRequest = NoRequest
    MaxRecords = 1
    Limits = {1}
    StartLimit = 1
    Disconnects = TRUE
    MaxOps = 1

SPECIFICATION FairSpec
CHECK_DEADLOCK FALSE

INVARIANTS
    VerdictTrail
    NothingSentUnapproved
    WaitersMatchWaits
PROPERTIES
    RequestsSettle
    ImplementsApproval
