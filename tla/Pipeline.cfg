SPECIFICATION LimitSpec
CONSTANTS
    First = r1
    Last = r3
    Requests = {r1, r2, r3}
    Keys = {k1, k2}
    Allowed = {k1}
    MaxRequests = 2
    CacheSize = 1
INVARIANTS ForwardedIsAuthorized AnswerMatchesRecord
PROPERTIES
    AuditFailureDeniesNew
    CancelledFinishes
CHECK_DEADLOCK FALSE
