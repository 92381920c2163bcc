SPECIFICATION Spec
CONSTANTS
    Requests = {r1, r2}
    Keys = {k1, k2}
    Allowed = {k1}
    MaxRequests = 2
    CacheSize = 1
INVARIANTS
    RetryIsDecided
CHECK_DEADLOCK FALSE
