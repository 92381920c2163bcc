CONSTANTS
    Callers = {c1, c2}
    NoOne = NoOne
    NoItem = NoItem
    Capacity = 1
    BatchSize = 2
    FsyncDecision = FALSE
    EventKinds = {"other"}
    MaxEvents = 3
    DiskMayFail = TRUE
    FlushDeadline = FALSE
SPECIFICATION FairSpec
PROPERTIES
    CallsReturn
CHECK_DEADLOCK FALSE
