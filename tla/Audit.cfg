CONSTANTS
    Callers = {c1, c2}
    NoOne = NoOne
    NoItem = NoItem
    Capacity = 1
    BatchSize = 2
    FsyncDecision = TRUE
    EventKinds = {"decision", "other"}
    MaxEvents = 2
    DiskMayFail = TRUE
    FlushDeadline = TRUE
    AuditRuns = {a, b}
    MaxRecords = 2
SPECIFICATION AuditSpec
INVARIANTS
    FlushedIsDurable
    ClosedIsDurable
    AnswersHaveNoGap
PROPERTIES
    CallsReturn
    ImplementsAuditLog
    ClosedIsAnswered
CHECK_DEADLOCK FALSE
