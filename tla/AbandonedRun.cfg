SPECIFICATION DirsSpec
CONSTANTS
    DirRuns = {"d1", "d2"}
    DirLaunches <- RunLaunches
    StaleAge = 1
    LastClock = 2
INVARIANTS
    AbandonedIsCleaned
CHECK_DEADLOCK FALSE
