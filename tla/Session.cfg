SPECIFICATION SessionSpec
CONSTANTS
    root = root
    child = child
    Root = root
    Kids <- MCKids
    MaxPrelaunch = 1
    SignalBuffer = 1
    Requests = {r1, r2}
    MaxRuns = 2
    DirRuns = {"d1", "d2", "d3"}
    DirLaunches <- MCLaunches
    StaleAge = 1
    LastClock = 2
    Initialisers = {"i1", "i2"}
    NoConfig = "no config"
INVARIANTS
    GroupIsDoomed
    ResultIsHonest
    ChildIsProtected
    EventsAreDurableAtExit
    
    
    ConfigIsWhole
PROPERTIES
    CancelledSetupNeverLaunches
    ShutdownIsBounded
    Lifecycle_Spec
    RunReturns
CHECK_DEADLOCK FALSE
