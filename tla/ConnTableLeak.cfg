CONSTANTS
    Conns = {k1, k2}
    MaxConnections = 1
    EstablishMayFail = TRUE
SPECIFICATION FairSpec
PROPERTIES
    SlotsReturn
CHECK_DEADLOCK FALSE
