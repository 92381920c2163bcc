SPECIFICATION ProxySpec
CONSTANTS
    Conns = {k1, k2, k3}
    MaxConnections = 2
    EstablishMayFail = TRUE
    ExRequests <- MCExRequests
    ExNow = {5, 6}
    DayLength = 4
    MaxClockSkew = 2
    MaxInMemory = 1
    MaxSpool = 3
    ReadBuffer = 2
    MaxNoProgress = 2
    AllowUnsigned = FALSE
    Relays <- MCRelays
    Resolutions <- MCResolutions
    NormalIP <- MCNormalIP
    UnsafeIPs = {"priv", "lab"}
    AllowedIPs = {"lab"}
    LeafHosts = {"h1", "h2"}
    BadLeafHosts = {"bad"}
    LeafCallers = {"lc1", "lc2"}
    LeafCapacities = {1, 2}
    LeafLife = 2
    LeafSkew = 1
    CALife = 3
    CASkew = 2
    LastTime = 4
    MaxGets = 3
INVARIANTS
    SlotsMatchTable
    CloseClosesAll
    BodyIsReleased
    PayloadIsWhole
    VerifiedIsSigned
    RelayIsValidated
    TunnelIsWhole
    LeavesAreExact
PROPERTIES
    AnsweredSlotsReturn
    ExchangeEnds
    RelayEnds
CHECK_DEADLOCK FALSE
