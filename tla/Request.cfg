SPECIFICATION RequestSpec
CONSTANTS
    Bundles <- AllBundles
    Lower <- AllLower
    BatchSizes = {1, 3}
    ItemBounds = {12, 40}
    None = None
    MaxPlanDiagnostics = 2
    MaxStaticTraversal = 9
    Requests <- MCRequests
    Accepts <- MCAccepts
    RoleARNs = {"role1", "role2"}
    ServiceARNs <- MCServiceARNs
    ARNs = {"arn1"}
    BadParts = {"bad"}
    Statements <- MCStatements
    TextOrder <- MCTextOrder
    WireInputs <- MCWireInputs
    WireBadParts = {"bad"}
    IndexOf <- MCIndexOf
    NoAnswer = NoAnswer
    EpServices <- MCEpServices
    EpOverrides <- MCEpOverrides
    EpRegions = {"east", "west"}
    EpAccounts = {"111"}
    EpFips <- MCEpFips
    EpFold <- MCEpFold
    EpBadLabels = {"-"}
    EpPools <- MCEpPools
    EpCapacity = 1
    Callers = {c1, c2}
    MaxAsked = 3
    NoEndpoint = NoEndpoint
INVARIANTS
    StoreHoldsEvidence
    LookupsFailClosed
    PlanIsExact
    
    DecodedIsExact
    ClassificationIsRight
CHECK_DEADLOCK FALSE
