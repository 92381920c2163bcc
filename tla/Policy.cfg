SPECIFICATION PolicySpec
CONSTANTS
    RulesPerPolicy = 3
    Policies <- MCPolicies
    Inputs <- MCInputs
    Ids <- MCIds
    Actions <- MCActions
    Resources <- MCResources
    Partitions <- MCPartitions
    Regions <- MCRegions
    Accounts <- MCAccounts
    None <- MCNone
    ActionGlob <- MCActionGlob
    ResourceGlob <- MCResourceGlob
    Star = "any"
    MaxPolicyRules = 3
    MaxRequirements = 3
    MaxEvaluationCombos = 3
    CheckEvery = 2
    a = a
    A = A
    StarByte = StarByte
    AnyByte = AnyByte
    nul = nul
    Refused = {nul}
    Bytes <- ByteSet
    Lower <- Fold
    MaxGlobLength = 3
INVARIANTS
    DecisionIsRight
    MatchIsRight
CHECK_DEADLOCK FALSE
