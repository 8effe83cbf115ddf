CONSTANTS
    r1 = r1
    r2 = r2
    s1 = s1
    NoRun = NoRun
    Fields <- MCFields
    Configs <- MCConfigs
    Base <- MCBase
    Neighbours <- MCNeighbours
    Landscapes <- MCLandscapes
    Remembered = {}
    Backends <- MCBackends
    PopulationSize = 4
    Generations = 2
    Parents = 2
    SurfaceSeeds = 2
    JumpElites = 1
    ModelPoints = 4
    MaxDuplicates = 1
    Runs <- MCRuns
    Segments <- MCSegments
    Scenarios <- MCScenarios
    Capabilities <- MCCapabilities
    Scale <- MCScale
    CapabilityChoices <- MCChoices
    Feasible <- MCFeasible
    Utilities = {57}
    CreditReadBudget = 1
SPECIFICATION AutoSpec
INVARIANTS
    BudgetParity
    PrimaryIsReserved
    TrustedIsCertified
    ResultsAreCredited
    LedgersAgreeOnSuccess
    OptimizerCreditIsEarned
    SwitchesRestOnEvidence
PROPERTIES
    SearchEnds
CHECK_DEADLOCK FALSE
