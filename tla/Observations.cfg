CONSTANTS
    p1 = p1
    p2 = p2
    Configs <- MCConfigs
    Scenarios <- MCScenarios
    ReadBudget = 2
    Retention = 2
    HistoryRetention = 2
    PairFloor = 1
    Readers <- MCReaders
    MaxTime = 3
SPECIFICATION Spec
SYMMETRY MCSymmetry
INVARIANTS
    HighWaterIsTheLastCommit
    RoutingSetIsNewest
    AgesOnlyForward
CHECK_DEADLOCK FALSE
