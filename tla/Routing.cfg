CONSTANTS
    p1 = p1
    p2 = p2
    Configs <- MCConfigs
    Procs <- MCProcs
    MinRows = 1
    TTL = 1
    Refresh = 1
    Seeds <- MCSeeds
    MaxObs = 2
    MaxTime = 3
    MaxJumps = 1
    MaxCalls = 2
SPECIFICATION Spec
SYMMETRY MCSymmetry
INVARIANTS
    DecisionsRestOnCurrentEvidence
    UsedRowsBelongToTheEpoch
CHECK_DEADLOCK FALSE
