CONSTANTS
    confA = confA
    confB = confB
    confO = confO
    conf0 = conf0
    whole = whole
    seg1 = seg1
    r1 = r1
    r2 = r2
    e1 = e1
    e2 = e2
    e3 = e3
    Configs <- MCConfigs
    Default = conf0
    Obsolete <- MCObsolete
    Segments <- MCSegments
    Global = whole
    Results <- MCResults
    Seeds <- MCSeeds
    Runs <- MCRuns
    Executors <- MCExecutors
    RunOf <- MCRunOf
    Builders <- MCBuilders
    Activating <- MCActivating
    LastCycle <- MCLastCycle
    TrustedBudget = 1
    RetiredBudget = 0
    MaxLapses = 1
SPECIFICATION Spec
INVARIANTS
    LiveStrategiesAreBounded
    ReplaysHaveTheirStrategy
    InvocationsCountOnce
CHECK_DEADLOCK FALSE
