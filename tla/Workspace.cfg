CONSTANTS
    w1 = w1
    w2 = w2
    i1 = i1
    i2 = i2
    t1 = t1
    v0 = v0
    v1 = v1
    NoRev = NoRev
    NoOp = NoOp
    FirstRev = v0
    Workers <- MCWorkers
    Imports <- MCImports
    ServedBy <- MCServedBy
    RevOf <- MCRevOf
    Revisions <- MCRevisions
    Tasks <- MCTasks
    MaxLapses = 1
    MaxCrashes = 1
SPECIFICATION FairSpec

    
PROPERTIES
    RevisionStableUnderTasks
    
CHECK_DEADLOCK FALSE
