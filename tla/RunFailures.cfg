CONSTANTS
    r1 = r1
    r2 = r2
    w1 = w1
    w2 = w2
    e1 = e1
    e2 = e2
    e3 = e3
    c1 = c1
    NoOwner = NoOwner
    NoRun = NoRun
    Runs <- MCOneRun
    Workers <- MCWorkers
    Executors <- MCThreeExecutors
    Conversations <- MCConversations
    ConvOf <- MCConvOfOne
    Budgets <- MCSeparate
    MaxTools = 2
SPECIFICATION FairSpec
INVARIANTS
    OneExecutorInCharge
    RenewedRunsAreExecuted
PROPERTIES
    SideEffectsAreFenced
    CheckpointsAdvance
    EveryRunEnds
CHECK_DEADLOCK FALSE
