CONSTANTS
    r1 = r1
    r2 = r2
    w1 = w1
    w2 = w2
    e1 = e1
    e2 = e2
    e3 = e3
    c1 = c1
    NoOwner = NoOwner
    NoRun = NoRun
    Runs <- MCOneRun
    Workers <- MCWorkers
    Executors <- MCThreeExecutors
    Conversations <- MCConversations
    ConvOf <- MCConvOfOne
    Budgets <- MCMixed
    MaxTools = 1
SPECIFICATION Spec
INVARIANTS
    AnsweredAfterLearning
PROPERTIES
    ImplementsStore
    ImplementsContract
CHECK_DEADLOCK FALSE
SYMMETRY MCSymmetry
