CONSTANTS
    r1 = r1
    r2 = r2
    r3 = r3
    w1 = w1
    w2 = w2
    c1 = c1
    c2 = c2
    NoOwner = NoOwner
    Runs <- MCRuns
    Workers <- MCWorkers
    Conversations <- MCConversations
    ConvOf <- MCConvOf
    MaxTools = 1
SPECIFICATION StoreSpec
INVARIANTS
    AnsweredIffCompleted
PROPERTIES
    CancelSticks
CHECK_DEADLOCK FALSE
SYMMETRY MCSymmetry
