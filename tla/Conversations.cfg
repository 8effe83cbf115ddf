CONSTANTS
    wA = wA
    wB = wB
    ask = ask
    goOn = goOn
    red = red
    blue = blue
    NoWorker = NoWorker
    Workers <- MCWorkers
    Limit = 2
    Window = 3
    Touch = 2
    Interval = 2
    Retention = 4
    MaxDelay = 1
    MaxClock = 7
    MaxSetbacks = 1
    MaxAttachments = 3
    MaxStored = 1
    Questions <- MCQuestions
    Findings <- MCFindings
    Continuing = {goOn}
    Match <- MCMatch
    RecentLimit = 1
    AnchorLimit = 1
    SearchLimit = 1
    MemoryLimit = 1
    ItemBudget = 1
    MaxSelected = 3
    MaxCurrent = 1
    Scenarios <- MCScenarios
SYMMETRY Alike
SPECIFICATION Spec
INVARIANTS
    StorageIsBounded
    ReferencedIsKept
    ObservationsOnlyForward
    ContextIsGrounded
PROPERTIES
    LimitIsKept
CHECK_DEADLOCK FALSE
