CONSTANTS
    ea = ea
    eb = eb
    click = click
    operator = operator
    dashboard = dashboard
    Missing = Missing
    Batches <- MCBatches
    Fields <- MCFields
    Metrics <- MCFields
    EpochIds <- MCEpochIds
    Stages = 2
    MinUnits <- MCMinUnits
    MinSamples = 3
    Fraction <- MCFraction
    SrmAlpha <- MCSrm
    Verdict <- Decision
    Clients <- MCClients
    MaxVersion = 6
    Contract <- MCContract
    OutcomeAlpha <- MCAlpha
    Halvings = 3
    Horizon = 4
    Means <- MCMeans
    Readers <- MCReaders
    PageLimit = 2
SPECIFICATION ControlSpec
INVARIANTS
    HistoryIsEvaluable
    VersionIdentifiesEvidence
    AnswersMatchTheirVersion
    IntervalsAreAnytimeValid
CHECK_DEADLOCK FALSE
