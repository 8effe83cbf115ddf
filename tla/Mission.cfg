CONSTANTS
    Tools = {"data.inspect", "web.research",
             "search.run", "search.diagnose", "search.audit", "search.evolve",
             "recommend.run", "recommend.diagnose", "recommend.audit",
             "recommend.evolve"}
    Contracts <- DefaultCapabilities
    Outcomes <- MCOutcomes
    Plans <- MCPlans
    MaxTools = 14
    MaxCost = 1100
    MaxBonus = 12000
    MaxCrashes = 1
    MaxFailures = 1
    NoTool = NoTool
SPECIFICATION Spec
INVARIANTS
    ContradictionOpensDiagnosis
    VerifiedMeansEstablished
CHECK_DEADLOCK FALSE
