SPECIFICATION Spec
CONSTANTS
    Runs <- TwoRuns
    MaxChains = 2
    MaxFailures = 2
    Null = Null
    IncidentEnabled = FALSE
INVARIANTS
    OneOperation
    ShownIsSelected
PROPERTIES
    CatchesUp
CHECK_DEADLOCK FALSE
