SPECIFICATION Spec
CONSTANTS
    Runs <- TwoRuns
    MaxChains = 2
    MaxFailures = 2
    Null = Null
    IncidentEnabled = FALSE
INVARIANTS
    EscalationIsHeld
CHECK_DEADLOCK FALSE
