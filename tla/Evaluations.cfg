SPECIFICATION Spec
CONSTANTS
    Processes = {p1, p2}
    Calls = {c1, c2, c3}
    Keys = {k1, k2}
    Releases = {release}
    NoCall = NoCall
    AgentCalls <- ModelCalls
    LiveWorlds <- ProviderStates
    MaxRestarts = 1
SYMMETRY Symmetry
INVARIANTS
    EveryEvaluationProjects
    LineageIsExact
    AnswersAgree
    RetryIsNotAFailure
    OneRunAtATime
    VerifiedOnce
PROPERTIES
    ImplementsRegister
