\* One worker, replaced at any step, over the whole life of a run.
SPECIFICATION Spec
CONSTANTS
    Runs = {r1}
    Workers = {w1}
    NoWorker = NoWorker
    NoRun = NoRun
    Keys = {k1, k2}
    LeaseDuration = 2
    NormalObservations = 3
    Delay = 1
    DecisionTTL = 1
    Extension = 1
    ActionWindow = 2
    ActionEnabled = TRUE
    MaxTime = 5
    MaxRestarts = 2
SYMMETRY Symmetry
INVARIANTS
    ReservedPlanIsStable
    HeadIsProjection
    DeadlinesAreKept
    ObservationBudget
    OneHumanCheckpoint
    RetryIsReplayed
