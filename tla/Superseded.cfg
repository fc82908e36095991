\* Two deliveries, one worker.
SPECIFICATION Spec
CONSTANTS
    Runs = {r1, r2}
    Workers = {w1}
    NoWorker = NoWorker
    NoRun = NoRun
    Keys = {k1}
    LeaseDuration = 1
    NormalObservations = 2
    Delay = 1
    DecisionTTL = 1
    Extension = 1
    ActionWindow = 1
    ActionEnabled = TRUE
    MaxTime = 2
    MaxRestarts = 0
INVARIANTS
    NewerCandidateSupersedes
