\* One run, one worker replaced once.
SPECIFICATION LiveSpec
CONSTANTS
    Runs = {r1}
    Workers = {w1}
    NoWorker = NoWorker
    NoRun = NoRun
    Keys = {k1}
    LeaseDuration = 2
    NormalObservations = 2
    Delay = 1
    DecisionTTL = 1
    Extension = 1
    ActionWindow = 2
    ActionEnabled = TRUE
    MaxTime = 8
    MaxRestarts = 1
    Poisoned = {}
    EarlyTicks = 3
PROPERTIES
    EveryRunEnds
