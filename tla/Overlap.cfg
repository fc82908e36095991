\* Two workers over one run, leases shorter than their work.
SPECIFICATION Spec
CONSTANTS
    Runs = {r1}
    Workers = {w1, w2}
    NoWorker = NoWorker
    NoRun = NoRun
    Keys = {k1}
    LeaseDuration = 1
    NormalObservations = 2
    Delay = 1
    DecisionTTL = 1
    Extension = 1
    ActionWindow = 1
    ActionEnabled = TRUE
    MaxTime = 3
    MaxRestarts = 0
SYMMETRY Symmetry
INVARIANTS
    TypeOK
    AtMostOnePost
    PostIsAuthorized
    ReceiptIsTrue
    ActionMatchesHead
    CurrentClaimIsTrue
    LeaseExcludes
PROPERTIES
    TerminalIsFinal
    LiveLeaseProtects
    ImplementsLifecycle
