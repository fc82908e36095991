SPECIFICATION Spec
CONSTANTS
    Processes = {p1, p2}
    Environments <- Environs
    Deliveries = {d1}
    Candidates = {A}
    Flaws <- FlawSets
    FreshFor = 1
    MaxInterruptions = 2
INVARIANTS
    SchemaIsWhole
    ReadyIsComplete
    DeliveriesBecomeOneRun
    SeedIsWhole
PROPERTIES
    StuckIsNotReady
    EventuallyServes
CHECK_DEADLOCK FALSE
