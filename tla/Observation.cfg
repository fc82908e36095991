SPECIFICATION Spec
CONSTANTS
    candidate = candidate
    other = other
    Garbled = garbled
    Commits <- TwoCommits
    Candidate <- candidate
    Worlds <- StartWorlds
    Moves <- MovesOf
    Failing = {"silent", "unusable"}
    MaxMoves = 1
    MaxInvocations = 2
INVARIANTS
    VerdictIsEarned
    UnhealthyIsSeen
    ViolationVoids
    AskedOnce
PROPERTIES
    ImplementsInvocation
CHECK_DEADLOCK FALSE
