\* Lock sessions may be lost while a service runs: what still holds.
SPECIFICATION Spec
CONSTANTS
    p1 = p1
    p2 = p2
    d1 = d1
    d2 = d2
    m1 = m1
    m2 = m2
    o1 = o1
    NoRun = NoRun
    Free = Free
    Dead = Dead
    Process = {p1, p2}
    RunId = {d1, m1, m2}
    RunLayer <- MCRunLayer
    SessionLoss = TRUE
    AckLoss = TRUE
    MaxCrashes = 1
PROPERTIES
    CompletedSyncIsFinal
