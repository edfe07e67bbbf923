\* Every interleaving of two processes, three layers, two crashes and lost acknowledgements.
SPECIFICATION FairSpec
CONSTANTS
    p1 = p1
    p2 = p2
    d1 = d1
    d2 = d2
    m1 = m1
    m2 = m2
    o1 = o1
    NoRun = NoRun
    Free = Free
    Dead = Dead
    Process = {p1, p2}
    RunId = {d1, d2, m1, o1}
    RunLayer <- MCRunLayer
    SessionLoss = FALSE
    AckLoss = TRUE
    MaxCrashes = 2
INVARIANTS
    TypeOK
    LockHeldThroughout
    OnlyOwnRunIsOpen
    DetailsEndWithRun
PROPERTIES
    OutcomeIsFinal
    OrphansAreRecovered
