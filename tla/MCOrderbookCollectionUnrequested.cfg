\* The CLOB may add rows of tokens it was not asked for.
SPECIFICATION Spec
CONSTANTS
    Token = {1, 2, 3}
    RunId = {1, 2}
    BatchSize = 2
    AllowUnrequested = TRUE
    MaxFaults = 2
INVARIANTS
    NothingIsLost
