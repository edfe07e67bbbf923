\* The CLOB answers only what it was asked for.
SPECIFICATION FairSpec
CONSTANTS
    Token = {1, 2, 3}
    RunId = {1, 2}
    BatchSize = 2
    AllowUnrequested = FALSE
    MaxFaults = 2
INVARIANTS
    TypeOK
    BooksMatchItems
    StatusTellsOutcome
    CountsAddUp
PROPERTIES
    EndedRunsAreFrozen
    CollectionsEnd
