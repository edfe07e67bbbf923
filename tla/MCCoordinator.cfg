\* Cycles of any length and any outcome, up to the horizon.
SPECIFICATION Spec
CONSTANTS
    DiscoveryInterval = 3
    MarketsInterval = 2
    OrderbooksInterval = 1
    Never = Never
    MaxTime = 8
INVARIANTS
    TypeOK
    DeadlinesAreFixed
    FreshAfterSync
PROPERTIES
    MissedTicksAreCoalesced
    DueLayersRun
