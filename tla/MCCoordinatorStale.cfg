\* The age of the registry when books are collected, as the README bounds it.
SPECIFICATION Spec
CONSTANTS
    DiscoveryInterval = 3
    MarketsInterval = 2
    OrderbooksInterval = 1
    Never = Never
    MaxTime = 9
PROPERTIES
    CollectsFromFreshRegistry
