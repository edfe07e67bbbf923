\* Every small payload, against the reference definitions.
SPECIFICATION Spec
CONSTANTS
    None = None
    Refused = Refused
    NaN = NaN
    NoNumber = NoNumber
    Payload <- MCPayload
    One = 3
    Far = 20
    Tops = {1, 2}
    MilliFrom = 20
    Milli = 10
    FirstSecond <- MCFirstSecond
    LastSecond = 30
INVARIANTS
    DepthsAreByRank
    ReasonsTellTheBook
    RefusalsAreExplained
    TimestampsAreInstants
