\* Servers that keep still or change while they are read, failures, cancellation.
SPECIFICATION FairSpec
CONSTANTS
    Row = {"A", "a", "b", "g", "?"}
    Wallet = {"0xa", "0xb", "0xg"}
    NoWallet = NoWallet
    WalletOf <- MCWalletOf
    Malformed = {"0xg"}
    Position = {"x1", "x2", "y1", "?"}
    Condition = {"X", "Y"}
    NoCondition = NoCondition
    ConditionOf <- MCConditionOf
    WalletCount = 2
    LeaderboardLimit = 2
    LeaderboardReach = 2
    PositionLimit = 2
    PositionReach = 2
    OffsetBound <- MCOffsetBound
    Rankings <- MCRankings
    Holdings <- MCHoldings
    MaxChanges = 1
INVARIANTS
    LeaderboardsAreRanked
    PositionsAreComplete
    EvidenceIsComplete
    ResultsAreWhole
    RequestsAreAdmissible
PROPERTIES
    ComesToRest
