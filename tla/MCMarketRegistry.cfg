\* Statuses that change, poisoned answers, one batch per condition.
SPECIFICATION Spec
CONSTANTS
    t1 = t1
    t2 = t2
    t3 = t3
    t4 = t4
    yes = yes
    no = no
    Omitted = Omitted
    Invalid = Invalid
    NoMarket = NoMarket
    NoOwner = NoOwner
    NoPayload = NoPayload
    Condition = {1, 2}
    Token = {t1, t2, t3, t4}
    Outcome = {yes, no}
    Payload <- MCPayload
    DiscoveryRun = {1, 2}
    SyncRun = {1, 2, 3}
    BatchSize = 1
    SessionLoss = TRUE
    MaxChanges = 1
    MaxFaults = 1
INVARIANTS
    TypeOK
    SyncedRunsAreRegistered
    TokensMatchPayloads
    SyncsAreAllOrNothing
    CurrentStatusIsLatestSnapshot
PROPERTIES
    TerminalMarketsRest
    ImplementsCanonicalRegistry
