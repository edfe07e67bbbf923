\* Pending discovery runs are absorbed in the end; both conditions in one batch.
SPECIFICATION LiveSpec
CONSTANTS
    t1 = t1
    t2 = t2
    t3 = t3
    t4 = t4
    yes = yes
    no = no
    Omitted = Omitted
    Invalid = Invalid
    NoMarket = NoMarket
    NoOwner = NoOwner
    NoPayload = NoPayload
    Condition = {1, 2}
    Token = {t1, t2, t3, t4}
    Outcome = {yes, no}
    Payload <- MCPlainPayload
    DiscoveryRun = {1}
    SyncRun = {1, 2}
    BatchSize = 2
    SessionLoss = FALSE
    MaxChanges = 1
    MaxFaults = 1
PROPERTIES
    PendingRunsAreSynced
