\* Calls, refusals, failures and cancellations in every order.
SPECIFICATION FairSpec
CONSTANTS
    c1 = c1
    c2 = c2
    c3 = c3
    Call = {c1, c2, c3}
    Endpoint = {"positions", "markets"}
    EndpointOf <- MCEndpointOf
    RetryAttempts <- MCRetryAttempts
    Backoff <- MCBackoff
    Period <- MCPeriod
    MaxConcurrent = 2
INVARIANTS
    SlotsAreConserved
    RefusalsAreCounted
PROPERTIES
    EveryCallEnds
