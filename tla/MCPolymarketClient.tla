------------------------- MODULE MCPolymarketClient -------------------------
(* Three calls, two of them to one endpoint, compete for two slots.  The    *)
(* first endpoint retries twice, the second not at all.                     *)
EXTENDS PolymarketClient

CONSTANTS c1, c2, c3

MCEndpointOf == [c \in Call |-> IF c = c3 THEN "markets" ELSE "positions"]
MCRetryAttempts == [e \in Endpoint |-> IF e = "positions" THEN 2 ELSE 0]
MCBackoff == [e \in Endpoint |-> IF e = "positions" THEN 1 ELSE 0]
MCPeriod == [e \in Endpoint |-> IF e = "positions" THEN 2 ELSE 1]
============================================================================
