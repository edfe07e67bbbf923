------------------------- MODULE CanonicalRegistry -------------------------
(***************************************************************************)
(* What the Market Registry promises to the layers around it, without      *)
(* saying how a synchronisation works: discovered conditions become        *)
(* registered markets, a discovery run is acknowledged only together with  *)
(* or after the registration of everything it found, and a token's owner   *)
(* is decided once.  MarketRegistry implements this specification.         *)
(***************************************************************************)
EXTENDS Integers

CONSTANTS Condition, Token, DiscoveryRun, NoOwner

VARIABLES
    found,         \* what every finished discovery run found
    finished,      \* the finished discovery runs
    acknowledged,  \* the discovery runs the registry has absorbed
    registered,    \* the registered conditions
    owner          \* market and outcome position of every known token

vars == <<found, finished, acknowledged, registered, owner>>

Init ==
    /\ found = [d \in DiscoveryRun |-> {}]
    /\ finished = {}
    /\ acknowledged = {}
    /\ registered = {}
    /\ owner = [t \in Token |-> NoOwner]

Known == {t \in Token : owner[t] # NoOwner}

Finish(d) ==
    /\ d \notin finished
    /\ finished' = finished \cup {d}
    /\ \E S \in SUBSET Condition : found' = [found EXCEPT ![d] = S]
    /\ UNCHANGED <<acknowledged, registered, owner>>

\* All at once: new markets with the two tokens of each, and acknowledgements.
Publish ==
    /\ acknowledged \subseteq acknowledged' /\ acknowledged' \subseteq finished
    /\ registered \subseteq registered'
    /\ \A c \in registered' \ registered : \E d \in finished : c \in found[d]
    /\ \A d \in acknowledged' : found[d] \subseteq registered'
    /\ \A t \in Known : owner'[t] = owner[t]
    /\ \A t \in Token \ Known :
          owner'[t] # NoOwner => owner'[t].condition \in registered' \ registered
    /\ \A c \in registered' \ registered : \A i \in 0..1 : \E t \in Token \ Known :
          owner'[t] # NoOwner /\ owner'[t].condition = c /\ owner'[t].index = i
    /\ \A t, u \in Token :
          /\ owner'[t] # NoOwner /\ owner'[u] # NoOwner
          /\ owner'[t].condition = owner'[u].condition /\ owner'[t].index = owner'[u].index
          => t = u
    /\ UNCHANGED <<found, finished>>

Next == Publish \/ \E d \in DiscoveryRun : Finish(d)

Spec == Init /\ [][Next]_vars
============================================================================
