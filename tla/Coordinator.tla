---------------------------- MODULE Coordinator ----------------------------
(***************************************************************************)
(* The scheduler of pipeline/coordinator.py as "schedule" runs it: a       *)
(* bootstrap cycle, then a cycle whenever the deadline of a layer passes.  *)
(* A cycle runs the due layers in order; a completed layer cascades into   *)
(* the next one.  A layer takes any time, ends in any way its service can  *)
(* end, and the orderbook layer first judges the age of the registry.      *)
(*                                                                         *)
(* Time is one clock in whole units.  Work and oversleeping let it run on; *)
(* other processes may synchronise the registry between two layers.        *)
(***************************************************************************)
EXTENDS Integers, FiniteSets

CONSTANTS
    DiscoveryInterval, MarketsInterval, OrderbooksInterval,
    Never,    \* no registry synchronisation has ever completed
    MaxTime   \* bound on the clock

Layer == {"discovery", "markets", "orderbooks"}

Interval ==
    [l \in Layer |-> CASE l = "discovery" -> DiscoveryInterval
                       [] l = "markets" -> MarketsInterval
                       [] l = "orderbooks" -> OrderbooksInterval]

ASSUME IntervalAssumption ==
    /\ DiscoveryInterval \in Nat \ {0}
    /\ MarketsInterval \in Nat \ {0}
    /\ OrderbooksInterval \in Nat \ {0}
ASSUME TimeAssumption == MaxTime \in Nat /\ Never \notin Int

VARIABLES
    clock,
    pc,           \* "sleeping", the layer to run next, "collecting" or "ended"
    started,      \* when the bootstrap cycle was over
    deadline,     \* next deadline of every layer
    due,          \* layers of this cycle that have not run yet
    trigger,      \* why each layer of this cycle runs
    generatedAt,  \* when this cycle began
    outcome,      \* how each layer of this cycle ended
    syncedAt,     \* when the last completed registry synchronisation finished
    served        \* number of the deadline a layer was last scheduled for

vars == <<clock, pc, started, deadline, due, trigger, generatedAt, outcome, syncedAt, served>>
schedule == <<started, deadline, served>>

Outcome == {"completed", "partial", "failed", "skipped", "error"}
Trigger == {"bootstrap", "scheduled", "cascade"}

TypeOK ==
    /\ clock \in 0..MaxTime
    /\ pc \in Layer \cup {"sleeping", "collecting", "ended"}
    /\ started \in 0..MaxTime \cup {Never}
    /\ deadline \in [Layer -> Nat]
    /\ due \subseteq Layer
    /\ trigger \in [Layer -> Trigger \cup {"none"}]
    /\ generatedAt \in 0..MaxTime
    /\ outcome \in [Layer -> Outcome \cup {"none"}]
    /\ syncedAt \in 0..MaxTime \cup {Never}
    /\ served \in [Layer -> Nat]

\* run_forever starts with the bootstrap cycle; an earlier process may have
\* left a registry behind.
Init ==
    /\ clock = 0
    /\ pc = "discovery"
    /\ started = Never
    /\ deadline = [l \in Layer |-> 0]
    /\ due = Layer
    /\ trigger = [l \in Layer |-> "bootstrap"]
    /\ generatedAt = 0
    /\ outcome = [l \in Layer |-> "none"]
    /\ syncedAt \in {0, Never}
    /\ served = [l \in Layer |-> 0]

Tick ==
    /\ clock < MaxTime
    /\ clock' = clock + 1
    /\ UNCHANGED <<pc, schedule, due, trigger, generatedAt, outcome, syncedAt>>

\* Another process completes a registry synchronisation; it needs the pipeline
\* lock, so no layer of this process is at work.
ManualSync ==
    /\ pc # "collecting"
    /\ syncedAt' = clock
    /\ UNCHANGED <<clock, pc, schedule, due, trigger, generatedAt, outcome>>

---------------------------------------------------------------------------
(* run_forever.                                                            *)

\* Mutant: the next deadline is counted from now.
DriftingDeadline(l) == clock + Interval[l]

\* Mutant: the next deadline is the one after the missed one.
CatchUpDeadline(l) == deadline[l] + Interval[l]

NextDeadline(l) ==
    deadline[l] + ((clock - deadline[l]) \div Interval[l] + 1) * Interval[l]

Due == {l \in Layer : deadline[l] <= clock}

\* The number of the latest deadline of a layer that has passed.
Passed(l) == (clock - started) \div Interval[l]

Wake ==
    /\ pc = "sleeping"
    /\ Due # {}
    /\ deadline' = [l \in Layer |-> IF l \in Due THEN NextDeadline(l) ELSE deadline[l]]
    /\ served' = [l \in Layer |-> IF l \in Due THEN Passed(l) ELSE served[l]]
    /\ due' = Due
    /\ trigger' = [l \in Layer |-> IF l \in Due THEN "scheduled" ELSE "none"]
    /\ generatedAt' = clock
    /\ outcome' = [l \in Layer |-> "none"]
    /\ pc' = "discovery"
    /\ UNCHANGED <<clock, started, syncedAt>>

\* The first deadlines are set when the bootstrap cycle is over.
EndCycle ==
    /\ pc = "ended"
    /\ IF started = Never
       THEN /\ started' = clock
            /\ deadline' = [l \in Layer |-> clock + Interval[l]]
       ELSE UNCHANGED <<started, deadline>>
    /\ pc' = "sleeping"
    /\ UNCHANGED <<clock, due, trigger, generatedAt, outcome, syncedAt, served>>

---------------------------------------------------------------------------
(* _run_cycle and _run_layer.                                              *)

Successor == [discovery |-> "markets", markets |-> "orderbooks", orderbooks |-> "ended"]

NotDue ==
    /\ pc \in Layer
    /\ pc \notin due
    /\ pc' = Successor[pc]
    /\ UNCHANGED <<clock, schedule, due, trigger, generatedAt, outcome, syncedAt>>

\* Mutant: the last layer has a successor, too.
CascadeFromLast(l, result) == IF result = "completed" THEN {Successor[l]} ELSE {}

\* The layers a result adds to the cycle.
Cascade(l, result) ==
    IF result = "completed" /\ Successor[l] \in Layer THEN {Successor[l]} ELSE {}

\* Mutant: an exception ends the cycle.
EndLayerAborting(l, result) ==
    /\ outcome' = [outcome EXCEPT ![l] = result]
    /\ IF result = "error"
       THEN due' = {} /\ trigger' = trigger /\ pc' = "ended"
       ELSE /\ due' = (due \ {l}) \cup Cascade(l, result)
            /\ trigger' = [m \in Layer |->
                             IF m \in Cascade(l, result) \ due THEN "cascade" ELSE trigger[m]]
            /\ pc' = Successor[l]

\* A layer's exception is an error of the cycle, which goes on.
EndLayer(l, result) ==
    /\ outcome' = [outcome EXCEPT ![l] = result]
    /\ due' = (due \ {l}) \cup Cascade(l, result)
    /\ trigger' = [m \in Layer |->
                     IF m \in Cascade(l, result) \ due THEN "cascade" ELSE trigger[m]]
    /\ pc' = Successor[l]

RunDiscovery ==
    /\ pc = "discovery" /\ pc \in due
    /\ \E result \in {"completed", "skipped", "error"} : EndLayer("discovery", result)
    /\ UNCHANGED <<clock, schedule, generatedAt, syncedAt>>

RunMarkets ==
    /\ pc = "markets" /\ pc \in due
    /\ \E result \in {"completed", "skipped", "error"} :
          /\ EndLayer("markets", result)
          /\ syncedAt' = IF result = "completed" THEN clock ELSE syncedAt
    /\ UNCHANGED <<clock, schedule, generatedAt>>

\* cli.py gives scheduled collections twice the interval.
RegistryMaxAge == 2 * MarketsInterval

\* Mutant: a registry younger than the cycle is refused, too.
StaleUnlessOlder ==
    syncedAt = Never \/ generatedAt - syncedAt > RegistryMaxAge \/ syncedAt > generatedAt

\* The age is counted at the begin of the cycle, the started_at of every layer.
Stale == syncedAt = Never \/ generatedAt - syncedAt > RegistryMaxAge

\* Stale, locked or nothing to collect: "skipped"; or recovery raises.
SkipOrderbooks ==
    /\ pc = "orderbooks" /\ pc \in due
    /\ \/ EndLayer("orderbooks", "skipped")
       \/ EndLayer("orderbooks", "error")
    /\ UNCHANGED <<clock, schedule, generatedAt, syncedAt>>

Collect ==
    /\ pc = "orderbooks" /\ pc \in due
    /\ ~Stale
    /\ pc' = "collecting"
    /\ UNCHANGED <<clock, schedule, due, trigger, generatedAt, outcome, syncedAt>>

EndCollection ==
    /\ pc = "collecting"
    /\ \E result \in {"completed", "partial", "failed", "error"} :
          EndLayer("orderbooks", result)
    /\ UNCHANGED <<clock, schedule, generatedAt, syncedAt>>

---------------------------------------------------------------------------
Step ==
    \/ Wake \/ EndCycle \/ NotDue
    \/ RunDiscovery \/ RunMarkets
    \/ SkipOrderbooks \/ Collect \/ EndCollection

Next == Tick \/ ManualSync \/ Step

\* The event loop runs whatever it can run.
Spec == Init /\ [][Next]_vars /\ WF_vars(Step)

---------------------------------------------------------------------------
(* Properties.                                                             *)

\* README.md:94: "Missed ticks are coalesced into one run instead of producing
\* catch-up bursts."  A scheduled run answers a deadline no earlier run of its
\* layer has answered, and leaves no passed deadline behind.
MissedTicksAreCoalesced ==
    [][Wake => \A l \in due' : served'[l] > served[l] /\ deadline'[l] > clock]_vars

\* README.md:92-94: deadlines are fixed.  However long cycles take and whatever
\* cascades, the next deadline of a layer is a whole number of intervals after
\* the bootstrap, and it is the one that follows the last one answered.
DeadlinesAreFixed ==
    started # Never =>
        \A l \in Layer : deadline[l] = started + (served[l] + 1) * Interval[l]

\* A layer that is due when its layer upstream fails still runs, and so does
\* a layer whose deadline has passed.
DueLayersRun ==
    \A l \in Layer :
        /\ l \in due ~> outcome[l] # "none"
        /\ started # Never /\ deadline[l] <= clock ~> outcome[l] # "none" /\ trigger[l] = "scheduled"

\* A cycle that has just synchronised the registry is not refused as stale,
\* though the synchronisation finished after the time its age is counted to.
FreshAfterSync ==
    pc = "orderbooks" /\ outcome["markets"] = "completed" => "orderbooks" \in due /\ ~Stale

\* README.md:99: "For scheduled runs, the last completed registry sync may be at
\* most twice the configured Markets interval old before Orderbook collection is
\* skipped."  The age when the collection begins.
CollectsFromFreshRegistry ==
    [][Collect => clock - syncedAt <= 2 * MarketsInterval]_vars

---------------------------------------------------------------------------
(* Inductive invariants of the theorems in CoordinatorProofs.              *)

\* The scheduler does not sleep, and answers no deadline, before the bootstrap
\* cycle is over.
ScheduleInv ==
    /\ DeadlinesAreFixed
    /\ started = Never => \A l \in Layer : served[l] = 0
    /\ started # Never => started <= clock
    /\ pc = "sleeping" => started # Never

\* A registry synchronised in this cycle is not older than the cycle, and its
\* cascade waits for the orderbook layer.
CycleInv ==
    /\ generatedAt <= clock
    /\ pc \in {"discovery", "markets"} => outcome["markets"] = "none"
    /\ outcome["markets"] = "completed" =>
          /\ syncedAt # Never /\ generatedAt <= syncedAt
          /\ pc = "orderbooks" => "orderbooks" \in due
===========================================================================
