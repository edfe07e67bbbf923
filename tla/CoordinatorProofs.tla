------------------------- MODULE CoordinatorProofs -------------------------
(***************************************************************************)
(* Theorems about Coordinator, for all intervals and any horizon.          *)
(***************************************************************************)
EXTENDS Coordinator, TLAPS

(* Whole intervals: what \div gives, and that it is determined by it.       *)
LEMMA Quotient ==
    ASSUME NEW a \in Nat, NEW n \in Nat \ {0}
    PROVE  /\ a \div n \in Nat
           /\ (a \div n) * n <= a
           /\ a < (a \div n + 1) * n
OBVIOUS

LEMMA QuotientIsUnique ==
    ASSUME NEW a \in Nat, NEW n \in Nat \ {0}, NEW q \in Nat,
           q * n <= a, a < (q + 1) * n
    PROVE  a \div n = q
OBVIOUS

(* Leaving out k whole intervals takes k from the quotient.                 *)
LEMMA QuotientShift ==
    ASSUME NEW a \in Nat, NEW n \in Nat \ {0}, NEW k \in Nat, k * n <= a
    PROVE  /\ k <= a \div n
           /\ (a - k * n) \div n = a \div n - k
OBVIOUS

---------------------------------------------------------------------------
LEMMA Intervals == \A l \in Layer : Interval[l] \in Nat \ {0}
BY IntervalAssumption DEF Interval, Layer

(* A wake-up answers the latest deadline that has passed, which is a later  *)
(* one than the last that was answered, and sets the one after it.          *)
LEMMA WakeSetsNext ==
    ASSUME TypeOK, ScheduleInv, pc = "sleeping", NEW l \in Due
    PROVE  /\ Passed(l) \in Nat /\ Passed(l) > served[l]
           /\ NextDeadline(l) = started + (Passed(l) + 1) * Interval[l]
           /\ NextDeadline(l) \in Nat /\ NextDeadline(l) > clock
<1> DEFINE a == clock - started
           n == Interval[l]
           k == served[l] + 1
<1>1. l \in Layer /\ n \in Nat \ {0} /\ k \in Nat /\ deadline[l] <= clock
  BY Intervals DEF Due, TypeOK
<1>2. clock \in Nat /\ started \in Nat /\ started <= clock
  BY TimeAssumption DEF TypeOK, ScheduleInv
<1>3. deadline[l] = started + k * n
  BY <1>1, <1>2, TimeAssumption DEF ScheduleInv, DeadlinesAreFixed
<1>4. a \in Nat
  BY <1>2
<1>5. k * n \in Nat
  BY <1>1
<1>6. k * n <= a
  BY ONLY <1>1, <1>2, <1>3, <1>5, TypeOK DEF TypeOK
<1>7. clock - deadline[l] = a - k * n
  BY ONLY <1>2, <1>3, <1>5
<1> HIDE DEF a, n, k
<1>8. a \div n \in Nat /\ k <= a \div n /\ (a - k * n) \div n = a \div n - k
  BY <1>1, <1>4, <1>6, Quotient, QuotientShift
<1>9. a < (a \div n + 1) * n
  BY <1>1, <1>4, Quotient
<1>10. k * n + (a \div n - k + 1) * n = (a \div n + 1) * n
  BY <1>1, <1>8
<1>11. Passed(l) = a \div n
  BY DEF Passed, a, n
<1>12. NextDeadline(l) = started + k * n + (a \div n - k + 1) * n
  BY <1>3, <1>7, <1>8 DEF NextDeadline, n
<1>13. (a \div n - k + 1) * n \in Int /\ (a \div n + 1) * n \in Nat
  BY <1>1, <1>8
<1>14. NextDeadline(l) = started + (a \div n + 1) * n
  BY <1>2, <1>5, <1>10, <1>12, <1>13 DEF k, n
<1>15. NextDeadline(l) \in Nat /\ NextDeadline(l) > clock
  BY <1>2, <1>9, <1>13, <1>14 DEF a
<1>16. served[l] \in Nat /\ k = served[l] + 1
  BY <1>1 DEF TypeOK, k
<1> QED
  BY <1>8, <1>11, <1>14, <1>15, <1>16 DEF n

(* What the end of a layer leaves: types, and where the cycle goes on.      *)
LEMMA EndLayerEffect ==
    ASSUME TypeOK, NEW l \in Layer, NEW result \in Outcome, EndLayer(l, result)
    PROVE  /\ outcome' \in [Layer -> Outcome \cup {"none"}]
           /\ due' \subseteq Layer
           /\ trigger' \in [Layer -> Trigger \cup {"none"}]
           /\ pc' = Successor[l] /\ pc' \in {"markets", "orderbooks", "ended"}
           /\ l # "markets" => outcome'["markets"] = outcome["markets"]
           /\ l = "markets" => outcome'["markets"] = result
           /\ l = "markets" /\ result = "completed" => "orderbooks" \in due'
<1> USE DEF TypeOK
<1>1. Successor[l] \in {"markets", "orderbooks", "ended"} /\ pc' = Successor[l]
  BY DEF EndLayer, Successor, Layer
<1>2. Cascade(l, result) \subseteq Layer
  BY DEF Cascade
<1>3. outcome' = [outcome EXCEPT ![l] = result] /\ "markets" \in Layer
  BY DEF EndLayer, Layer
<1>4. due' \subseteq Layer
  BY <1>2 DEF EndLayer
<1>5. trigger' \in [Layer -> Trigger \cup {"none"}]
  BY DEF EndLayer, Trigger
<1>6. l = "markets" /\ result = "completed" => "orderbooks" \in due'
  BY DEF EndLayer, Cascade, Successor, Layer
<1> QED
  BY <1>1, <1>3, <1>4, <1>5, <1>6

LEMMA TypeStep ==
    ASSUME TypeOK, ScheduleInv, [Next]_vars
    PROVE  TypeOK'
<1> USE TimeAssumption DEF TypeOK, schedule
<1>1. CASE Tick \/ ManualSync
  BY <1>1 DEF Tick, ManualSync
<1>2. CASE Wake
  <2>1. \A l \in Due : l \in Layer /\ NextDeadline(l) \in Nat /\ Passed(l) \in Nat
    BY <1>2, WakeSetsNext DEF Wake, Due
  <2>2. deadline' \in [Layer -> Nat] /\ served' \in [Layer -> Nat]
    BY <1>2, <2>1 DEF Wake
  <2> QED
    BY <1>2, <2>1, <2>2 DEF Wake, Due, Trigger, Layer
<1>3. CASE EndCycle
  <2>1. \A l \in Layer : clock + Interval[l] \in Nat
    BY Intervals
  <2> QED
    BY <1>3, <2>1 DEF EndCycle
<1>4. CASE NotDue
  BY <1>4 DEF NotDue, Successor, Layer
<1>5. CASE RunDiscovery
  <2>1. PICK result \in {"completed", "skipped", "error"} : EndLayer("discovery", result)
    BY <1>5 DEF RunDiscovery
  <2> QED
    BY <1>5, <2>1, EndLayerEffect DEF RunDiscovery, Layer, Outcome
<1>6. CASE RunMarkets
  <2>1. PICK result \in {"completed", "skipped", "error"} : EndLayer("markets", result)
    BY <1>6 DEF RunMarkets
  <2> QED
    BY <1>6, <2>1, EndLayerEffect DEF RunMarkets, Layer, Outcome
<1>7. CASE SkipOrderbooks \/ EndCollection
  <2>1. PICK result \in Outcome : EndLayer("orderbooks", result)
    BY <1>7 DEF SkipOrderbooks, EndCollection, Outcome
  <2> QED
    BY <1>7, <2>1, EndLayerEffect DEF SkipOrderbooks, EndCollection, Layer
<1>8. CASE Collect \/ UNCHANGED vars
  BY <1>8 DEF Collect, vars
<1> QED
  BY <1>1, <1>2, <1>3, <1>4, <1>5, <1>6, <1>7, <1>8 DEF Next, Step

LEMMA ScheduleStep ==
    ASSUME TypeOK, ScheduleInv, [Next]_vars
    PROVE  ScheduleInv'
<1> USE TimeAssumption DEF ScheduleInv, DeadlinesAreFixed, schedule
<1>1. CASE Wake
  <2>1. started \in Nat /\ UNCHANGED <<clock, started>> /\ pc' = "discovery" /\ started # Never
    BY <1>1 DEF Wake, TypeOK
  <2>2. ASSUME NEW l \in Layer
        PROVE  deadline'[l] = started + (served'[l] + 1) * Interval[l]
    <3>1. CASE l \in Due
      BY <1>1, <3>1, WakeSetsNext DEF Wake
    <3>2. CASE l \notin Due
      BY <1>1, <2>1, <3>2 DEF Wake
    <3> QED
      BY <3>1, <3>2
  <2> QED
    BY <2>1, <2>2
<1>2. CASE EndCycle
  <2>1. CASE started = Never
    <3>1. \A l \in Layer : (served[l] + 1) * Interval[l] = Interval[l]
      BY <2>1, Intervals
    <3> QED
      BY <1>2, <2>1, <3>1 DEF EndCycle, TypeOK
  <2>2. CASE started # Never
    BY <1>2, <2>2 DEF EndCycle
  <2> QED
    BY <2>1, <2>2
<1>3. CASE Tick \/ ManualSync \/ UNCHANGED vars
  BY <1>3 DEF Tick, ManualSync, vars, TypeOK
<1>4. CASE \/ NotDue \/ RunDiscovery \/ RunMarkets
           \/ SkipOrderbooks \/ Collect \/ EndCollection
  <2>1. UNCHANGED <<clock, started, deadline, served>> /\ pc' # "sleeping"
    BY <1>4 DEF NotDue, RunDiscovery, RunMarkets, SkipOrderbooks, Collect, EndCollection,
                EndLayer, Successor, Layer
  <2> QED
    BY <2>1
<1> QED
  BY <1>1, <1>2, <1>3, <1>4 DEF Next, Step

LEMMA Scheduling == Spec => [](TypeOK /\ ScheduleInv)
<1>1. Init => TypeOK /\ ScheduleInv
  <2> SUFFICES ASSUME Init PROVE TypeOK /\ ScheduleInv
    OBVIOUS
  <2>1. TypeOK
    BY TimeAssumption DEF Init, TypeOK, Trigger, Layer
  <2>2. ScheduleInv
    BY DEF Init, ScheduleInv, DeadlinesAreFixed
  <2> QED
    BY <2>1, <2>2
<1>2. TypeOK /\ ScheduleInv /\ [Next]_vars => (TypeOK /\ ScheduleInv)'
  BY TypeStep, ScheduleStep
<1> QED
  BY <1>1, <1>2, PTL DEF Spec

(* Every variable keeps its type, for every horizon.                        *)
THEOREM TypeCorrect == Spec => []TypeOK
BY Scheduling, PTL

(* However long cycles take and whatever cascades, the deadlines of a layer *)
(* stay whole intervals after the bootstrap: no cycle makes them drift.     *)
THEOREM DeadlinesStayFixed == Spec => []DeadlinesAreFixed
<1>1. ScheduleInv => DeadlinesAreFixed
  BY DEF ScheduleInv
<1> QED
  BY <1>1, Scheduling, PTL

(* A wake-up answers a deadline nobody has answered, once, however many     *)
(* have passed, and leaves no passed deadline behind.                       *)
THEOREM TicksAreCoalesced == Spec => MissedTicksAreCoalesced
<1> DEFINE Coalesced ==
              Wake => \A l \in due' : served'[l] > served[l] /\ deadline'[l] > clock
<1>1. TypeOK /\ ScheduleInv => Coalesced
  <2> SUFFICES ASSUME TypeOK, ScheduleInv, Wake, NEW l \in due'
               PROVE  served'[l] > served[l] /\ deadline'[l] > clock
    OBVIOUS
  <2>1. l \in Due /\ l \in Layer /\ pc = "sleeping"
    BY DEF Wake, Due
  <2>2. served'[l] = Passed(l) /\ deadline'[l] = NextDeadline(l)
    BY <2>1 DEF Wake
  <2> QED
    BY <2>1, <2>2, WakeSetsNext
<1>2. TypeOK /\ ScheduleInv /\ [Next]_vars => [Coalesced]_vars
  BY <1>1
<1> QED
  BY <1>2, Scheduling, PTL DEF Spec, MissedTicksAreCoalesced

---------------------------------------------------------------------------
LEMMA CycleStep ==
    ASSUME TypeOK, CycleInv, [Next]_vars
    PROVE  CycleInv'
<1> USE TimeAssumption DEF CycleInv, schedule
<1>1. CASE Tick \/ ManualSync \/ UNCHANGED vars
  BY <1>1 DEF Tick, ManualSync, vars, TypeOK
<1>2. CASE Wake
  <2>1. outcome'["markets"] = "none" /\ generatedAt' = clock /\ clock' = clock
    BY <1>2 DEF Wake, Layer
  <2> QED
    BY <2>1 DEF TypeOK
<1>3. CASE EndCycle \/ Collect
  BY <1>3 DEF EndCycle, Collect
<1>4. CASE NotDue
  <2>1. UNCHANGED <<clock, generatedAt, outcome, syncedAt, due>>
        /\ pc' = Successor[pc] /\ pc \in Layer
    BY <1>4 DEF NotDue
  <2>2. pc' \in {"discovery", "markets"} => pc = "discovery"
    BY <2>1 DEF Successor, Layer
  <2>3. pc' = "orderbooks" => pc = "markets"
    BY <2>1 DEF Successor, Layer
  <2> QED
    BY <2>1, <2>2, <2>3
<1>5. CASE RunDiscovery
  <2>1. PICK result \in {"completed", "skipped", "error"} : EndLayer("discovery", result)
    BY <1>5 DEF RunDiscovery
  <2>2. pc' = "markets" /\ outcome'["markets"] = "none"
    BY <1>5, <2>1, EndLayerEffect DEF RunDiscovery, Layer, Outcome, Successor
  <2> QED
    BY <1>5, <2>2 DEF RunDiscovery
<1>6. CASE RunMarkets
  <2>1. PICK result \in {"completed", "skipped", "error"} :
           /\ EndLayer("markets", result)
           /\ syncedAt' = IF result = "completed" THEN clock ELSE syncedAt
    BY <1>6 DEF RunMarkets
  <2>2. /\ pc' = "orderbooks" /\ outcome'["markets"] = result
        /\ result = "completed" => "orderbooks" \in due'
    BY <2>1, EndLayerEffect DEF Layer, Outcome, Successor
  <2>3. clock \in Nat /\ clock # Never
    BY DEF TypeOK
  <2> QED
    BY <1>6, <2>1, <2>2, <2>3 DEF RunMarkets
<1>7. CASE SkipOrderbooks \/ EndCollection
  <2>1. PICK result \in Outcome : EndLayer("orderbooks", result)
    BY <1>7 DEF SkipOrderbooks, EndCollection, Outcome
  <2>2. pc' = "ended" /\ outcome'["markets"] = outcome["markets"]
    BY <2>1, EndLayerEffect DEF Layer, Successor
  <2> QED
    BY <1>7, <2>2 DEF SkipOrderbooks, EndCollection
<1> QED
  BY <1>1, <1>2, <1>3, <1>4, <1>5, <1>6, <1>7 DEF Next, Step

(* A cycle that has just synchronised the registry goes on to the books and *)
(* does not find the registry stale, whatever the intervals are.            *)
THEOREM SyncedCyclesCollect == Spec => []FreshAfterSync
<1>1. Init => CycleInv
  BY DEF Init, CycleInv, Layer
<1>2. TypeOK /\ CycleInv => FreshAfterSync
  <2> SUFFICES ASSUME TypeOK, CycleInv, pc = "orderbooks", outcome["markets"] = "completed"
               PROVE  "orderbooks" \in due /\ ~Stale
    BY DEF FreshAfterSync
  <2>1. /\ syncedAt # Never /\ generatedAt <= syncedAt /\ "orderbooks" \in due
        /\ syncedAt \in Nat /\ generatedAt \in Nat
    BY TimeAssumption DEF CycleInv, TypeOK
  <2>2. 2 * MarketsInterval \in Nat
    BY IntervalAssumption
  <2> QED
    BY <2>1, <2>2 DEF Stale, RegistryMaxAge
<1> QED
  BY <1>1, <1>2, CycleStep, TypeCorrect, PTL DEF Spec
=============================================================================
