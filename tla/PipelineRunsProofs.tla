------------------------ MODULE PipelineRunsProofs ------------------------
(***************************************************************************)
(* Theorems about PipelineRuns, for any number of processes, run rows and  *)
(* crashes.                                                                *)
(***************************************************************************)
EXTENDS PipelineRuns, TLAPS

USE DEF vars, ledger

(* Every variable keeps its type, whether or not lock sessions can be lost. *)
THEOREM TypeCorrect == Spec => []TypeOK
<1> USE RunLayerAssumption, SentinelAssumption, BoundAssumption
<1>1. Init => TypeOK
  BY DEF Init, TypeOK, PC, Nothing, Terminal
<1>2. TypeOK /\ [Next]_vars => TypeOK'
  <2> SUFFICES ASSUME TypeOK, [Next]_vars
               PROVE  TypeOK'
    OBVIOUS
  <2> USE DEF TypeOK, PC, Terminal, Goto, Nothing
  <2>1. ASSUME NEW p \in Process, Start(p) PROVE TypeOK'
    BY <2>1 DEF Start
  <2>2. ASSUME NEW p \in Process, RecoverRead(p) PROVE TypeOK'
    BY <2>2 DEF RecoverRead, Running
  <2>3. ASSUME NEW p \in Process, RecoverCommit(p) PROVE TypeOK'
    BY <2>3 DEF RecoverCommit, FailedLogs, SettledItems
  <2>4. ASSUME NEW p \in Process, LeaveWithoutRun(p) PROVE TypeOK'
    BY <2>4 DEF LeaveWithoutRun
  <2>5. ASSUME NEW p \in Process, NEW r \in RunId, CreateRun(p, r) PROVE TypeOK'
    BY <2>5 DEF CreateRun
  <2>6. ASSUME NEW p \in Process, StartStrategy(p) PROVE TypeOK'
    BY <2>6 DEF StartStrategy
  <2>7. ASSUME NEW p \in Process, CompleteStrategy(p) PROVE TypeOK'
    BY <2>7 DEF CompleteStrategy
  <2>8. ASSUME NEW p \in Process, SnapshotItems(p) PROVE TypeOK'
    BY <2>8 DEF SnapshotItems
  <2>9. ASSUME NEW p \in Process, CompleteDiscoveryRun(p) \/ CompleteMarketSync(p)
        PROVE  TypeOK'
    <3>1. pc' \in [Process -> PC]
      BY <2>9 DEF CompleteDiscoveryRun, CompleteMarketSync, AfterCommit
    <3> QED
      BY <2>9, <3>1 DEF CompleteDiscoveryRun, CompleteMarketSync, EndRun
  <2>10. ASSUME NEW p \in Process, CompleteCollection(p) PROVE TypeOK'
    <3>1. PICK outcome \in Terminal : EndRun(p, outcome)
      BY <2>10 DEF CompleteCollection
    <3>2. status' \in [RunId -> {"absent", "running"} \cup Terminal]
      BY <3>1 DEF EndRun
    <3>3. items' \in [RunId -> {"none", "pending", "settled"}]
      BY <2>10 DEF CompleteCollection, SettledItems
    <3>4. pc' \in [Process -> PC]
      BY <2>10 DEF CompleteCollection, AfterCommit
    <3> QED
      BY <2>10, <3>1, <3>2, <3>3, <3>4 DEF CompleteCollection, EndRun
  <2>11. ASSUME NEW p \in Process, FailRun(p) PROVE TypeOK'
    BY <2>11 DEF FailRun, EndRun, SettledItems, FailedLogs
  <2>12. ASSUME NEW p \in Process, BodyFails(p) \/ Abandon(p) PROVE TypeOK'
    BY <2>12 DEF BodyFails, Abandon
  <2>13. ASSUME NEW p \in Process, Unlock(p) PROVE TypeOK'
    BY <2>13 DEF Unlock
  <2>14. ASSUME NEW p \in Process, Crash(p) PROVE TypeOK'
    BY <2>14 DEF Crash
  <2>15. ASSUME NEW p \in Process, LoseSession(p) PROVE TypeOK'
    BY <2>15 DEF LoseSession
  <2>16. CASE ReapSession
    BY <2>16 DEF ReapSession
  <2>17. CASE UNCHANGED vars
    BY <2>17
  <2> QED
    BY <2>1, <2>2, <2>3, <2>4, <2>5, <2>6, <2>7, <2>8, <2>9, <2>10, <2>11, <2>12, <2>13,
       <2>14, <2>15, <2>16, <2>17 DEF Next, ServiceStep, Skip
<1> QED
  BY <1>1, <1>2, PTL DEF Spec

---------------------------------------------------------------------------
(* While lock sessions survive, being inside a service means holding the   *)
(* lock.                                                                   *)
LEMMA LockStep ==
    ASSUME ~SessionLoss, TypeOK, LockHeldThroughout, [Next]_vars
    PROVE  LockHeldThroughout'
<1> USE SentinelAssumption DEF TypeOK, LockHeldThroughout, Goto
<1>1. ASSUME NEW p \in Process, Start(p) PROVE LockHeldThroughout'
  BY <1>1 DEF Start
<1>2. ASSUME NEW p \in Process, ServiceStep(p), pc[p] # "unlocking"
      PROVE  LockHeldThroughout'
  <2>1. lock' = lock /\ pc[p] # "idle" /\ \E place \in PC : Goto(p, place)
    BY <1>2 DEF ServiceStep, RecoverRead, RecoverCommit, LeaveWithoutRun, CreateRun,
                StartStrategy, CompleteStrategy, CompleteDiscoveryRun,
                CompleteMarketSync, SnapshotItems, CompleteCollection, EndRun,
                AfterCommit, BodyFails, FailRun, Abandon, Unlock, Body, PC
  <2> QED
    BY <2>1
<1>3. ASSUME NEW p \in Process, Unlock(p) PROVE LockHeldThroughout'
  BY <1>3 DEF Unlock
<1>4. ASSUME NEW p \in Process, Crash(p) PROVE LockHeldThroughout'
  BY <1>4 DEF Crash
<1>5. ASSUME NEW p \in Process, LoseSession(p) PROVE LockHeldThroughout'
  BY <1>5 DEF LoseSession
<1>6. CASE ReapSession
  BY <1>6 DEF ReapSession
<1>7. CASE UNCHANGED vars
  BY <1>7
<1>8. ASSUME NEW p \in Process, ServiceStep(p), pc[p] = "unlocking" PROVE Unlock(p)
  BY <1>8 DEF ServiceStep, RecoverRead, RecoverCommit, LeaveWithoutRun, CreateRun,
              StartStrategy, CompleteStrategy, CompleteDiscoveryRun,
              CompleteMarketSync, SnapshotItems, CompleteCollection,
              BodyFails, FailRun, Abandon, Body
<1> QED
  BY <1>1, <1>2, <1>3, <1>4, <1>5, <1>6, <1>7, <1>8 DEF Next, Skip

(* The lock excludes: a service sees every other process idle.             *)
LEMMA OthersAreIdle ==
    ASSUME LockHeldThroughout, NEW p \in Process, pc[p] # "idle",
           NEW q \in Process, q # p
    PROVE  pc[q] = "idle"
BY DEF LockHeldThroughout

(* Every step keeps the ledger consistent.                                 *)
LEMMA LedgerStep ==
    ASSUME ~SessionLoss, IInv, [Next]_vars
    PROVE  LedgerInv'
<1> USE RunLayerAssumption, SentinelAssumption DEF IInv, TypeOK, PC, Goto, HasRun, Body
<1>0. TypeOK /\ LockHeldThroughout /\ LedgerInv
  OBVIOUS
<1> USE DEF LedgerInv, OwnRunIsRunning, OnlyOwnRunIsOpen, ReadIsCurrent, DetailsHaveRun,
            FinishingIsLogged, DetailsEndWithRun, Running, Terminal
<1>1. ASSUME NEW p \in Process, Start(p) PROVE LedgerInv'
  BY <1>0, <1>1 DEF Start
<1>2. ASSUME NEW p \in Process, RecoverRead(p) PROVE LedgerInv'
  BY <1>0, <1>2, OthersAreIdle DEF RecoverRead
<1>3. ASSUME NEW p \in Process, RecoverCommit(p) PROVE LedgerInv'
  <2> DEFINE open == {r \in RunId : status[r] = "running"}
  <2>1. /\ pc[p] = "recovering" /\ pc' = [pc EXCEPT ![p] = "ready"]
        /\ run' = run
        /\ \A q \in Process : q # p => pc[q] = "idle"
    BY <1>0, <1>3, OthersAreIdle DEF RecoverCommit
  <2>2. Orphans(p) = open
    BY <1>0, <2>1, RunLayerAssumption DEF Orphans, Layer
  <2>3. \A r \in RunId : status'[r] = IF r \in open THEN "failed" ELSE status[r]
    BY <1>3, <2>2 DEF RecoverCommit
  <2>4. /\ seen[p].runs = {r \in open : RunLayer[r] \in {"discovery", "orderbooks"}}
        /\ seen[p].logs = {r \in seen[p].runs : strategyLog[r] = "running"}
    BY <1>0, <2>1
  <2>5. ASSUME NEW r \in RunId
        PROVE  /\ r \in open => strategyLog'[r] # "running" /\ items'[r] # "pending"
               /\ r \notin open => strategyLog'[r] = strategyLog[r] /\ items'[r] = items[r]
               /\ strategyLog[r] = "none" => strategyLog'[r] = "none"
               /\ items[r] = "none" => items'[r] = "none"
    <3>1. strategyLog'[r] = IF r \in seen[p].logs THEN "failed" ELSE strategyLog[r]
      BY <1>3 DEF RecoverCommit, FailedLogs
    <3>2. items'[r] = IF r \in seen[p].runs /\ items[r] = "pending" THEN "settled" ELSE items[r]
      BY <1>3 DEF RecoverCommit, SettledItems
    <3>3. r \in open /\ strategyLog[r] = "running" => r \in seen[p].logs
      BY <1>0, <2>4
    <3>4. r \in open /\ items[r] = "pending" => r \in seen[p].runs
      BY <1>0, <2>4
    <3> QED
      BY <2>4, <3>1, <3>2, <3>3, <3>4
  <2>6. OwnRunIsRunning' /\ OnlyOwnRunIsOpen' /\ ReadIsCurrent' /\ FinishingIsLogged'
    BY <1>0, <2>1, <2>3
  <2>7. DetailsHaveRun'
    BY <1>0, <2>3, <2>5
  <2>8. DetailsEndWithRun'
    BY <1>0, <2>3, <2>5
  <2> QED
    BY <2>6, <2>7, <2>8
<1>4. ASSUME NEW p \in Process, LeaveWithoutRun(p) PROVE LedgerInv'
  BY <1>0, <1>4 DEF LeaveWithoutRun
<1>5. ASSUME NEW p \in Process, NEW r \in RunId, CreateRun(p, r) PROVE LedgerInv'
  BY <1>0, <1>5, OthersAreIdle DEF CreateRun
<1>6. ASSUME NEW p \in Process, StartStrategy(p) PROVE LedgerInv'
  BY <1>0, <1>6, OthersAreIdle DEF StartStrategy
<1>7. ASSUME NEW p \in Process, CompleteStrategy(p) PROVE LedgerInv'
  BY <1>0, <1>7, OthersAreIdle DEF CompleteStrategy
<1>8. ASSUME NEW p \in Process, SnapshotItems(p) PROVE LedgerInv'
  BY <1>0, <1>8, OthersAreIdle DEF SnapshotItems
<1>9. ASSUME NEW p \in Process, CompleteDiscoveryRun(p) PROVE LedgerInv'
  BY <1>0, <1>9, OthersAreIdle DEF CompleteDiscoveryRun, EndRun, AfterCommit
<1>10. ASSUME NEW p \in Process, CompleteMarketSync(p) PROVE LedgerInv'
  BY <1>0, <1>10, OthersAreIdle DEF CompleteMarketSync, EndRun, AfterCommit
<1>11. ASSUME NEW p \in Process, CompleteCollection(p) PROVE LedgerInv'
  <2>1. PICK outcome \in Terminal : EndRun(p, outcome)
    BY <1>11 DEF CompleteCollection
  <2> QED
    BY <1>0, <1>11, <2>1, OthersAreIdle DEF CompleteCollection, EndRun, AfterCommit, SettledItems
<1>12. ASSUME NEW p \in Process, BodyFails(p) PROVE LedgerInv'
  BY <1>0, <1>12 DEF BodyFails
<1>13. ASSUME NEW p \in Process, FailRun(p) PROVE LedgerInv'
  BY <1>0, <1>13, OthersAreIdle DEF FailRun, EndRun, FailedLogs, SettledItems
<1>14. ASSUME NEW p \in Process, Abandon(p) PROVE LedgerInv'
  BY <1>0, <1>14, OthersAreIdle DEF Abandon
<1>15. ASSUME NEW p \in Process, Unlock(p) PROVE LedgerInv'
  BY <1>0, <1>15 DEF Unlock
<1>16. ASSUME NEW p \in Process, Crash(p) PROVE LedgerInv'
  BY <1>0, <1>16, OthersAreIdle DEF Crash
<1>17. ASSUME NEW p \in Process, LoseSession(p) PROVE LedgerInv'
  BY <1>17 DEF LoseSession
<1>18. CASE ReapSession
  BY <1>0, <1>18 DEF ReapSession
<1>19. CASE UNCHANGED vars
  BY <1>0, <1>19
<1> QED
  BY <1>1, <1>2, <1>3, <1>4, <1>5, <1>6, <1>7, <1>8, <1>9, <1>10, <1>11, <1>12,
     <1>13, <1>14, <1>15, <1>16, <1>17, <1>18, <1>19 DEF Next, ServiceStep, Skip

LEMMA Invariance == ASSUME ~SessionLoss PROVE Spec => []IInv
<1>1. Init => IInv
  <2> SUFFICES ASSUME Init PROVE IInv
    OBVIOUS
  <2>1. TypeOK
    BY BoundAssumption DEF Init, TypeOK, PC, Nothing, Terminal
  <2>2. LockHeldThroughout /\ LedgerInv
    BY SentinelAssumption
       DEF Init, LockHeldThroughout, LedgerInv, OwnRunIsRunning, OnlyOwnRunIsOpen,
           ReadIsCurrent, DetailsHaveRun, FinishingIsLogged, DetailsEndWithRun,
           HasRun, Body, Terminal
  <2> QED
    BY <2>1, <2>2 DEF IInv
<1>2. TypeOK' /\ IInv /\ [Next]_vars => IInv'
  BY LockStep, LedgerStep DEF IInv
<1> QED
  BY <1>1, <1>2, TypeCorrect, PTL DEF Spec

(* A process inside a service holds the lock for the complete execution.   *)
THEOREM LockIsHeldThroughout ==
    ASSUME ~SessionLoss PROVE Spec => []LockHeldThroughout
<1>1. IInv => LockHeldThroughout
  BY DEF IInv
<1> QED
  BY <1>1, Invariance, PTL

(* ... so two services never have work under way at the same time.         *)
THEOREM ServicesExclude == ASSUME ~SessionLoss PROVE Spec => []NoConcurrentWriters
<1>1. IInv => NoConcurrentWriters
  BY DEF IInv, LockHeldThroughout, NoConcurrentWriters, Body
<1> QED
  BY <1>1, Invariance, PTL

(* A service past recovery finds no running row but its own.               *)
THEOREM RecoveryIsComplete == ASSUME ~SessionLoss PROVE Spec => []OnlyOwnRunIsOpen
<1>1. IInv => OnlyOwnRunIsOpen
  BY DEF IInv, LedgerInv
<1> QED
  BY <1>1, Invariance, PTL

(* The log entry and the items of a run end with the run.                  *)
THEOREM DetailsEnd == ASSUME ~SessionLoss PROVE Spec => []DetailsEndWithRun
<1>1. IInv => DetailsEndWithRun
  BY DEF IInv, LedgerInv
<1> QED
  BY <1>1, Invariance, PTL

(* Only the except clause of a run itself can change how the run ended.    *)
THEOREM OutcomesAreFinal == ASSUME ~SessionLoss PROVE Spec => OutcomeIsFinal
<1> DEFINE Final == \A r \in RunId :
                       status[r] \in Terminal /\ status'[r] # status[r] =>
                          /\ AckLoss /\ status'[r] = "failed"
                          /\ \E p \in Process : pc[p] = "failing" /\ run[p] = r
<1>1. ASSUME IInv, [Next]_vars PROVE Final
  <2> USE <1>1 DEF IInv, LedgerInv, TypeOK, Goto, HasRun, Body, Terminal
  <2>1. ASSUME NEW p \in Process, RecoverCommit(p) PROVE Final
    BY <2>1 DEF RecoverCommit, Orphans, ReadIsCurrent, Running
  <2>2. ASSUME NEW p \in Process, NEW r \in RunId, CreateRun(p, r) PROVE Final
    BY <2>2 DEF CreateRun
  <2>3. ASSUME NEW p \in Process, NEW outcome, EndRun(p, outcome),
               pc[p] \in Body \/ (pc[p] = "failing" /\ outcome = "failed")
        PROVE  Final
    BY <2>3 DEF EndRun, OwnRunIsRunning
  <2>4. ASSUME NEW p \in Process,
               CompleteDiscoveryRun(p) \/ CompleteMarketSync(p) \/ CompleteCollection(p)
                 \/ FailRun(p)
        PROVE  Final
    BY <2>3, <2>4 DEF CompleteDiscoveryRun, CompleteMarketSync, CompleteCollection, FailRun
  <2>5. CASE UNCHANGED status
    BY <2>5
  <2>6. ASSUME NEW p \in Process,
               \/ Start(p) \/ RecoverRead(p) \/ LeaveWithoutRun(p) \/ StartStrategy(p)
               \/ CompleteStrategy(p) \/ SnapshotItems(p) \/ BodyFails(p) \/ Abandon(p)
               \/ Unlock(p) \/ Crash(p) \/ LoseSession(p)
        PROVE  UNCHANGED status
    BY <2>6 DEF Start, RecoverRead, LeaveWithoutRun, StartStrategy, CompleteStrategy,
                SnapshotItems, BodyFails, Abandon, Unlock, Crash, LoseSession
  <2>7. CASE ReapSession \/ UNCHANGED vars
    BY <2>5, <2>7 DEF ReapSession
  <2> QED
    BY <2>1, <2>2, <2>4, <2>5, <2>6, <2>7 DEF Next, ServiceStep, Skip
<1>2. IInv /\ [Next]_vars => [Final]_vars
  BY <1>1
<1> QED
  BY <1>2, Invariance, PTL DEF Spec, OutcomeIsFinal

---------------------------------------------------------------------------
(* With lost lock sessions any number of services may run at once.  A      *)
(* completed registry sync stays completed all the same.                   *)
LEMMA SyncStep ==
    ASSUME TypeOK, SyncInv, [Next]_vars
    PROVE  SyncInv'
<1> USE RunLayerAssumption, SentinelAssumption
    DEF TypeOK, SyncInv, HasRun, Body, Goto, Nothing
<1>1. ASSUME NEW p \in Process, Start(p) PROVE SyncInv'
  BY <1>1 DEF Start
<1>2. ASSUME NEW p \in Process, RecoverRead(p) PROVE SyncInv'
  <2>1. \A q \in Process :
          seen'[q].runs = IF q = p THEN Running({"discovery", "orderbooks"}) ELSE seen[q].runs
    BY <1>2 DEF RecoverRead
  <2>2. \A r \in Running({"discovery", "orderbooks"}) : RunLayer[r] # "markets"
    BY DEF Running
  <2>3. \A q \in Process : \A r \in seen'[q].runs : RunLayer[r] # "markets"
    BY <2>1, <2>2
  <2> QED
    BY <1>2, <2>3 DEF RecoverRead
<1>3. ASSUME NEW p \in Process, RecoverCommit(p) PROVE SyncInv'
  <2>1. \A r \in RunId :
          /\ status'[r] = status[r] \/ status'[r] = "failed"
          /\ status[r] # "absent" => status'[r] # "absent"
    BY <1>3 DEF RecoverCommit
  <2> QED
    BY <1>3, <2>1 DEF RecoverCommit
<1>4. ASSUME NEW p \in Process, LeaveWithoutRun(p) PROVE SyncInv'
  BY <1>4 DEF LeaveWithoutRun
<1>5. ASSUME NEW p \in Process, NEW r \in RunId, CreateRun(p, r) PROVE SyncInv'
  BY <1>5 DEF CreateRun
<1>6. ASSUME NEW p \in Process, StartStrategy(p) \/ CompleteStrategy(p) \/ SnapshotItems(p)
      PROVE SyncInv'
  BY <1>6 DEF StartStrategy, CompleteStrategy, SnapshotItems
<1>7. ASSUME NEW p \in Process, NEW outcome \in Terminal, HasRun(p), EndRun(p, outcome),
             \/ Goto(p, "unlocking")
             \/ AckLoss /\ Goto(p, "failing")
      PROVE SyncInv'
  <2>1. /\ run' = run /\ seen' = seen
        /\ run[p] \in RunId /\ status[run[p]] # "absent"
        /\ \A q \in Process : q # p => pc'[q] = pc[q]
        /\ pc'[p] = "unlocking" \/ (AckLoss /\ pc'[p] = "failing")
    BY <1>7 DEF EndRun
  <2>2. \A r \in RunId : status'[r] = IF r = run[p] THEN outcome ELSE status[r]
    BY <1>7 DEF EndRun
  <2>3. \A q \in Process : HasRun(q)' => HasRun(q)
    BY <1>7, <2>1
  <2>4. \A q \in Process : HasRun(q)' => run'[q] \in RunId /\ status'[run'[q]] # "absent"
    BY <2>1, <2>2, <2>3 DEF Terminal
  <2>5. \A q \in Process : q # p /\ HasRun(q) => status'[run'[q]] = status[run[q]]
    BY <1>7, <2>1, <2>2
  <2>6. ASSUME NEW q \in Process,
               pc'[q] \in Body \/ (pc'[q] = "failing" /\ ~AckLoss),
               RunLayer[run'[q]] = "markets"
        PROVE  status'[run'[q]] # "completed"
    BY <2>1, <2>5, <2>6
  <2>7. \A q \in Process : pc'[q] = "finishing" => RunLayer[run'[q]] = "discovery"
    BY <2>1
  <2> QED
    BY <2>1, <2>3, <2>4, <2>6, <2>7
<1>8. ASSUME NEW p \in Process,
             \/ CompleteDiscoveryRun(p) \/ CompleteMarketSync(p)
             \/ CompleteCollection(p) \/ FailRun(p)
      PROVE SyncInv'
  BY <1>7, <1>8 DEF CompleteDiscoveryRun, CompleteMarketSync, CompleteCollection, FailRun,
                    Terminal, AfterCommit
<1>9. ASSUME NEW p \in Process, BodyFails(p) \/ Abandon(p) PROVE SyncInv'
  <2>1. CASE BodyFails(p)
    BY <2>1 DEF BodyFails
  <2>2. CASE Abandon(p)
    BY <2>2 DEF Abandon
  <2> QED
    BY <1>9, <2>1, <2>2
<1>10. ASSUME NEW p \in Process, Unlock(p) \/ Crash(p) PROVE SyncInv'
  <2>1. /\ pc' = [pc EXCEPT ![p] = "idle"]
        /\ run' = [run EXCEPT ![p] = NoRun]
        /\ seen' = [seen EXCEPT ![p] = Nothing]
        /\ status' = status
    BY <1>10 DEF Unlock, Crash
  <2>2. \A q \in Process : HasRun(q)' => q # p /\ HasRun(q) /\ run'[q] = run[q]
    BY <2>1
  <2>3. \A q \in Process : pc'[q] = "finishing" => q # p /\ pc[q] = "finishing"
    BY <2>1
  <2>4. \A q \in Process : seen'[q].runs \subseteq seen[q].runs
    BY <2>1
  <2> QED
    BY <2>1, <2>2, <2>3, <2>4
<1>11. CASE \/ \E p \in Process : LoseSession(p)
            \/ ReapSession
            \/ UNCHANGED vars
  BY <1>11 DEF LoseSession, ReapSession
<1> QED
  BY <1>1, <1>2, <1>3, <1>4, <1>5, <1>6, <1>8, <1>9, <1>10, <1>11 DEF Next, ServiceStep, Skip

(* A completed registry sync is never rewritten, with or without the lock. *)
THEOREM CompletedSyncsAreFinal == Spec => CompletedSyncIsFinal
<1> DEFINE Final == \A r \in RunId :
                       /\ RunLayer[r] = "markets"
                       /\ status[r] = "completed" /\ status'[r] # "completed"
                       => AckLoss /\ \E p \in Process : pc[p] = "failing" /\ run[p] = r
<1>1. Init => SyncInv
  BY DEF Init, SyncInv, HasRun, Body, Nothing
<1>2. ASSUME TypeOK, SyncInv, [Next]_vars PROVE Final
  <2> USE <1>2 DEF TypeOK, SyncInv, HasRun, Body, Goto
  <2>1. ASSUME NEW p \in Process, RecoverCommit(p) PROVE Final
    BY <2>1 DEF RecoverCommit, Orphans, Running
  <2>2. ASSUME NEW p \in Process, NEW r \in RunId, CreateRun(p, r) PROVE Final
    BY <2>2 DEF CreateRun
  <2>3. ASSUME NEW p \in Process, NEW outcome, EndRun(p, outcome),
               pc[p] \in Body \cup {"failing"}
        PROVE  Final
    BY <2>3 DEF EndRun
  <2>4. ASSUME NEW p \in Process,
               CompleteDiscoveryRun(p) \/ CompleteMarketSync(p) \/ CompleteCollection(p)
                 \/ FailRun(p)
        PROVE  Final
    BY <2>3, <2>4 DEF CompleteDiscoveryRun, CompleteMarketSync, CompleteCollection, FailRun
  <2>5. ASSUME NEW p \in Process,
               \/ Start(p) \/ RecoverRead(p) \/ LeaveWithoutRun(p) \/ StartStrategy(p)
               \/ CompleteStrategy(p) \/ SnapshotItems(p) \/ BodyFails(p) \/ Abandon(p)
               \/ Unlock(p) \/ Crash(p) \/ LoseSession(p)
        PROVE  UNCHANGED status
    BY <2>5 DEF Start, RecoverRead, LeaveWithoutRun, StartStrategy, CompleteStrategy,
                SnapshotItems, BodyFails, Abandon, Unlock, Crash, LoseSession
  <2>6. CASE ReapSession \/ UNCHANGED vars
    BY <2>6 DEF ReapSession
  <2> QED
    BY <2>1, <2>2, <2>4, <2>5, <2>6 DEF Next, ServiceStep, Skip
<1>3. SyncInv /\ TypeOK /\ [Next]_vars => SyncInv'
  BY SyncStep
<1>4. TypeOK /\ SyncInv /\ [Next]_vars => [Final]_vars
  BY <1>2
<1> QED
  BY <1>1, <1>3, <1>4, TypeCorrect, PTL DEF Spec, CompletedSyncIsFinal
===========================================================================
