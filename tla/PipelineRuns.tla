--------------------------- MODULE PipelineRuns ---------------------------
(***************************************************************************)
(* The pipeline lock, the run ledger of the three layers and the recovery  *)
(* of orphaned runs: what core/db/lock.py, core/db/recovery.py and the     *)
(* run() methods of the three services do to the shared database when any  *)
(* number of operating-system processes run them side by side.             *)
(*                                                                         *)
(* The rows of the three run tables are one ledger indexed by run id; a    *)
(* run id carries its layer as a suffix, so the tables never share an id.  *)
(* What a run computes (observations, registry rows, books) is modelled in *)
(* MarketRegistry and OrderbookCollection; here a run is its status, the   *)
(* state of its strategy log entry and the state of its collection items.  *)
(* STRATEGY_FACTORIES registers one strategy, so a discovery run has at    *)
(* most one log entry.                                                     *)
(***************************************************************************)
EXTENDS Naturals

CONSTANTS
    Process,      \* processes that run a service: CLI calls and schedulers
    RunId,        \* primary keys of the three run tables
    RunLayer,     \* the layer a run id's suffix names
    NoRun,        \* the process has not created a row
    Free, Dead,   \* the lock is free; it is kept by the session of a dead process
    SessionLoss,  \* whether the server may drop a lock session under a live service
    AckLoss,      \* whether a commit may take effect and still raise in the service
    MaxCrashes    \* bound on the number of crashes

Layer == {"discovery", "markets", "orderbooks"}

ASSUME RunLayerAssumption == RunLayer \in [RunId -> Layer]
ASSUME SentinelAssumption ==
    /\ NoRun \notin RunId
    /\ Free \notin Process /\ Dead \notin Process /\ Free # Dead
ASSUME BoundAssumption == SessionLoss \in BOOLEAN /\ AckLoss \in BOOLEAN /\ MaxCrashes \in Nat

VARIABLES
    lock,         \* holder of the advisory lock
    pc,           \* where each process stands in a service's run()
    run,          \* the run row the process created
    seen,         \* what recovery read before it writes
    status,       \* the status column of every run row
    strategyLog,  \* status of the strategy_log entry of every discovery run
    items,        \* status of the collection items of every orderbook run
    crashes

vars == <<lock, pc, run, seen, status, strategyLog, items, crashes>>
ledger == <<status, strategyLog, items>>

Terminal == {"completed", "partial", "failed"}
PC == {"idle", "locked", "recovering", "ready",
       "created", "working", "finishing", "failing", "unlocking"}
Body == {"created", "working", "finishing"}
Nothing == [runs |-> {}, logs |-> {}]

\* StrategyExecutionLogEntry only knows these three statuses.
TypeOK ==
    /\ lock \in Process \cup {Free, Dead}
    /\ pc \in [Process -> PC]
    /\ run \in [Process -> RunId \cup {NoRun}]
    /\ seen \in [Process -> [runs : SUBSET RunId, logs : SUBSET RunId]]
    /\ status \in [RunId -> {"absent", "running"} \cup Terminal]
    /\ strategyLog \in [RunId -> {"none", "running", "completed", "failed"}]
    /\ items \in [RunId -> {"none", "pending", "settled"}]
    /\ crashes \in 0..MaxCrashes

Init ==
    /\ lock = Free
    /\ pc = [p \in Process |-> "idle"]
    /\ run = [p \in Process |-> NoRun]
    /\ seen = [p \in Process |-> Nothing]
    /\ status = [r \in RunId |-> "absent"]
    /\ strategyLog = [r \in RunId |-> "none"]
    /\ items = [r \in RunId |-> "none"]
    /\ crashes = 0

Goto(p, place) == pc' = [pc EXCEPT ![p] = place]

---------------------------------------------------------------------------
(* The lock.                                                               *)

\* Mutant: the result of pg_try_advisory_lock is not looked at.
StartUnchecked(p) ==
    /\ pc[p] = "idle"
    /\ lock' = p
    /\ Goto(p, "locked")
    /\ UNCHANGED <<run, seen, ledger, crashes>>

Start(p) ==
    /\ pc[p] = "idle"
    /\ lock = Free
    /\ lock' = p
    /\ Goto(p, "locked")
    /\ UNCHANGED <<run, seen, ledger, crashes>>

\* The lock is taken: "skipped", for the reason "pipeline_locked".
Skip(p) ==
    /\ pc[p] = "idle"
    /\ lock # Free
    /\ UNCHANGED vars

\* pg_advisory_unlock on a session that no longer holds the lock only warns.
Unlock(p) ==
    /\ pc[p] = "unlocking"
    /\ lock' = IF lock = p THEN Free ELSE lock
    /\ run' = [run EXCEPT ![p] = NoRun]
    /\ seen' = [seen EXCEPT ![p] = Nothing]
    /\ Goto(p, "idle")
    /\ UNCHANGED <<ledger, crashes>>

---------------------------------------------------------------------------
(* recover_orphaned_runs: one transaction that reads the running discovery *)
(* and orderbook rows and later writes to the rows it read, whatever they  *)
(* hold by then.  The running market rows are failed by one conditional    *)
(* UPDATE.  The two SELECTs are one action.                                *)

Running(layers) == {r \in RunId : status[r] = "running" /\ RunLayer[r] \in layers}

\* Mutant: market rows are loaded and written back like the other two.
RecoverReadAll(p) ==
    /\ pc[p] = "locked"
    /\ LET runs == Running(Layer)
       IN  seen' = [seen EXCEPT ![p] =
                      [runs |-> runs,
                       logs |-> {r \in runs : strategyLog[r] = "running"}]]
    /\ Goto(p, "recovering")
    /\ UNCHANGED <<lock, run, ledger, crashes>>

RecoverRead(p) ==
    /\ pc[p] = "locked"
    /\ LET runs == Running({"discovery", "orderbooks"})
       IN  seen' = [seen EXCEPT ![p] =
                      [runs |-> runs,
                       logs |-> {r \in runs : strategyLog[r] = "running"}]]
    /\ Goto(p, "recovering")
    /\ UNCHANGED <<lock, run, ledger, crashes>>

\* Rows the commit of recovery fails.
\* Mutant: the UPDATE of the market rows has no condition on the status.
OrphansUnconditional(p) ==
    seen[p].runs \cup {r \in RunId : RunLayer[r] = "markets" /\ status[r] # "absent"}

\* Mutant: only the layers whose rows recovery loads are recovered.
OrphansWithoutMarkets(p) == seen[p].runs

Orphans(p) == seen[p].runs \cup Running({"markets"})

\* Mutant: the run row is failed but its pending items are left as they are.
ItemsKept(S) == items

\* Pending items of the runs in S get the status "failed".
SettledItems(S) ==
    [r \in RunId |-> IF r \in S /\ items[r] = "pending" THEN "settled" ELSE items[r]]

\* Mutant: the log entry gets a status of its own, "orphaned".
OrphanedLogs(S) ==
    [r \in RunId |-> IF r \in S THEN "orphaned" ELSE strategyLog[r]]

FailedLogs(S) ==
    [r \in RunId |-> IF r \in S THEN "failed" ELSE strategyLog[r]]

RecoverCommit(p) ==
    /\ pc[p] = "recovering"
    /\ status' = [r \in RunId |-> IF r \in Orphans(p) THEN "failed" ELSE status[r]]
    /\ strategyLog' = FailedLogs(seen[p].logs)
    /\ items' = SettledItems(seen[p].runs)
    /\ seen' = [seen EXCEPT ![p] = Nothing]
    /\ Goto(p, "ready")
    /\ UNCHANGED <<lock, run, crashes>>

\* A service may end before it has a row: the database fails in recovery or in
\* create_*, the key exists already, or there is nothing to do ("skipped").
LeaveWithoutRun(p) ==
    /\ pc[p] \in {"locked", "recovering", "ready"}
    /\ seen' = [seen EXCEPT ![p] = Nothing]
    /\ Goto(p, "unlocking")
    /\ UNCHANGED <<lock, run, ledger, crashes>>

---------------------------------------------------------------------------
(* The body of the three services.                                         *)

CreateRun(p, r) ==
    /\ pc[p] = "ready"
    /\ status[r] = "absent"
    /\ status' = [status EXCEPT ![r] = "running"]
    /\ run' = [run EXCEPT ![p] = r]
    /\ Goto(p, "created")
    /\ UNCHANGED <<lock, seen, strategyLog, items, crashes>>

StartStrategy(p) ==
    /\ pc[p] = "created"
    /\ RunLayer[run[p]] = "discovery"
    /\ strategyLog' = [strategyLog EXCEPT ![run[p]] = "running"]
    /\ Goto(p, "working")
    /\ UNCHANGED <<lock, run, seen, status, items, crashes>>

\* _finish_strategy_log_entry raises when no entry is running.
CompleteStrategy(p) ==
    /\ pc[p] = "working"
    /\ RunLayer[run[p]] = "discovery"
    /\ strategyLog[run[p]] = "running"
    /\ strategyLog' = [strategyLog EXCEPT ![run[p]] = "completed"]
    /\ Goto(p, "finishing")
    /\ UNCHANGED <<lock, run, seen, status, items, crashes>>

SnapshotItems(p) ==
    /\ pc[p] = "created"
    /\ RunLayer[run[p]] = "orderbooks"
    /\ items' = [items EXCEPT ![run[p]] = "pending"]
    /\ Goto(p, "working")
    /\ UNCHANGED <<lock, run, seen, status, strategyLog, crashes>>

\* The three commits that end a run write the status column by primary key.
EndRun(p, outcome) ==
    /\ status' = [status EXCEPT ![run[p]] = outcome]
    /\ UNCHANGED <<lock, run, seen, crashes>>

\* The connection may break after the server has committed: session.commit()
\* raises, and the except clause is about to fail a run that has ended.
AfterCommit == IF AckLoss THEN {"unlocking", "failing"} ELSE {"unlocking"}

CompleteDiscoveryRun(p) ==
    /\ pc[p] = "finishing"
    /\ EndRun(p, "completed")
    /\ \E place \in AfterCommit : Goto(p, place)
    /\ UNCHANGED <<strategyLog, items>>

CompleteMarketSync(p) ==
    /\ pc[p] = "created"
    /\ RunLayer[run[p]] = "markets"
    /\ EndRun(p, "completed")
    /\ \E place \in AfterCommit : Goto(p, place)
    /\ UNCHANGED <<strategyLog, items>>

CompleteCollection(p) ==
    /\ pc[p] = "working"
    /\ RunLayer[run[p]] = "orderbooks"
    /\ \E outcome \in Terminal : EndRun(p, outcome)
    /\ \E place \in AfterCommit : Goto(p, place)
    /\ items' = SettledItems({run[p]})
    /\ UNCHANGED strategyLog

\* An Exception in the body: the except clause is about to call fail_*_run.
BodyFails(p) ==
    /\ pc[p] \in Body
    /\ Goto(p, "failing")
    /\ UNCHANGED <<lock, run, seen, ledger, crashes>>

FailRun(p) ==
    /\ pc[p] = "failing"
    /\ EndRun(p, "failed")
    /\ Goto(p, "unlocking")
    /\ strategyLog' = FailedLogs({r \in {run[p]} : strategyLog[r] = "running"})
    /\ items' = SettledItems({run[p]})

\* CancelledError and KeyboardInterrupt pass "except Exception", and fail_*_run
\* may itself raise: the lock is released and the row stays "running".
Abandon(p) ==
    /\ pc[p] \in Body \cup {"failing"}
    /\ Goto(p, "unlocking")
    /\ UNCHANGED <<lock, run, seen, ledger, crashes>>

---------------------------------------------------------------------------
(* The environment.                                                        *)

\* The process dies.  The server has not noticed its session is gone yet.
Crash(p) ==
    /\ pc[p] # "idle"
    /\ crashes < MaxCrashes
    /\ crashes' = crashes + 1
    /\ lock' = IF lock = p THEN Dead ELSE lock
    /\ run' = [run EXCEPT ![p] = NoRun]
    /\ seen' = [seen EXCEPT ![p] = Nothing]
    /\ Goto(p, "idle")
    /\ UNCHANGED ledger

ReapSession ==
    /\ lock = Dead
    /\ lock' = Free
    /\ UNCHANGED <<pc, run, seen, ledger, crashes>>

\* The server drops the idle session that holds the lock (restart, timeout,
\* network).  The service does not look at that connection again before it
\* unlocks, and every repository call opens a connection of its own.
LoseSession(p) ==
    /\ SessionLoss
    /\ lock = p
    /\ lock' = Free
    /\ UNCHANGED <<pc, run, seen, ledger, crashes>>

---------------------------------------------------------------------------
ServiceStep(p) ==
    \/ RecoverRead(p) \/ RecoverCommit(p) \/ LeaveWithoutRun(p)
    \/ \E r \in RunId : CreateRun(p, r)
    \/ StartStrategy(p) \/ CompleteStrategy(p) \/ CompleteDiscoveryRun(p)
    \/ CompleteMarketSync(p)
    \/ SnapshotItems(p) \/ CompleteCollection(p)
    \/ BodyFails(p) \/ FailRun(p) \/ Abandon(p) \/ Unlock(p)

Next ==
    \/ \E p \in Process :
          Start(p) \/ Skip(p) \/ ServiceStep(p) \/ Crash(p) \/ LoseSession(p)
    \/ ReapSession

Spec == Init /\ [][Next]_vars

(* A service that runs is scheduled; some service is started again when the *)
(* lock is free (the scheduler of run_forever, or the next cron call); the  *)
(* server reaps dead sessions; and a database error does not hit every      *)
(* recovery for ever.                                                       *)
Fairness ==
    /\ \A p \in Process : WF_vars(ServiceStep(p))
    /\ WF_vars(\E p \in Process : Start(p))
    /\ WF_vars(ReapSession)
    /\ \A p \in Process : SF_vars(RecoverRead(p)) /\ SF_vars(RecoverCommit(p))

FairSpec == Spec /\ Fairness

---------------------------------------------------------------------------
(* Properties.                                                             *)

\* README.md:97: "All layers share a PostgreSQL advisory lock so they do not
\* write concurrently."  Two services never have a transaction or a run of
\* their own under way at the same time.
NoConcurrentWriters ==
    \A p, q \in Process :
        /\ pc[p] \in Body \cup {"recovering", "failing"}
        /\ pc[q] \in Body \cup {"recovering", "failing"}
        => p = q

\* A process inside a service holds the lock, from pg_try_advisory_lock to the
\* finally block: "Hold the shared collector lock for the complete service
\* execution" (lock.py:16).
LockHeldThroughout ==
    \A p \in Process : pc[p] # "idle" => lock = p

\* Recovery reaches every row a dead or cancelled predecessor left behind, in
\* all three tables: a service past recovery finds no running row but its own.
OnlyOwnRunIsOpen ==
    \A p \in Process :
        pc[p] \in Body \cup {"ready", "failing"} =>
            \A r \in RunId : status[r] = "running" => run[p] = r

\* However a run ended (its own commit, its except clause or a later recovery),
\* its details ended with it: no terminal run has a running strategy log entry
\* or pending items, and a completed discovery run has a completed entry.
DetailsEndWithRun ==
    \A r \in RunId :
        status[r] \in Terminal =>
            /\ strategyLog[r] # "running"
            /\ items[r] # "pending"
            /\ RunLayer[r] = "discovery" /\ status[r] = "completed"
                 => strategyLog[r] = "completed"

\* Only the service of a run itself can change how it ended, and only to
\* "failed", in the except clause after a commit whose acknowledgement was lost
\* (discovery/service.py:80 and its likes).  Neither recovery, nor a late
\* commit, nor another service rewrites a row with a terminal status.
OutcomeIsFinal ==
    [][\A r \in RunId :
          status[r] \in Terminal /\ status'[r] # status[r] =>
             /\ AckLoss /\ status'[r] = "failed"
             /\ \E p \in Process : pc[p] = "failing" /\ run[p] = r]_vars

\* Even when lock sessions are lost under live services, no other process
\* changes a completed registry sync, because recovery fails market rows by a
\* conditional UPDATE.  (Of the other two tables this is false.)
CompletedSyncIsFinal ==
    [][\A r \in RunId :
          /\ RunLayer[r] = "markets"
          /\ status[r] = "completed" /\ status'[r] # "completed"
          => AckLoss /\ \E p \in Process : pc[p] = "failing" /\ run[p] = r]_vars

\* A row never stays "running" for ever: its service ends it or the recovery
\* of a later service does, in spite of crashes and cancellations.
OrphansAreRecovered ==
    \A r \in RunId : status[r] = "running" ~> status[r] \in Terminal

---------------------------------------------------------------------------
(* Inductive invariants behind the safety properties, used by the proofs.  *)

HasRun(p) == pc[p] \in Body \cup {"failing"}

\* A service owns a running row while it is in its body; in its except clause
\* the row may have ended, by a commit that was not acknowledged.
OwnRunIsRunning ==
    \A p \in Process :
        /\ HasRun(p) => run[p] \in RunId
        /\ pc[p] \in Body => status[run[p]] = "running"
        /\ pc[p] = "failing" =>
              \/ status[run[p]] = "running"
              \/ AckLoss /\ status[run[p]] \in Terminal
        /\ pc[p] \in {"idle", "locked", "recovering", "ready"} => run[p] = NoRun

\* What recovery read is still true when it writes.
ReadIsCurrent ==
    \A p \in Process :
        pc[p] = "recovering" =>
            /\ seen[p].runs = Running({"discovery", "orderbooks"})
            /\ seen[p].logs = {r \in seen[p].runs : strategyLog[r] = "running"}

\* Log entries and items belong to runs of their layer that exist.
DetailsHaveRun ==
    \A r \in RunId :
        /\ strategyLog[r] # "none" => RunLayer[r] = "discovery" /\ status[r] # "absent"
        /\ items[r] # "none" => RunLayer[r] = "orderbooks" /\ status[r] # "absent"

\* The strategy loop has completed when the discovery run is about to.
FinishingIsLogged ==
    \A p \in Process :
        pc[p] = "finishing" =>
            RunLayer[run[p]] = "discovery" /\ strategyLog[run[p]] = "completed"

LedgerInv ==
    /\ OwnRunIsRunning
    /\ OnlyOwnRunIsOpen
    /\ ReadIsCurrent
    /\ DetailsHaveRun
    /\ FinishingIsLogged
    /\ DetailsEndWithRun

\* Holds while lock sessions are not lost.
IInv == TypeOK /\ LockHeldThroughout /\ LedgerInv

\* Holds even when they are: recovery never loads a market row, no two services
\* share a row, and a sync that is not over has not been completed.
SyncInv ==
    /\ \A p \in Process : \A r \in seen[p].runs : RunLayer[r] # "markets"
    /\ \A p \in Process : HasRun(p) => run[p] \in RunId /\ status[run[p]] # "absent"
    /\ \A p, q \in Process : HasRun(p) /\ HasRun(q) /\ run[p] = run[q] => p = q
    /\ \A p \in Process :
          /\ pc[p] \in Body \/ (pc[p] = "failing" /\ ~AckLoss)
          /\ RunLayer[run[p]] = "markets"
          => status[run[p]] # "completed"
    /\ \A p \in Process : pc[p] = "finishing" => RunLayer[run[p]] = "discovery"
===========================================================================
