-------------------------- MODULE MarketRegistry --------------------------
(***************************************************************************)
(* The Market Registry: markets/service.py and markets/repository.py.  A   *)
(* synchronisation reads which discovery runs are pending and which        *)
(* markets to refresh, asks Gamma for every one of those conditions in     *)
(* batches (each batch first among the open, then among the closed         *)
(* markets) and commits everything in one transaction, or nothing.         *)
(*                                                                         *)
(* One synchronisation runs at a time (PipelineRuns).  Discovery runs are  *)
(* its environment: numbers in the order of their start, which is also the *)
(* observed_at of their observations.  While the pipeline lock holds they  *)
(* end between synchronisations; with a lost lock session, at any time and *)
(* in any order.  Gamma changes between any two queries.                   *)
(*                                                                         *)
(* Of a payload the model keeps what the registry decides by: the closed   *)
(* and archived flags, each of which may be null, and the two tokens.      *)
(***************************************************************************)
EXTENDS Integers, FiniteSets

CONSTANTS
    Condition,      \* condition ids; numbers, in the order sorted() gives
    Token, Outcome,
    Payload,        \* the well-formed answers Gamma may give for a condition
    Omitted,        \* Gamma has no row for the condition
    Invalid,        \* Gamma's row is malformed, repeated or for another market
    DiscoveryRun,   \* numbers, in the order of their start
    SyncRun,        \* numbers, in the order of their start
    NoMarket, NoOwner, NoPayload,
    BatchSize,
    SessionLoss,    \* whether discovery may end while a synchronisation runs
    MaxChanges,     \* bound on the changes of Gamma's answers
    MaxFaults       \* bound on failing calls and crashes

Flag == {"true", "false", "null"}

\* parse_gamma_market refuses a row without two different tokens and outcomes.
WellFormed ==
    {row \in [closed : Flag, archived : Flag,
              tokens : [0..1 -> [id : Token, outcome : Outcome]]] :
        row.tokens[0].id # row.tokens[1].id /\ row.tokens[0].outcome # row.tokens[1].outcome}

ASSUME DataAssumption ==
    /\ Condition \subseteq Nat /\ DiscoveryRun \subseteq Nat /\ SyncRun \subseteq Nat
    /\ Payload \subseteq WellFormed
    /\ BatchSize \in Nat \ {0}
    /\ SessionLoss \in BOOLEAN
    /\ MaxChanges \in Nat /\ MaxFaults \in Nat
ASSUME SentinelAssumption ==
    /\ {Omitted, Invalid, NoPayload} \cap WellFormed = {}
    /\ Omitted # Invalid
    /\ NoMarket \notin [last : DiscoveryRun, payload : WellFormed]
    /\ NoOwner \notin [condition : Condition, index : 0..1, outcome : Outcome]

VARIABLES
    gamma,      \* what Gamma would answer for every condition
    changes, faults,
    found,      \* market_discovery_observations by run
    finished,   \* completed discovery runs
    synced,     \* discovery runs with registry_synced_at
    markets,    \* polymarket_markets
    tokens,     \* polymarket_tokens
    syncs,      \* market_registry_sync_runs, with the input of each
    snapshots,  \* market_status_snapshots
    pc, cur,    \* the running synchronisation
    todo,       \* conditions of the batches still to retrieve
    missing,    \* conditions of the batch the open query did not return
    got         \* payloads retrieved so far

external == <<gamma, changes>>
discovery == <<found, finished>>
registry == <<synced, markets, tokens, snapshots>>
local == <<pc, cur, todo, missing, got>>
vars == <<external, faults, discovery, registry, syncs, local>>

MarketRow == [last : DiscoveryRun, payload : WellFormed]
TokenRow == [condition : Condition, index : 0..1, outcome : Outcome]
SyncRow == [status : {"absent", "running", "completed", "failed"},
            runs : SUBSET DiscoveryRun, conditions : SUBSET Condition]

TypeOK ==
    /\ gamma \in [Condition -> Payload \cup {Omitted, Invalid}]
    /\ changes \in 0..MaxChanges /\ faults \in 0..MaxFaults
    /\ found \in [DiscoveryRun -> SUBSET Condition]
    /\ finished \subseteq DiscoveryRun /\ synced \subseteq DiscoveryRun
    /\ markets \in [Condition -> MarketRow \cup {NoMarket}]
    /\ tokens \in [Token -> TokenRow \cup {NoOwner}]
    /\ syncs \in [SyncRun -> SyncRow]
    /\ snapshots \in [SyncRun -> [Condition -> WellFormed \cup {NoPayload}]]
    /\ pc \in {"idle", "open", "closed", "failing"}
    /\ cur \in SyncRun \cup {0}
    /\ todo \subseteq Condition /\ missing \subseteq Condition
    /\ got \in [Condition -> WellFormed \cup {NoPayload}]

Absent == [status |-> "absent", runs |-> {}, conditions |-> {}]
NoAnswers == [c \in Condition |-> NoPayload]

Init ==
    /\ gamma \in [Condition -> Payload \cup {Omitted, Invalid}]
    /\ changes = 0 /\ faults = 0
    /\ found = [d \in DiscoveryRun |-> {}]
    /\ finished = {} /\ synced = {}
    /\ markets = [c \in Condition |-> NoMarket]
    /\ tokens = [t \in Token |-> NoOwner]
    /\ syncs = [s \in SyncRun |-> Absent]
    /\ snapshots = [s \in SyncRun |-> NoAnswers]
    /\ pc = "idle" /\ cur = 0
    /\ todo = {} /\ missing = {} /\ got = NoAnswers

---------------------------------------------------------------------------
(* The environment.                                                        *)

GammaChanges(c) ==
    /\ changes < MaxChanges
    /\ changes' = changes + 1
    /\ \E answer \in Payload \cup {Omitted, Invalid} : gamma' = [gamma EXCEPT ![c] = answer]
    /\ UNCHANGED <<faults, discovery, registry, syncs, local>>

\* complete_discovery_run: all observations and the status in one commit.
DiscoveryCompletes(d) ==
    /\ d \notin finished
    /\ SessionLoss \/ (pc = "idle" /\ \A e \in finished : e < d)
    /\ finished' = finished \cup {d}
    /\ \E S \in SUBSET Condition : found' = [found EXCEPT ![d] = S]
    /\ UNCHANGED <<external, faults, registry, syncs, local>>

---------------------------------------------------------------------------
(* get_market_sync_input.                                                  *)

Registered == {c \in Condition : markets[c] # NoMarket}
Pending == finished \ synced

\* Mutant: only the closed flag ends the regular refresh.
NotClosed(row) == row.closed # "true"

Refreshable(row) == row.closed # "true" /\ row.archived # "true"

Required ==
    (UNION {found[d] : d \in Pending})
      \cup {c \in Registered : Refreshable(markets[c].payload)}

\* Mutant: recovery writes a status of its own.
RecoveredAsOrphaned ==
    [s \in SyncRun |->
        IF syncs[s].status = "running" THEN [syncs[s] EXCEPT !.status = "orphaned"]
                                       ELSE syncs[s]]

\* recover_orphaned_runs, as far as it concerns this layer.
Recovered ==
    [s \in SyncRun |->
        IF syncs[s].status = "running" THEN [syncs[s] EXCEPT !.status = "failed"]
                                       ELSE syncs[s]]

StartSync(s) ==
    /\ pc = "idle"
    /\ syncs[s] = Absent /\ \A t \in SyncRun : t < s => syncs[t] # Absent
    /\ Pending # {} \/ Required # {}
    /\ syncs' = [Recovered EXCEPT ![s] =
                   [status |-> "running", runs |-> Pending, conditions |-> Required]]
    /\ pc' = "open" /\ cur' = s
    /\ todo' = Required /\ missing' = {} /\ got' = NoAnswers
    /\ UNCHANGED <<external, faults, discovery, registry>>

\* The recovery is all that happens when there is nothing to synchronise
\* ("no_markets_to_sync") and when the database refuses the run row.
SkipSync ==
    /\ pc = "idle"
    /\ syncs' = Recovered
    /\ UNCHANGED <<external, faults, discovery, registry, local>>

---------------------------------------------------------------------------
(* _retrieve_market_batch.                                                 *)

Batch == {c \in todo : Cardinality({d \in todo : d <= c}) <= BatchSize}

\* Mutant: both queries ask among the open markets.
RowsAmongOpen(asked, closed) ==
    {c \in asked : gamma[c] \in Payload /\ gamma[c].closed # "true"}

\* The asked conditions Gamma has a row for with the given closed filter.
Rows(asked, closed) ==
    {c \in asked : gamma[c] \in Payload /\ (gamma[c].closed = "true" <=> closed)}

Keep(rows) == got' = [c \in Condition |-> IF c \in rows THEN gamma[c] ELSE got[c]]

\* Every returned row is parsed and indexed, so one bad row fails the sync.
OpenQuery ==
    /\ pc = "open" /\ todo # {}
    /\ \A c \in Batch : gamma[c] # Invalid
    /\ LET rows == Rows(Batch, FALSE)
       IN  /\ Keep(rows)
           /\ missing' = Batch \ rows
           /\ IF missing' = {} THEN pc' = "open" /\ todo' = todo \ Batch
                               ELSE pc' = "closed" /\ UNCHANGED todo
    /\ UNCHANGED <<external, faults, discovery, registry, syncs, cur>>

\* Mutant: what the closed query omits is left out of the payloads.
ClosedQueryLenient ==
    /\ pc = "closed"
    /\ Keep(Rows(missing, TRUE))
    /\ pc' = "open" /\ todo' = todo \ Batch /\ missing' = {}
    /\ UNCHANGED <<external, faults, discovery, registry, syncs, cur>>

ClosedQuery ==
    /\ pc = "closed"
    /\ missing \subseteq Rows(missing, TRUE)
    /\ Keep(missing)
    /\ pc' = "open" /\ todo' = todo \ Batch /\ missing' = {}
    /\ UNCHANGED <<external, faults, discovery, registry, syncs, cur>>

\* "Gamma omitted requested markets", an invalid row, in either query.
AnswerRefused ==
    /\ \/ pc = "open" /\ \E c \in Batch : gamma[c] = Invalid
       \/ pc = "closed" /\ ~(missing \subseteq Rows(missing, TRUE))
    /\ pc' = "failing"
    /\ UNCHANGED <<external, faults, discovery, registry, syncs, cur, todo, missing, got>>

---------------------------------------------------------------------------
(* complete_market_sync_run: one transaction.                              *)

Incoming == {c \in Condition : got[c] # NoPayload}
Ids(row) == {row.tokens[i].id : i \in 0..1}
StoredIds(c) == {t \in Token : tokens[t] # NoOwner /\ tokens[t].condition = c}
Observers(c) == {d \in DiscoveryRun : c \in found[d]}
Latest(S) == CHOOSE d \in S : \A e \in S : e <= d

\* Mutant: nobody looks whether the tokens of a new market exist.
NewMarketUnchecked(c) == Observers(c) # {}

\* A new market has been observed and brings tokens nobody else has.
NewMarketOK(c) ==
    /\ Observers(c) # {}
    /\ \A t \in Ids(got[c]) : tokens[t] = NoOwner
    /\ \A e \in Incoming \ Registered : e # c => Ids(got[e]) \cap Ids(got[c]) = {}

\* Mutant: only the set of token ids is compared, not their outcomes.
SameTokenSet(c) == StoredIds(c) = Ids(got[c])

\* A known market brings the tokens it has, with the same outcomes in the same
\* positions.
KnownMarketOK(c) ==
    /\ StoredIds(c) = Ids(got[c])
    /\ \A i \in 0..1 :
          tokens[got[c].tokens[i].id] =
             [condition |-> c, index |-> i, outcome |-> got[c].tokens[i].outcome]

Acceptable ==
    \A c \in Incoming : IF c \in Registered THEN KnownMarketOK(c) ELSE NewMarketOK(c)

LastDiscovered(c) ==
    IF c \notin Registered THEN Latest(Observers(c))
    ELSE IF Observers(c) = {} THEN markets[c].last
    ELSE Latest(Observers(c) \cup {markets[c].last})

\* Mutant: the status columns of a market that has ended are not written.
NewRowUnlessEnded(c) ==
    [last |-> LastDiscovered(c),
     payload |-> IF c \in Registered /\ ~Refreshable(markets[c].payload)
                 THEN markets[c].payload ELSE got[c]]

NewRow(c) == [last |-> LastDiscovered(c), payload |-> got[c]]

\* The rows of a new market's tokens.
NewToken(t) ==
    LET c == CHOOSE c \in Incoming \ Registered : t \in Ids(got[c])
        i == CHOOSE i \in 0..1 : got[c].tokens[i].id = t
    IN  [condition |-> c, index |-> i, outcome |-> got[c].tokens[i].outcome]

\* Mutant: the runs pending at commit are marked, not those read at the start.
PendingAtCommit == Pending

RunsToMark == syncs[cur].runs

\* What the transaction commits.
CommitSync ==
    /\ pc = "open" /\ todo = {}
    /\ Acceptable
    /\ markets' = [c \in Condition |-> IF c \in Incoming THEN NewRow(c) ELSE markets[c]]
    /\ tokens' = [t \in Token |->
                    IF \E c \in Incoming \ Registered : t \in Ids(got[c])
                    THEN NewToken(t) ELSE tokens[t]]
    /\ snapshots' = [snapshots EXCEPT ![cur] = got]
    /\ synced' = synced \cup RunsToMark
    /\ syncs' = [syncs EXCEPT ![cur].status = "completed"]
    /\ UNCHANGED <<external, discovery, todo, missing>>

CompleteSync ==
    /\ CommitSync
    /\ pc' = "idle" /\ cur' = 0 /\ got' = NoAnswers
    /\ UNCHANGED faults

\* The commit takes effect, but the connection breaks before it says so:
\* session.commit() raises, and the completed run is about to be failed.
LoseAcknowledgement ==
    /\ faults < MaxFaults
    /\ faults' = faults + 1
    /\ CommitSync
    /\ pc' = "failing"
    /\ UNCHANGED <<cur, got>>

\* A check raises in the middle of the transaction: everything is rolled back.
RejectSync ==
    /\ pc = "open" /\ todo = {}
    /\ ~Acceptable
    /\ pc' = "failing"
    /\ UNCHANGED <<external, faults, discovery, registry, syncs, cur, todo, missing, got>>

---------------------------------------------------------------------------
(* Failures.                                                               *)

\* fail_market_sync_run.
FailSync ==
    /\ pc = "failing"
    /\ syncs' = [syncs EXCEPT ![cur].status = "failed"]
    /\ pc' = "idle" /\ cur' = 0
    /\ todo' = {} /\ missing' = {} /\ got' = NoAnswers
    /\ UNCHANGED <<external, faults, discovery, registry>>

\* A Gamma call or a database call raises.
CallFails ==
    /\ pc \in {"open", "closed"}
    /\ faults < MaxFaults
    /\ faults' = faults + 1
    /\ pc' = "failing"
    /\ UNCHANGED <<external, discovery, registry, syncs, cur, todo, missing, got>>

\* The process dies, is cancelled, or fails to write the failure.
Crash ==
    /\ pc # "idle"
    /\ faults < MaxFaults
    /\ faults' = faults + 1
    /\ pc' = "idle" /\ cur' = 0
    /\ todo' = {} /\ missing' = {} /\ got' = NoAnswers
    /\ UNCHANGED <<external, discovery, registry, syncs>>

---------------------------------------------------------------------------
SyncStep ==
    \/ OpenQuery \/ ClosedQuery \/ AnswerRefused
    \/ CompleteSync \/ RejectSync \/ FailSync

Next ==
    \/ \E c \in Condition : GammaChanges(c)
    \/ \E d \in DiscoveryRun : DiscoveryCompletes(d)
    \/ \E s \in SyncRun : StartSync(s)
    \/ SkipSync
    \/ SyncStep
    \/ LoseAcknowledgement \/ CallFails \/ Crash

Spec == Init /\ [][Next]_vars

---------------------------------------------------------------------------
(* Properties.                                                             *)

\* A discovery run gets registry_synced_at only with or after the registration
\* of every condition it observed, even one observed again or in an earlier
\* run; and the market has been last discovered no earlier than that run.
SyncedRunsAreRegistered ==
    \A d \in synced : \A c \in found[d] : c \in Registered /\ markets[c].last >= d

\* The market rows and the token rows tell the same story: the latest payload a
\* market was accepted with names exactly its token rows, with their outcomes
\* and positions, and every token row belongs to a registered market.
TokensMatchPayloads ==
    /\ \A c \in Registered : \A i \in 0..1 :
          tokens[markets[c].payload.tokens[i].id] =
            [condition |-> c, index |-> i,
             outcome |-> markets[c].payload.tokens[i].outcome]
    /\ \A t \in Token :
          tokens[t] # NoOwner =>
             /\ tokens[t].condition \in Registered
             /\ t \in Ids(markets[tokens[t].condition].payload)

\* The effects of a run are all there or none is: one status snapshot of every
\* condition it was asked for and the acknowledgement of every discovery run it
\* took as input.  None is there while the run goes on, all are when it is
\* completed, and a run failed after a lost acknowledgement keeps all.
SyncsAreAllOrNothing ==
    \A s \in SyncRun :
        LET recorded == {c \in Condition : snapshots[s][c] # NoPayload}
        IN  /\ recorded \in {{}, syncs[s].conditions}
            /\ recorded # {} => syncs[s].runs \subseteq synced
            /\ syncs[s].status = "completed" =>
                  recorded = syncs[s].conditions /\ syncs[s].runs \subseteq synced
            /\ syncs[s].status \in {"absent", "running"} =>
                  recorded = {} /\ syncs[s].runs \cap synced = {}

\* The current status of a market is its latest snapshot: the history never
\* runs ahead of the registry nor lags behind it.
CurrentStatusIsLatestSnapshot ==
    \A c \in Registered :
        LET history == {s \in SyncRun : snapshots[s][c] # NoPayload}
        IN  history # {} /\ markets[c].payload = snapshots[Latest(history)][c]

\* README.md:52: "Terminal markets are retained as canonical history but are no
\* longer scheduled for regular refresh."  A closed or archived market changes
\* only when a discovery run that observed it again is absorbed.
TerminalMarketsRest ==
    [][\A c \in Registered :
          /\ "true" \in {markets[c].payload.closed, markets[c].payload.archived}
          /\ \A d \in Pending : c \notin found[d]
          => markets'[c] = markets[c]]_vars

\* The registry keeps the promises of CanonicalRegistry: token ownership is
\* decided once, markets appear with both tokens, runs are acknowledged only
\* when absorbed.
Canonical ==
    INSTANCE CanonicalRegistry WITH
        acknowledged <- synced, registered <- Registered, owner <- tokens

ImplementsCanonicalRegistry == Canonical!Spec

\* What Gamma answers now could be committed: every condition has a valid row
\* that agrees with the registry, and no two rows share a token.
Healthy ==
    \A c \in Condition :
        /\ gamma[c] \in Payload
        /\ IF c \in Registered
           THEN \A i \in 0..1 :
                  tokens[gamma[c].tokens[i].id] =
                     [condition |-> c, index |-> i, outcome |-> gamma[c].tokens[i].outcome]
           ELSE \A t \in Ids(gamma[c]) : tokens[t] = NoOwner
        /\ \A e \in Condition \ {c} :
              gamma[e] \in Payload => Ids(gamma[e]) \cap Ids(gamma[c]) = {}

\* A discovery run that failed synchronisations left pending is not lost: once
\* Gamma's answers stay acceptable, a later synchronisation absorbs it.
PendingRunsAreSynced ==
    <>[]Healthy => \A d \in DiscoveryRun : d \in finished ~> d \in synced

---------------------------------------------------------------------------
(* Inductive invariants of the theorems in MarketRegistryProofs.           *)

\* Only finished discovery runs have observations or are acknowledged, and of
\* the runs that observed a condition one is the latest.
DiscoveryInv ==
    /\ synced \subseteq finished
    /\ \A d \in DiscoveryRun \ finished : found[d] = {}
    /\ \A c \in Condition :
          Observers(c) # {} => \E d \in Observers(c) : \A e \in Observers(c) : e <= d

\* Runs are started in order, and only the last one may be going on.
LedgerInv ==
    /\ \A s \in SyncRun : syncs[s].status = "absent" => syncs[s] = Absent
    /\ \A s, t \in SyncRun : syncs[s] = Absent /\ s < t => syncs[t] = Absent
    /\ pc # "idle" =>
          /\ cur \in SyncRun
          /\ \A s \in SyncRun : s > cur => syncs[s] = Absent
          /\ \A s \in SyncRun : syncs[s].status = "running" => s = cur
          /\ syncs[cur].status = "running" \/ (pc = "failing" /\ syncs[cur].status = "completed")

\* A run going on asks for what its discovery runs observed and for what is to
\* be refreshed; each of these has been retrieved or is still to be.
ProgressInv ==
    pc \in {"open", "closed"} =>
        /\ syncs[cur].runs \subseteq finished
        /\ \A d \in syncs[cur].runs : found[d] \subseteq syncs[cur].conditions
        /\ \A c \in syncs[cur].conditions :
              \/ \E d \in syncs[cur].runs : c \in found[d]
              \/ c \in Registered /\ Refreshable(markets[c].payload)
        /\ Incoming \cup todo = syncs[cur].conditions
        /\ pc = "closed" => missing \subseteq Batch /\ Batch \ missing \subseteq Incoming

\* Of the snapshots of a registered market one is the latest, and it is current.
HistoryInv ==
    \A c \in Registered :
        \E s \in SyncRun :
            /\ snapshots[s][c] = markets[c].payload
            /\ \A t \in SyncRun : snapshots[t][c] # NoPayload => t <= s

IInv ==
    /\ DiscoveryInv /\ LedgerInv /\ ProgressInv /\ HistoryInv
    /\ SyncsAreAllOrNothing /\ SyncedRunsAreRegistered /\ TokensMatchPayloads
===========================================================================
