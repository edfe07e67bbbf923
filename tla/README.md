# Verification of polymarket-market-discovery

TLA+ models of the market discovery collector, the TLC configurations that check
them on small instances, and TLAPS proofs of what matters most for every
instance. Paths below are relative to `src/polymarket_market_discovery/` of the
repository unless they start with `README.md`.

## 1. The system

One PostgreSQL database, and any number of operating-system processes that run
one of three *layers* on it: a `run` or `registry` or `orderbooks` call of the
command line (cron), or the long-running `schedule` process. A layer is a
service whose `run()` takes a database-wide advisory lock, recovers what
predecessors left unfinished, creates a row for its run, does its work over HTTP,
and commits a result or a failure.

| component | state | operations | what makes it correct |
|---|---|---|---|
| Pipeline lock (`core/db/lock.py`) | one advisory lock, owned by a database session | try-lock, unlock in `finally` | two services never write at the same time; the lock comes free again |
| Recovery (`core/db/recovery.py`) | none of its own; reads and writes the three run tables | fail every `running` row with its log entry or its items | no orphan is left, no outcome is rewritten |
| Discovery (`discovery/service.py`, `repository.py`) | `market_discovery_runs` with `strategy_log`, `market_discovery_observations` | create, start/complete strategy, complete, fail | details end with the run; observations appear with completion |
| Whale leaderboard (`discovery/strategies/whale_leaderboard.py`) | local to one call | leaderboard page, positions pages of every wallet, aggregation | every position of every wallet once; bounded offsets |
| Market registry (`markets/service.py`, `repository.py`) | `polymarket_markets`, `polymarket_tokens`, `market_status_snapshots`, `market_registry_sync_runs`, `registry_synced_at` | read input, query Gamma in batches (open, then closed), commit or fail | pending discovery runs are absorbed exactly once and completely; token identity never changes; all or nothing |
| Orderbook collection (`orderbooks/service.py`, `repository.py`) | `orderbook_collection_runs`, `_items`, `orderbook_snapshots` | select items, post batches, settle | every item settled once; books, items, counters and status agree |
| Orderbook parser (`orderbooks/parser.py`) | none | one CLOB row to a snapshot, or an error | derived numbers and validity are those of the levels |
| Coordinator (`pipeline/coordinator.py`) | deadlines and the current cycle, in memory | bootstrap, sleep, run due layers, cascade | deadlines neither drift nor burst; nothing due is forgotten |
| Client (`polymarket/client.py`) | limiters, a semaphore | GET/POST with retries on 429 | limits respected, retries end |
| Command line (`cli.py`), settings, models | - | wiring | - |

How they interact: `cli.py` builds a coordinator, the coordinator calls the
services one after the other in one event loop; services of *different*
processes meet only in the database, where the advisory lock is to keep them
apart; discovery hands its conditions to the registry through observation rows
of runs without `registry_synced_at`; the registry hands active markets and
tokens to the collection through its tables and its age through the last
completed synchronisation.

Hard behaviours: interleaving of processes through the lock and the recovery; a
process that dies, is cancelled, or loses the session that holds its lock; state
read before minutes of HTTP and used afterwards; external answers that change
between two calls, are missing, doubled or malformed; partial failure of a batch
or a token; cycles that outlast their intervals. `PROJECT.json` lists them as
hazards, at their lines, with the properties that cover them.

## 2. Modules

| module | models | composed with |
|---|---|---|
| `PipelineRuns` | lock, sessions, run ledger, recovery; `Process` is any set | - |
| `PipelineRunsProofs` | theorems about it | EXTENDS `PipelineRuns`, `TLAPS` |
| `CanonicalRegistry` | abstract: what the registry promises its neighbours | - |
| `MarketRegistry` | synchronisations against a changing Gamma | INSTANCE `CanonicalRegistry` |
| `MarketRegistryProofs` | theorems about it, the refinement included | EXTENDS `MarketRegistry`, `TLAPS` |
| `OrderbookCollection` | items, batches, settling, recovery | - |
| `OrderbookCollectionProofs` | theorems about it | EXTENDS `OrderbookCollection`, `TLAPS` |
| `Coordinator` | scheduler, cascades, registry freshness | - |
| `CoordinatorProofs` | theorems about it | EXTENDS `Coordinator`, `TLAPS` |
| `PolymarketClient` | limiters, semaphore and retries of concurrent calls | - |
| `PolymarketClientProofs` | theorems about it | EXTENDS `PolymarketClient`, `TLAPS` |
| `WhaleLeaderboard` | both rankings and all positions read by concurrent tasks, and the result | - |
| `WhaleLeaderboardProofs` | theorems about it | EXTENDS `WhaleLeaderboard`, `TLAPS` |
| `OrderbookParser` | one payload to a book, its depths and validity, or an error | - |
| `OrderbookParserProofs` | theorems about it | EXTENDS `OrderbookParser`, `TLAPS` |
| `FoldTheorems` | induction over numbers and over the turns of a loop, for the folds of the community modules | INSTANCE in the two proof modules above |
| `MC*` | instances for TLC | EXTENDS the module of that name |

The three data modules rest on `PipelineRuns`: each lets one run of its layer be
under way at a time, which is `NoConcurrentWriters`; where the code gives that up
(a lost lock session) `MarketRegistry` says what it still keeps (`SessionLoss`).
`WhaleLeaderboard` is what a discovery run does between `StartStrategy` and
`CompleteStrategy`; its requests are those of `PolymarketClient`, of which it uses
that every call ends. `OrderbookParser` is what `OrderbookCollection` takes for the good or
refused rows of a reply.

### PipelineRuns

`pc[p]` is where a process stands in `run()` of its service; every database
transaction of the code is one action.

| action | code |
|---|---|
| `Start`, `Skip` | `pg_try_advisory_lock` and its two results |
| `RecoverRead`, `RecoverCommit` | the SELECTs of `recover_orphaned_runs`, and its writes and UPDATE at the commit. Discovery and orderbook rows are written back by primary key (`seen`); market rows by an UPDATE with a condition, evaluated at the write |
| `LeaveWithoutRun` | "skipped" results and failures before the run row |
| `CreateRun`, `StartStrategy`, `CompleteStrategy`, `SnapshotItems` | the commits on the way |
| `CompleteDiscoveryRun`, `CompleteMarketSync`, `CompleteCollection` | the commit that ends a run |
| `BodyFails`, `FailRun` | the `except` clause and `fail_*_run` |
| `Abandon` | a `CancelledError` passes `except Exception`; `fail_*_run` itself may raise |
| `Unlock` | the `finally` of `pipeline_lock` |
| `Crash`, `ReapSession`, `LoseSession` | external: the process dies, the server notices, the server drops a session of a live process |

A commit may take effect and still raise in the service (`AckLoss`): the three
completing actions then lead to the `except` clause, which fails a run that has
ended, and `OutcomeIsFinal` says that nobody else does.

Abstractions: the three tables are one map from run ids (a run id carries its
layer); one strategy is registered, so one log entry; the two SELECTs of the
recovery are one action; the content of a run is in the other modules. A lock on
a database that is not PostgreSQL (always granted) is a development setting and
not modelled.

### MarketRegistry and CanonicalRegistry

Conditions, discovery runs and synchronisations are numbers, since the code
sorts conditions and orders runs by their start. `StartSync` is recovery, input
and creation of the run row (nothing else writes these tables in between);
`OpenQuery`/`ClosedQuery` are the two calls of one batch; `AnswerRefused` any of
the `ValueError`s of parsing and indexing; `CompleteSync` the one transaction of
`complete_market_sync_run`, `RejectSync` its rollback; `FailSync`, `CallFails`
and `Crash` the failures, `LoseAcknowledgement` the failure of a synchronisation
whose commit has taken effect: its row reads `failed` while the markets stay. Gamma changes an answer between any two steps; an
answer may be omitted or invalid. A payload keeps what is decided by: `closed`
and `archived` with null, and the two tokens with their outcomes. The other
columns (slug, title, end date, `active`, `enable_order_book`) are copied and
never decide in this layer.

`CanonicalRegistry` is the promise: discovery runs finish, and one action
publishes new markets with both of their tokens and acknowledges runs whose
conditions are all registered; a token's owner never changes.

### OrderbookCollection

`SelectItems` commits the items; `BatchAnswered` handles one reply, which for
every token holds nothing, a good row, a refused row (malformed, or naming
another market) or several rows; `BatchFails` is a batch whose call raises;
`CompleteRun` is the settling transaction with the status of
`_collection_status`. `Answered` keeps the order of the code: repeated tokens are
noted first, whoever asked for them, then each token of the batch.
`AllowUnrequested` decides whether a reply may hold tokens of another batch or of
none.

The settling transaction is `Commit`. `CompleteRun` is a commit that is acknowledged,
`LoseAcknowledgement` one that takes effect and still raises: `FailRun`, the `except` clause,
then marks the run `failed` and counts all of its items as failures, while the items stay
completed and the books stay stored. A commit before that one whose acknowledgement is lost is
the commit followed by `BodyFails` or `Crash`.

### Coordinator

`Wake` computes the due layers and their next deadlines, `RunDiscovery`,
`RunMarkets`, `SkipOrderbooks`, `Collect`/`EndCollection` are the layers with any
outcome their service has, `EndLayer` the cascade. `Tick` lets time pass anywhere,
so a layer takes any time and the loop may oversleep. One clock stands for the
monotonic clock of the deadlines and for the wall clock of the registry age.
`served` counts deadlines and is no variable of the code.

### PolymarketClient

Calls are tasks of one event loop. `Admit` is the limiter of the endpoint
(external: `asynciolimiter.StrictLimiter`, one admission per period), `Send` the
entry of `async with self._semaphore`, `Answer` and `Refuse` the ways its body is
left, `Release` its exit; `Resume` follows the `asyncio.sleep` of a 429, and
`Cancel` is a `CancelledError` at any `await`. Which waiting call comes next is
left open (the libraries serve them in order); time is counted down in
`cooldown` and `pause`. `refused` counts answers and is no variable of the code.
`_get_json` and `_post_json` have the same control and are one model.

### WhaleLeaderboard

`pc` is where `discover` stands, `task[t]` the task of a ranking or a wallet.

| action | code |
|---|---|
| `LeaderboardPage`, `PositionsPage` | one turn of the loops of `_fetch_leaderboard` and `_collect_single_wallet_positions`; `Turn` is how a turn ends |
| `RequestFails` | the client raises, or the answer is refused as a whole |
| `SelectWallets` | the first `gather` returns, the wallets on both rankings get a task |
| `Return` | the second `gather` returns, the evidence is grouped by market |
| `Raise` | a `gather` fails with the first error; the other tasks keep running |
| `Cancel` | a `CancelledError` in `discover` |
| `CloseLoop` | external: `asyncio.run` cancels what is left |
| `ServerChanges` | external: rankings and holdings move between two pages |

A row keeps only the wallet or the market it stands for, or that it does not parse;
several rows may spell one wallet. The bounds that `LeaderboardParams` and
`CurrentPositionsParams` put on a request are `OffsetBound` and `Malformed`. The call of
the client is not a step of its own: the page a task handles is the page the server
has at that moment.

### OrderbookParser

`Parse` stores `Outcome`, which is `parse_orderbook_payload`; `Levels`, `Top`, `Best`, `Depth`, `InvalidReason` and
`ExchangeTimestamp` are its helpers, with the order of their early returns and with
Python's stable sort. Prices are integers of which `One` make the price 1. `NaN` and
Infinity (`Far`, far from every other number) are decimals that parse. NaN raises when it is
compared, and `ParsedOrderBook` validates its fields as finite decimals, so each of them costs
the token its snapshot where it reaches a best price, a depth or one of the decimals that are
copied (`last_trade_price`, `min_order_size`, `tick_size`; `copied` in a payload and in a book).
`Body` and `Book` are the sets of the payloads and of the books; times are counted in seconds
from 1970, of which `datetime` holds those from `FirstSecond` to `LastSecond`. Left out are
decimals so large or so long that the decimal context rounds or overflows, texts and the flag
that are copied as they are, and the midpoint, which is finite when the best prices are.

## 3. Runs

`I` invariant, `A` action property, `L` liveness, `R` refinement.

| run | checks | bounds, and why they are enough |
|---|---|---|
| `pipeline_runs` | I `TypeOK` `LockHeldThroughout` `OnlyOwnRunIsOpen` `DetailsEndWithRun`, A `OutcomeIsFinal`, L `OrphansAreRecovered` | 2 processes, 4 runs (all layers, one twice), 2 crashes, lost acknowledgements: an orphan of each layer, a recovery that is itself interrupted, a live rival at every step |
| `pipeline_runs_session_loss` | A `CompletedSyncIsFinal` | sessions are lost any number of times, acknowledgements too, 2 market runs |
| `pipeline_runs_concurrent` | *violated:* `NoConcurrentWriters` | as above |
| `market_registry` | I `TypeOK` `SyncedRunsAreRegistered` `TokensMatchPayloads` `SyncsAreAllOrNothing` `CurrentStatusIsLatestSnapshot`, A `TerminalMarketsRest`, R `ImplementsCanonicalRegistry` | 2 conditions in batches of 1, 2 discovery runs ending at any time, 3 synchronisations, a change of an answer and a fault: enough for a market to close, be rediscovered and come back, for swapped outcomes and for a token claimed by two markets |
| `market_registry_live` | L `PendingRunsAreSynced` | one discovery run, both conditions in one batch; ended runs are forgotten so that synchronisations go on for ever |
| `orderbook_collection` | I `TypeOK` `BooksMatchItems` `StatusTellsOutcome` `CountsAddUp`, A `EndedRunsAreFrozen`, L `CollectionsEnd` | 3 tokens in batches of 2 (full, short, single), 2 runs, 2 faults: a crash, a failing body or a lost acknowledgement in each of two runs, or one after the other in the same run |
| `orderbook_collection_unrequested` | I `NothingIsLost` | the same with unrequested rows |
| `coordinator` | I `TypeOK` `DeadlinesAreFixed` `FreshAfterSync`, A `MissedTicksAreCoalesced`, L `DueLayersRun` | intervals 3, 2, 1 to time 8: deadlines meet, cycles overrun several of them, the registry passes its age limit of 4 |
| `coordinator_stale` | *violated:* `CollectsFromFreshRegistry` | to time 9 |
| `polymarket_client` | I `SlotsAreConserved` `RefusalsAreCounted`, L `EveryCallEnds` | 3 calls, 2 endpoints, 2 slots; one endpoint with 2 retries, one with none |
| `whale_leaderboard` | I `LeaderboardsAreRanked` `PositionsAreComplete` `EvidenceIsComplete` `ResultsAreWhole` `RequestsAreAdmissible`, L `ComesToRest` | pages of 2 rows, 2 pages in reach, the best 2 of 3 wallets; 6 rankings and 2 holdings with rows that repeat within and across pages, full last pages, rows past the reach and rows that do not parse before and after enough is found; one change of the server |
| `orderbook_parser` | I `DepthsAreByRank` `ReasonsTellTheBook` `RefusalsAreExplained` `TimestampsAreInstants` | every book of up to 3 levels on one side and 1 on the other, or 2 on both, from 8 rows (prices 0 to 1 in thirds, equal prices, NaN prices and sizes, broken rows), and again from 5 rows with infinite prices and sizes; every mixture of missing, finite, NaN and infinite decimals in the three copied fields; depths of 1 and 2 levels; 21 integer timestamps from before the first to past the last second, around every limit |

The properties of `whale_leaderboard` that compare with the lists of the server
(`LeaderboardsAreRanked`, `PositionsAreComplete`, `EvidenceIsComplete`) are stated for a
server that keeps still while it is read: paging by offset over a list that moves
misses and repeats rows, and nothing in the repository says otherwise. The other three
hold for a server that changes.

Deadlock is checked in every run.

Fairness:

- `PipelineRuns!FairSpec`: a service that can step does (weakly fair per
  process), some process starts a service while the lock is free (the scheduler's
  loop, or cron), and the server ends the sessions of dead clients (TCP
  keep-alive). Strong fairness of the two recovery steps says that the database
  does not refuse every recovery for ever: without it `LeaveWithoutRun` may be
  taken each time.
- `MCMarketRegistryLive!LiveSpec`: a synchronisation under way goes on, and one is
  started again as long as there is something to do.
- `OrderbookCollection!FairSpec`: a collection goes on, and some service
  recovers after a crash (the next to get the lock, whatever its layer).
- `PolymarketClient!FairSpec`: ready tasks run, a request is answered or times
  out, time passes; strong fairness of `Admit` and `Send` stands for the order in
  which limiter and semaphore serve those who wait.
- `Coordinator!Spec`: the event loop runs what it can run; the clock is not fair.
- `WhaleLeaderboard!FairSpec`: the event loop resumes some task or coroutine that is
  ready (`Resume`), since every request ends (`PolymarketClient!EveryCallEnds`). Nobody
  cancels and no loop is closed by fairness: the tasks end by themselves.

## 4. Findings

- `pipeline_runs_concurrent`: the lock is taken once, on a connection nobody looks
  at again, while every repository call opens its own. When the server ends that
  session, the service goes on and a second one acquires the lock beside it
  (README.md:97 says they do not write concurrently). The shortest trace ends with two
  services inside their recovery transactions at once; that the second fails the live run
  of the first as an orphan and writes beside it is a continuation of such a trace.
  What survives is checked and proved: a completed synchronisation stays completed. The
  other properties of `PipelineRuns` are checked while sessions survive, and say nothing of
  this case.
- `coordinator_stale`: the age limit of README.md:99 is counted to the begin of
  the cycle, so after slow upstream layers books are collected from an older
  registry.

Not a finding, but visible in `orderbook_collection_unrequested`: rows of tokens
nobody asked for enter `errors_by_token`, so with such replies `CountsAddUp` and
`BooksMatchItems` do not hold; `NothingIsLost` is what does.

## 5. Proofs

All theorems hold for every value of the constants allowed by the named
assumptions of the modules (sentinels that are no data, finite sets of tokens and
calls, positive batch sizes, periods and limits, a limit between seconds and
milliseconds that is itself a possible second, 1970 among the seconds of `datetime`,
an Infinity above the price 1). Every proof has the same shape: the
initial states satisfy an inductive invariant, one lemma says that each step keeps
it (one proof step per action), and the property follows from it.

**`PipelineRunsProofs`.** The safety properties are not inductive on their own: that
recovery finds every orphan (`OnlyOwnRunIsOpen`) needs that what it read is still
true when it writes (`ReadIsCurrent`), which needs that no other service is at
work (`LockHeldThroughout`) and that a service owns a running row while it
is in its body (`OwnRunIsRunning`). Hence `IInv` = types, the lock, and `LedgerInv`.
`LockStep` and `OthersAreIdle` give the exclusion, `LedgerStep` the rest.

- `TypeCorrect` (`TypeOK`), for any `SessionLoss` and `AckLoss`.
- `LockIsHeldThroughout`, `ServicesExclude` (`NoConcurrentWriters`), `RecoveryIsComplete`
  (`OnlyOwnRunIsOpen`), `DetailsEnd` (`DetailsEndWithRun`), `OutcomesAreFinal`
  (`OutcomeIsFinal`): assuming that sessions are not lost. The run
  `pipeline_runs_concurrent` shows that the assumption is needed.
- `CompletedSyncsAreFinal` (`CompletedSyncIsFinal`), for any `SessionLoss`, from an
  invariant of its own (`SyncInv`: recovery loads no market row, services
  never share a row).

**`MarketRegistryProofs`.** `IInv` has four parts besides the properties themselves:
`DiscoveryInv` (only finished discovery runs have observations or are acknowledged, and one
observer of a condition is the latest), `LedgerInv` (runs are started in order, and only the
current one goes on), `ProgressInv` (a synchronisation asks for what its discovery runs
observed and for what is to be refreshed; each of these has been retrieved or is still to
be) and `HistoryInv` (of a market's snapshots one is the latest, and it is current).
`CommitCases` and `CommitEffect` say once what the transaction of
`complete_market_sync_run` leaves, `AtCommit` what holds before it.

- `TypeCorrect`; `AllOrNothingAlways` (`SyncsAreAllOrNothing`), `AcknowledgedIsRegistered`
  (`SyncedRunsAreRegistered`), `TokensAgree` (`TokensMatchPayloads`), `StatusIsLatest`
  (`CurrentStatusIsLatestSnapshot`), `EndedMarketsRest` (`TerminalMarketsRest`).
- `RegistryIsCanonical` (`ImplementsCanonicalRegistry`): every step is one of
  `CanonicalRegistry` or a stutter. `CommitPublishes` is the step that is neither
  obvious nor a stutter.

**`OrderbookCollectionProofs`.** `IInv` says what the collection under way holds
(`LocalInv`: every selected token is still to do, parsed, or has an error), that runs that
have not ended have neither books nor successes nor settled items (`OpenRunsInv`), that without
unrequested rows the three are disjoint (`PartitionInv`), and that the counter of requested
tokens is the number of items (`SelectionInv`). `FrozenStep` shows that no step
touches an ended run except its own `except` clause, and `FailEndedRun` that this one leaves
items, books and successes alone; `EndingStep` shows that a run ends either failed as a whole or by
its own commit, `CommitEffect` what that commit leaves. The counters need the
library's facts on cardinalities (`SubsetsAreCounted`).

- `TypeCorrect`; `NothingLost` (`NothingIsLost`) and `EndedRunsFrozen`
  (`EndedRunsAreFrozen`: items and books never, status and failures only in that clause), for any replies; `BooksMatch` (`BooksMatchItems`), `StatusTells`
  (`StatusTellsOutcome`) and `CountersAdd` (`CountsAddUp`) when replies hold only what was
  asked for. A run that is failed after its commit has its true successes and all of its
  items as failures, which is how `StatusTellsOutcome` tells it from a run that failed.

**`CoordinatorProofs`.** `ScheduleInv` adds to `DeadlinesAreFixed` that nothing is answered
and nobody sleeps before the bootstrap is over; `QuotientShift` is the arithmetic of the
division that skips missed deadlines. `CycleInv` says that a registry synchronised in this
cycle is not older than the cycle, and that its cascade waits for the orderbook layer.

- `TypeCorrect`, `DeadlinesStayFixed` (`DeadlinesAreFixed`), `TicksAreCoalesced`
  (`MissedTicksAreCoalesced`), `SyncedCyclesCollect` (`FreshAfterSync`).

**`PolymarketClientProofs`.** `SlotsStep` counts the calls that hold a slot with
the library's facts on cardinalities; `AttemptsMatchRefusals` is the inductive form of
`RefusalsAreCounted` (a call was refused in each attempt before the current one).

- `TypeCorrect`, `SlotsConserved` (`SlotsAreConserved`), `RefusalsCounted`
  (`RefusalsAreCounted`).

**`WhaleLeaderboardProofs`.** `TasksAreGathered` ties the tasks to where `discover` stands;
`OffsetsAreInReach` says that a task asks at the beginning of a page that is in reach;
`PositionsAreRead` that, on a server that keeps still, a task has read exactly the part
of the list before its offset, and `RankingsAreRead` that a ranking's task has found
exactly the wallets of the rows above its offset, each at its rank, and fewer than it
needs. `PagesInReach` is the arithmetic of the last page. The loop over the rows of a page
keeps `Ranked`: the list holds the wallets seen so far in the order of their ranks
(`ReadingRanks`). The grouping is counted: after k items of one wallet, and after k wallets,
a market's evidence holds each position as often as these have listed it
(`AddWalletCounts`).

- `TypeCorrect`; `ResultsWhole` (`ResultsAreWhole`) and `RequestsAdmissible`
  (`RequestsAreAdmissible`), also for a server that changes; `PositionsComplete`
  (`PositionsAreComplete`), `LeaderboardsRanked` (`LeaderboardsAreRanked`) and
  `EvidenceComplete` (`EvidenceIsComplete`), for rankings and lists of any length with any
  repetitions, and limits of any size.

**`OrderbookParserProofs`.** The inductive invariant is `ResultIsOutcome`: what is stored is
what the payload parses to. The rest is about `Outcome`. `SortedBy` is the invariant of the
sort: the first k levels stand in the order of a permutation that respects price and,
between equal prices, the order of the payload; `InsertSorts` is one turn. From it
`AmongSorted` has that the first n sorted levels are those that fewer than n precede, and
`DepthIsTotal` that their sum is the total over that set, in whatever order the set is
summed (`TotalAdds`), or NaN if the size of one of them is not finite. `BestExists` finds the
best price, `InfiniteBest` says when it is not finite, `Decimals` divides the decimals into the
finite ones and the three others,
`ReasonOfPrices` follows the early returns, `TimestampTypes` and `InstantsAgree` are the
arithmetic of the division by 1000.

- `TypeCorrect` (the books that are stored hold finite numbers only in the fields that are validated), `ReasonsTell`
  (`ReasonsTellTheBook`), `DepthsRanked` (`DepthsAreByRank`), `RefusalsExplained`
  (`RefusalsAreExplained`), `TimestampsAgree` (`TimestampsAreInstants`), for payloads of any
  length and any depths.

**`FoldTheorems`.** The library states induction for an operator, which the provers here
cannot instantiate. `NatSetInduction` states it for a set of numbers instead (from
`LeastNumber`, the well-foundedness of < in the library), and `LoopInvariant` for a loop:
`J[k]` is the set of the values the accumulator may have after k turns, and if each turn
leads from `J[k - 1]` to `J[k]`, the loop ends in `J[n]`. `Run` is the definition that folds
of the community modules expand to; `RunUnfolds` gives it its recursive equation. The
proof modules instantiate it once for each loop, with the body of the loop for `Step`. These
are lemmas for the theorems above and say nothing of the system by themselves.

Only model-checked: the liveness properties (`OrphansAreRecovered`, `PendingRunsAreSynced`,
`CollectionsEnd`, `DueLayersRun`, `EveryCallEnds`, `ComesToRest`). Fairness and ENABLED are
beyond the prover. Every safety property of the passing runs is a theorem.

## 6. What is left

Not modelled, and why:

- `run_once` of the coordinator (its bootstrap cycle without a schedule) and
  `_aggregate_status` (only reports), argument parsing and output of `cli.py`: no state is
  decided there.
- Settings, logging, time zone normalisation; DDL and the migration runner.
- Parameter classes: the bounds a request meets are in `WhaleLeaderboard`; the
  validators of arguments that no caller passes are left out.
- Columns that are copied as they are: evidence JSON, market titles and slugs, and of a book
  `neg_risk` and `hash`; the midpoint is one division.
- What paging by offset misses or repeats while a list moves under it: the model has it
  (`ServerChanges`), but nothing in the repository promises anything for it.
- What a collection writes into a run another service has failed after the loss of
  its lock session: no document promises anything for it, and the loss itself is the
  finding `pipeline_runs_concurrent`.

Worth adding: an abstract specification of what a collection promises the readers of its
books, refined by `OrderbookCollection` as `CanonicalRegistry` is by `MarketRegistry`; a
composition `PipelineLayers` of discovery, registry and collection over one
lock with lost sessions, where two services may hold the same run and the one that lost its
session writes after it was failed.
