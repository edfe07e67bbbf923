------------------------ MODULE OrderbookCollection ------------------------
(***************************************************************************)
(* The orderbook collection: orderbooks/service.py and                     *)
(* orderbooks/repository.py.  A run persists the tokens it selected as     *)
(* pending items, asks the CLOB for their books in batches, notes an error *)
(* for every token it gets no usable book for, and settles all items,      *)
(* books and counters in one transaction.                                  *)
(*                                                                         *)
(* A commit may take effect and still raise in the service.  It makes a    *)
(* difference where the run is settled (LoseAcknowledgement); elsewhere it *)
(* is the commit followed by BodyFails or Crash.                           *)
(*                                                                         *)
(* One run is under way at a time (PipelineRuns).  A CLOB reply is what it *)
(* holds for every token: no row, one good row, one row that names another *)
(* market or that the parser refuses, or several rows.                     *)
(***************************************************************************)
EXTENDS Integers, FiniteSets

CONSTANTS
    Token,             \* numbers, in the order of the selection
    RunId,             \* numbers, in the order of the runs
    BatchSize,
    AllowUnrequested,  \* whether a reply may hold tokens of no or another batch
    MaxFaults          \* bound on failing calls, lost acknowledgements and crashes

ASSUME ConstantAssumption ==
    /\ Token \subseteq Nat /\ IsFiniteSet(Token)
    /\ RunId \subseteq Nat \ {0}
    /\ BatchSize \in Nat \ {0}
    /\ AllowUnrequested \in BOOLEAN
    /\ MaxFaults \in Nat

VARIABLES
    status,   \* orderbook_collection_runs.status
    counts,   \* selected_token_count, success_count and failure_count
    items,    \* status of orderbook_collection_items, by run and token
    books,    \* orderbook_snapshots: the tokens with a book, by run
    pc, cur,  \* the collection under way and its run
    todo,     \* selected tokens of the batches still to ask for
    parsed,   \* tokens with a parsed book: "snapshots"
    errors,   \* keys of errors_by_token
    faults

tables == <<status, counts, items, books>>
local == <<pc, cur, todo, parsed, errors>>
vars == <<tables, local, faults>>

Ended == {"completed", "partial", "failed"}
Answer == {"none", "good", "refused", "several"}

TypeOK ==
    /\ status \in [RunId -> {"absent", "running"} \cup Ended]
    /\ counts \in [RunId -> [selected : Nat, success : Nat, failure : Nat]]
    /\ items \in [RunId -> [Token -> {"none", "pending", "completed", "failed"}]]
    /\ books \in [RunId -> SUBSET Token]
    /\ pc \in {"idle", "created", "batches", "failing"}
    /\ cur \in RunId \cup {0}
    /\ todo \subseteq Token /\ parsed \subseteq Token /\ errors \subseteq Token
    /\ faults \in 0..MaxFaults

Init ==
    /\ status = [r \in RunId |-> "absent"]
    /\ counts = [r \in RunId |-> [selected |-> 0, success |-> 0, failure |-> 0]]
    /\ items = [r \in RunId |-> [t \in Token |-> "none"]]
    /\ books = [r \in RunId |-> {}]
    /\ pc = "idle" /\ cur = 0
    /\ todo = {} /\ parsed = {} /\ errors = {}
    /\ faults = 0

Selected(r) == {t \in Token : items[r][t] # "none"}
Orphans == {r \in RunId : status[r] = "running"}

Leave == pc' = "idle" /\ cur' = 0 /\ todo' = {} /\ parsed' = {} /\ errors' = {}

---------------------------------------------------------------------------
(* Starting: recovery, the run row, the items.                             *)

\* Mutant: all items are failed, not just the pending ones.
FailedAll(S) ==
    [r \in RunId |-> [t \in Token |->
        IF r \in S /\ items[r][t] # "none" THEN "failed" ELSE items[r][t]]]

\* Pending items of the runs in S are failed.
FailedPending(S) ==
    [r \in RunId |-> [t \in Token |->
        IF r \in S /\ items[r][t] = "pending" THEN "failed" ELSE items[r][t]]]

\* Mutant: the rows of orphaned runs are left as they are.
NotRecovered == status

RecoveredStatus == [r \in RunId |-> IF r \in Orphans THEN "failed" ELSE status[r]]

StartRun(r) ==
    /\ pc = "idle"
    /\ status[r] = "absent" /\ \A q \in RunId : q < r => status[q] # "absent"
    /\ status' = [RecoveredStatus EXCEPT ![r] = "running"]
    /\ items' = FailedPending(Orphans)
    /\ pc' = "created" /\ cur' = r
    /\ UNCHANGED <<counts, books, todo, parsed, errors, faults>>

\* "stale_market_registry", "no_collectable_markets", or no run row: only the
\* recovery has happened.
SkipRun ==
    /\ pc = "idle"
    /\ status' = RecoveredStatus
    /\ items' = FailedPending(Orphans)
    /\ UNCHANGED <<counts, books, local, faults>>

\* The active markets were checked to be there just before.
SelectItems(S) ==
    /\ pc = "created"
    /\ S # {}
    /\ items' = [items EXCEPT ![cur] = [t \in Token |-> IF t \in S THEN "pending" ELSE "none"]]
    /\ counts' = [counts EXCEPT ![cur].selected = Cardinality(S)]
    /\ todo' = S
    /\ pc' = "batches"
    /\ UNCHANGED <<status, books, cur, parsed, errors, faults>>

---------------------------------------------------------------------------
(* The batches.                                                            *)

Batch == {t \in todo : Cardinality({u \in todo : u <= t}) <= BatchSize}

Replies ==
    {reply \in [Token -> Answer] :
        AllowUnrequested \/ \A t \in Token \ Batch : reply[t] = "none"}

\* Mutant: a repeated row is an error, and the last row is used as well.
AnsweredTwice(reply) ==
    LET several == {t \in Token : reply[t] = "several"}
    IN  /\ parsed' = parsed \cup {t \in Batch : reply[t] \in {"good", "several"}}
        /\ errors' = errors \cup several \cup {t \in Batch : reply[t] \notin {"good", "several"}}

\* Mutant: an omitted token gets no error.
OmittedUnnoticed(reply) ==
    LET several == {t \in Token : reply[t] = "several"}
        fresh == Batch \ (errors \cup several)
    IN  /\ parsed' = parsed \cup {t \in fresh : reply[t] = "good"}
        /\ errors' = errors \cup several \cup {t \in fresh : reply[t] = "refused"}

\* Repeated tokens are noted first, whoever asked for them; then each token of
\* the batch that has no error gets its book or an error.
Answered(reply) ==
    LET several == {t \in Token : reply[t] = "several"}
        fresh == Batch \ (errors \cup several)
    IN  /\ parsed' = parsed \cup {t \in fresh : reply[t] = "good"}
        /\ errors' = errors \cup several \cup {t \in fresh : reply[t] # "good"}

BatchAnswered ==
    /\ pc = "batches" /\ todo # {}
    /\ \E reply \in Replies : Answered(reply)
    /\ todo' = todo \ Batch
    /\ UNCHANGED <<tables, pc, cur, faults>>

\* The call raises or returns no list: the error is that of the whole batch.
BatchFails ==
    /\ pc = "batches" /\ todo # {}
    /\ errors' = errors \cup Batch
    /\ todo' = todo \ Batch
    /\ UNCHANGED <<tables, pc, cur, parsed, faults>>

---------------------------------------------------------------------------
(* complete_orderbook_collection_run.                                      *)

\* Mutant: a status the column's readers do not know.
StatusIncomplete(success, failure) == IF failure = 0 THEN "completed" ELSE "incomplete"

CollectionStatus(success, failure) ==
    IF failure = 0 THEN "completed" ELSE IF success = 0 THEN "failed" ELSE "partial"

\* Mutant: the UPDATE of the items is not restricted to the run.
SettledInAllRuns ==
    [r \in RunId |-> [t \in Token |->
        IF items[r][t] = "none" THEN "none"
        ELSE IF t \in errors THEN "failed"
        ELSE IF t \in parsed THEN "completed"
        ELSE items[r][t]]]

\* The errors are written after the books, and only to rows that exist.
Settled ==
    [r \in RunId |-> [t \in Token |->
        IF r # cur \/ items[r][t] = "none" THEN items[r][t]
        ELSE IF t \in errors THEN "failed"
        ELSE IF t \in parsed THEN "completed"
        ELSE items[r][t]]]

Commit ==
    /\ pc = "batches" /\ todo = {}
    /\ LET success == Cardinality(parsed)
           failure == Cardinality(errors)
       IN  /\ status' = [status EXCEPT ![cur] = CollectionStatus(success, failure)]
           /\ counts' = [counts EXCEPT ![cur].success = success, ![cur].failure = failure]
    /\ items' = Settled
    /\ books' = [books EXCEPT ![cur] = parsed]

CompleteRun == Commit /\ Leave /\ UNCHANGED faults

\* The commit raises after it has taken effect: the except clause is about to
\* fail a run that has ended.
LoseAcknowledgement ==
    /\ Commit
    /\ faults < MaxFaults
    /\ faults' = faults + 1
    /\ pc' = "failing"
    /\ UNCHANGED <<cur, todo, parsed, errors>>

---------------------------------------------------------------------------
(* Failures.                                                               *)

\* A database call or the construction of the client raises in the body.
BodyFails ==
    /\ pc \in {"created", "batches"}
    /\ faults < MaxFaults
    /\ faults' = faults + 1
    /\ pc' = "failing"
    /\ UNCHANGED <<tables, cur, todo, parsed, errors>>

\* fail_orderbook_collection_run counts all items of the run as failures, and
\* does not ask whether the run has ended.
FailRun ==
    /\ pc = "failing"
    /\ status' = [status EXCEPT ![cur] = "failed"]
    /\ items' = FailedPending({cur})
    /\ counts' = [counts EXCEPT ![cur].failure = Cardinality(Selected(cur))]
    /\ Leave
    /\ UNCHANGED <<books, faults>>

\* The process dies, is cancelled, or fails to write the failure.
Crash ==
    /\ pc # "idle"
    /\ faults < MaxFaults
    /\ faults' = faults + 1
    /\ Leave
    /\ UNCHANGED tables

---------------------------------------------------------------------------
CollectionStep ==
    \/ \E S \in SUBSET Token : SelectItems(S)
    \/ BatchAnswered \/ BatchFails \/ CompleteRun \/ FailRun

Next ==
    \/ \E r \in RunId : StartRun(r)
    \/ SkipRun
    \/ CollectionStep
    \/ BodyFails \/ LoseAcknowledgement \/ Crash

Spec == Init /\ [][Next]_vars

\* A started collection goes on, and some service recovers after a crash: the
\* next one to get the lock, whatever its layer.
FairSpec == Spec /\ WF_vars(CollectionStep) /\ WF_vars(SkipRun)

---------------------------------------------------------------------------
(* Properties.                                                             *)

\* When a run has ended, every item it selected is settled, and completed
\* exactly if the run holds a book of its token: no book without its item, no
\* token both failed and collected, whatever mixture of batches failed.
BooksMatchItems ==
    \A r \in RunId :
        status[r] \in Ended =>
            /\ books[r] = {t \in Token : items[r][t] = "completed"}
            /\ \A t \in Token : items[r][t] # "pending"

\* The status of an ended run tells what became of its items: "completed" means
\* all of them, "partial" some.  "failed" means none, or a run that its except
\* clause failed after a commit whose acknowledgement was lost; such a run can be
\* told by its counters: like those of every ended run its successes are the
\* items it completed, and yet all its items count as failures.
StatusTellsOutcome ==
    \A r \in RunId :
        LET outcomes == {items[r][t] : t \in Selected(r)}
            collected == {t \in Selected(r) : items[r][t] = "completed"}
        IN  /\ status[r] = "completed" => outcomes = {"completed"}
            /\ status[r] = "partial" => outcomes = {"completed", "failed"}
            /\ status[r] \in Ended => counts[r].success = Cardinality(collected)
            /\ status[r] = "failed" /\ collected # {} =>
                  counts[r].failure = Cardinality(Selected(r))

\* In a run that collected anything the counters count the selected tokens,
\* each once: successes are the books, and the rest are failures.
CountsAddUp ==
    \A r \in RunId :
        status[r] \in {"completed", "partial"} =>
            /\ counts[r].success = Cardinality(books[r])
            /\ counts[r].success + counts[r].failure = counts[r].selected

\* Items and books of a run that has ended never change, whoever fails, recovers
\* or settles what.  Its status and its failures change only in the except clause
\* of the collection that committed it (service.py:141), and only to "failed" and
\* to all of its items.
EndedRunsAreFrozen ==
    [][\A r \in RunId :
          status[r] \in Ended =>
             /\ items'[r] = items[r] /\ books'[r] = books[r]
             /\ \/ status'[r] = status[r] /\ counts'[r] = counts[r]
                \/ /\ pc = "failing" /\ cur = r /\ pc' = "idle"
                   /\ status'[r] = "failed"
                   /\ counts'[r] = [counts[r] EXCEPT !.failure = Cardinality(Selected(r))]]_vars

\* Whatever tokens the CLOB adds to its replies, no selected token is lost: it
\* ends completed, and then with a book, or failed, and a completed run has the
\* books of all its items.
NothingIsLost ==
    \A r \in RunId :
        status[r] \in Ended =>
            /\ \A t \in Selected(r) :
                  items[r][t] = "failed" \/ (items[r][t] = "completed" /\ t \in books[r])
            /\ books[r] \subseteq Selected(r)
            /\ status[r] = "completed" => Selected(r) = books[r]

\* Every run that was started ends, even when all of its batches fail.
CollectionsEnd == \A r \in RunId : status[r] = "running" ~> status[r] \in Ended

---------------------------------------------------------------------------
(* Inductive invariants behind the safety properties, used by the proofs.  *)

\* The collection under way has a row, which runs until its commit, and holds what
\* its place in the code says.
LocalInv ==
    /\ pc # "idle" => cur \in RunId /\ status[cur] # "absent"
    /\ pc \in {"created", "batches"} => status[cur] = "running"
    /\ pc \in {"idle", "created"} => todo = {} /\ parsed = {} /\ errors = {}
    /\ pc = "created" => Selected(cur) = {}
    /\ pc = "batches" =>
          /\ todo \cup parsed \subseteq Selected(cur)
          /\ Selected(cur) \subseteq todo \cup parsed \cup errors

\* A run that has not ended has no books, no successes and only pending items.
OpenRunsInv ==
    \A r \in RunId :
        status[r] \in {"absent", "running"} =>
            /\ books[r] = {} /\ counts[r].success = 0
            /\ \A t \in Token : items[r][t] \in {"none", "pending"}
            /\ status[r] = "absent" => \A t \in Token : items[r][t] = "none"

\* While replies hold only what was asked for, the selected tokens are divided.
PartitionInv ==
    pc = "batches" /\ ~AllowUnrequested =>
        /\ errors \subseteq Selected(cur)
        /\ todo \cap (parsed \cup errors) = {} /\ parsed \cap errors = {}

\* A collection that asks for books has selected some, and counted them.
SelectionInv ==
    pc = "batches" =>
        /\ Selected(cur) # {}
        /\ counts[cur].selected = Cardinality(Selected(cur))

IInv == LocalInv /\ OpenRunsInv /\ PartitionInv /\ SelectionInv /\ NothingIsLost
============================================================================
