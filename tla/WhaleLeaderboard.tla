--------------------------- MODULE WhaleLeaderboard ---------------------------
(***************************************************************************)
(* The strategy of discovery/strategies/whale_leaderboard.py: the wallets  *)
(* that lead both the PNL and the VOL ranking, and the positions they      *)
(* hold, grouped into one observation for every market.                    *)
(*                                                                         *)
(* Both rankings, then the positions of all selected wallets, are read     *)
(* page by page by tasks that run at the same time under asyncio.gather.   *)
(* Gather fails with its first failing task and leaves the others running. *)
(* The rankings and holdings are the server's and may change between two   *)
(* pages.  A step of a task is the handling of one whole page.             *)
(***************************************************************************)
EXTENDS Integers, FiniteSets, SequencesExt

CONSTANTS
    Row,               \* rows of a ranking; several may spell the same wallet
    Wallet,            \* lower-case addresses
    NoWallet,
    WalletOf,          \* what _parse_leaderboard_wallet makes of a row
    Malformed,         \* wallets with a digit CurrentPositionsParams refuses
    Position,          \* rows of a wallet's positions
    Condition,
    NoCondition,
    ConditionOf,       \* NoCondition for a row that lacks a required field
    WalletCount,       \* wallet_count
    LeaderboardLimit,  \* leaderboard_limit, the rows of a page
    LeaderboardReach,  \* the largest offset _fetch_leaderboard asks for: 1000
    PositionLimit,     \* POSITION_PAGE_LIMIT
    PositionReach,     \* MAX_POSITION_OFFSET
    OffsetBound,       \* the largest offset the parameters of a task accept
    Rankings,          \* rankings and holdings the server may have
    Holdings,
    MaxChanges         \* bounds how often they change

Order == {"PNL", "VOL"}
Task == Order \cup Wallet

ASSUME ConstantAssumption ==
    /\ NoWallet \notin Wallet /\ Order \cap Wallet = {} /\ Malformed \subseteq Wallet
    /\ WalletOf \in [Row -> Wallet \cup {NoWallet}]
    /\ ConditionOf \in [Position -> Condition \cup {NoCondition}] /\ NoCondition \notin Condition
    /\ {WalletCount, LeaderboardLimit, PositionLimit} \subseteq Nat \ {0}
    /\ {LeaderboardReach, PositionReach, MaxChanges} \subseteq Nat
    /\ OffsetBound \in [Task -> Nat]
    /\ \A o \in Order : LeaderboardReach <= OffsetBound[o]
    /\ \A w \in Wallet : PositionReach <= OffsetBound[w]
    /\ Rankings \subseteq Seq(Row) /\ Holdings \subseteq Seq(Position)

VARIABLES
    board,         \* the server's rankings
    held,          \* the server's positions of every wallet
    changes,
    pc,            \* where discover stands
    task,          \* state of the task of every ranking and wallet
    offset,        \* of the next page a task asks for
    wallets,       \* what _fetch_leaderboard has collected of a ranking
    positions,     \* what has been collected of a wallet's positions
    observations   \* the result: the evidence for every market

server == <<board, held, changes>>
vars == <<board, held, changes, pc, task, offset, wallets, positions, observations>>

Awaiting == {"leaderboards", "positions"}
Ended == {"returned", "raised", "cancelled"}

TypeOK ==
    /\ board \in [Order -> Seq(Row)] /\ held \in [Wallet -> Seq(Position)]
    /\ changes \in Nat
    /\ pc \in Awaiting \cup Ended
    /\ task \in [Task -> {"none", "asking", "done", "failed", "cancelled"}]
    /\ offset \in [Task -> Nat]
    /\ wallets \in [Order -> Seq(Wallet)] /\ positions \in [Wallet -> Seq(Position)]
    /\ observations \in [Condition -> Seq(Wallet \X Position)]

Init ==
    /\ board \in [Order -> Rankings] /\ held \in [Wallet -> Holdings] /\ changes = 0
    /\ pc = "leaderboards"
    /\ task = [t \in Task |-> IF t \in Order THEN "asking" ELSE "none"]
    /\ offset = [t \in Task |-> 0]
    /\ wallets = [o \in Order |-> <<>>] /\ positions = [w \in Wallet |-> <<>>]
    /\ observations = [c \in Condition |-> <<>>]

Goto(t, status) == task' = [task EXCEPT ![t] = status]

Smaller(m, n) == IF m <= n THEN m ELSE n

\* The rows the server answers: past the end of the list none.
Page(list, start, limit) == SubSeq(list, start + 1, Smaller(start + limit, Len(list)))

\* The end of the loop's body: after a short page the loop is left, else the
\* next page is due if the loop's condition lets it.
\* Mutant: the loop asks for one page beyond the largest offset.
TurnLate(t, page, limit, reach, more) ==
    IF Len(page) < limit
    THEN Goto(t, "done") /\ UNCHANGED offset
    ELSE /\ offset' = [offset EXCEPT ![t] = @ + limit]
         /\ Goto(t, IF more /\ offset[t] <= reach THEN "asking" ELSE "done")

\* Mutant: the offset grows by one row too many.
TurnSkipping(t, page, limit, reach, more) ==
    IF Len(page) < limit
    THEN Goto(t, "done") /\ UNCHANGED offset
    ELSE /\ offset' = [offset EXCEPT ![t] = @ + limit + 1]
         /\ Goto(t, IF more /\ offset[t] + limit + 1 <= reach THEN "asking" ELSE "done")

Turn(t, page, limit, reach, more) ==
    IF Len(page) < limit
    THEN Goto(t, "done") /\ UNCHANGED offset
    ELSE /\ offset' = [offset EXCEPT ![t] = @ + limit]
         /\ Goto(t, IF more /\ offset[t] + limit <= reach THEN "asking" ELSE "done")

---------------------------------------------------------------------------
(* One page of a ranking.                                                  *)

\* Mutant: a wallet that occurs again is counted again.
AbsorbAll(read, row) ==
    IF ~read.sound \/ Len(read.wallets) >= WalletCount THEN read
    ELSE IF WalletOf[row] = NoWallet THEN [read EXCEPT !.sound = FALSE]
    ELSE [read EXCEPT !.wallets = Append(@, WalletOf[row])]

\* The rows are read until one is not sound or enough wallets are found.
Absorb(read, row) ==
    IF ~read.sound \/ Len(read.wallets) >= WalletCount THEN read
    ELSE IF WalletOf[row] = NoWallet THEN [read EXCEPT !.sound = FALSE]
    ELSE IF WalletOf[row] \in ToSet(read.wallets) THEN read
    ELSE [read EXCEPT !.wallets = Append(@, WalletOf[row])]

Reading(o, page) == FoldLeft(Absorb, [sound |-> TRUE, wallets |-> wallets[o]], page)

LeaderboardPage(o) ==
    LET page == Page(board[o], offset[o], LeaderboardLimit)
        read == Reading(o, page)
    IN  /\ task[o] = "asking"
        /\ IF read.sound
           THEN /\ wallets' = [wallets EXCEPT ![o] = read.wallets]
                /\ Turn(o, page, LeaderboardLimit, LeaderboardReach,
                        Len(read.wallets) < WalletCount)
           ELSE Goto(o, "failed") /\ UNCHANGED <<wallets, offset>>
        /\ UNCHANGED <<server, pc, positions, observations>>

---------------------------------------------------------------------------
(* One page of a wallet's positions.                                       *)

PositionsPage(w) ==
    LET page == Page(held[w], offset[w], PositionLimit)
    IN  /\ task[w] = "asking"
        /\ IF w \notin Malformed /\ \A i \in DOMAIN page : ConditionOf[page[i]] # NoCondition
           THEN /\ positions' = [positions EXCEPT ![w] = @ \o page]
                /\ Turn(w, page, PositionLimit, PositionReach, TRUE)
           ELSE Goto(w, "failed") /\ UNCHANGED <<positions, offset>>
        /\ UNCHANGED <<server, pc, wallets, observations>>

\* The client raises, or its answer is no list or holds a row that is no object.
RequestFails(t) ==
    /\ task[t] = "asking"
    /\ Goto(t, "failed")
    /\ UNCHANGED <<server, pc, offset, wallets, positions, observations>>

---------------------------------------------------------------------------
(* discover itself.                                                        *)

\* Mutant: the leaders by PNL are taken whether or not they lead by VOL.
SelectedByOne == {w \in Wallet : w \in ToSet(wallets["PNL"])}

Selected == {w \in Wallet : \A o \in Order : w \in ToSet(wallets[o])}

\* The tasks the gather under way waits for.
Gathered == IF pc = "leaderboards" THEN Order ELSE Selected

SelectWallets ==
    /\ pc = "leaderboards"
    /\ \A o \in Order : task[o] = "done"
    /\ pc' = "positions"
    /\ task' = [t \in Task |-> IF t \in Selected THEN "asking" ELSE task[t]]
    /\ UNCHANGED <<server, offset, wallets, positions, observations>>

\* What the second gather returns: the positions of every selected wallet.
Collected == [w \in Selected |-> positions[w]]

\* One more item of a market's evidence.
AddItem(evidence, w, p) == [evidence EXCEPT ![ConditionOf[p]] = Append(@, <<w, p>>)]

AddWallet(results, evidence, w) ==
    IF w \in DOMAIN results
    THEN FoldLeft(LAMBDA sofar, p : AddItem(sofar, w, p), evidence, results[w])
    ELSE evidence

\* Evidence by market, in the order of the PNL ranking and of the pages.
Grouped ==
    FoldLeft(LAMBDA evidence, w : AddWallet(Collected, evidence, w),
             [c \in Condition |-> <<>>], wallets["PNL"])

\* Mutant: the result is made without waiting for every wallet.
ReturnEarly ==
    /\ pc = "positions"
    /\ \A w \in Selected : task[w] # "failed"
    /\ pc' = "returned"
    /\ observations' = Grouped
    /\ UNCHANGED <<server, task, offset, wallets, positions>>

Return ==
    /\ pc = "positions"
    /\ \A w \in Selected : task[w] = "done"
    /\ pc' = "returned"
    /\ observations' = Grouped
    /\ UNCHANGED <<server, task, offset, wallets, positions>>

Failed == \E t \in Gathered : task[t] = "failed"

\* Mutant: gather waits until all its tasks have failed.
RaiseTogether ==
    /\ pc \in Awaiting /\ \A t \in Gathered : task[t] = "failed"
    /\ pc' = "raised"
    /\ UNCHANGED <<server, task, offset, wallets, positions, observations>>

\* The error of one task leaves gather and discover; the other tasks run on.
Raise ==
    /\ pc \in Awaiting /\ Failed
    /\ pc' = "raised"
    /\ UNCHANGED <<server, task, offset, wallets, positions, observations>>

Stopped == [t \in Task |-> IF task[t] = "asking" THEN "cancelled" ELSE task[t]]

\* Cancelling discover cancels the gather and with it its tasks, unless the
\* gather has already failed.
Cancel ==
    /\ pc \in Awaiting
    /\ pc' = "cancelled"
    /\ task' = IF Failed THEN task ELSE Stopped
    /\ UNCHANGED <<server, offset, wallets, positions, observations>>

\* asyncio.run cancels what is still running when its coroutine has ended.
CloseLoop ==
    /\ pc \in Ended
    /\ task # Stopped
    /\ task' = Stopped
    /\ UNCHANGED <<server, pc, offset, wallets, positions, observations>>

---------------------------------------------------------------------------
\* Traders trade while the pages are read.
ServerChanges ==
    /\ changes < MaxChanges /\ task # Stopped
    /\ \/ \E o \in Order, ranking \in Rankings :
             board' = [board EXCEPT ![o] = ranking] /\ UNCHANGED held
       \/ \E w \in Wallet, holding \in Holdings :
             held' = [held EXCEPT ![w] = holding] /\ UNCHANGED board
    /\ changes' = changes + 1
    /\ UNCHANGED <<pc, task, offset, wallets, positions, observations>>

Finished == pc \in Ended /\ task = Stopped /\ UNCHANGED vars

TaskStep(t) ==
    \/ t \in Order /\ LeaderboardPage(t)
    \/ t \in Wallet /\ PositionsPage(t)
    \/ RequestFails(t)

Next ==
    \/ \E t \in Task : TaskStep(t)
    \/ SelectWallets \/ Return \/ Raise \/ Cancel \/ CloseLoop
    \/ ServerChanges \/ Finished

Spec == Init /\ [][Next]_vars

\* Every request is answered or fails (PolymarketClient!EveryCallEnds), and
\* the event loop resumes something that is ready.
Resume == (\E t \in Task : TaskStep(t)) \/ SelectWallets \/ Return \/ Raise

FairSpec == Spec /\ WF_vars(Resume)

---------------------------------------------------------------------------
(* Properties.                                                             *)

Occurrences(list, item) == Cardinality({i \in DOMAIN list : list[i] = item})

\* The rows of a list that pages of this size reach up to this offset.
InReach(list, limit, reach) == SubSeq(list, 1, Smaller((reach \div limit + 1) * limit, Len(list)))

\* How many wallets a ranking has down to the first row of this one.
Rank(ranking, w) ==
    LET above == {i \in DOMAIN ranking :
                     \A j \in 1..i - 1 : WalletOf[ranking[j]] # w}
    IN  Cardinality({WalletOf[ranking[i]] : i \in above})

\* The wallets the strategy is after: the first WalletCount of a ranking.
Leaders(o) ==
    LET ranking == InReach(board[o], LeaderboardLimit, LeaderboardReach)
    IN  {w \in Wallet : /\ \E i \in DOMAIN ranking : WalletOf[ranking[i]] = w
                        /\ Rank(ranking, w) <= WalletCount}

\* On a ranking that keeps still, paging finds exactly the leading wallets, in
\* order, each once: whatever repeats on or across pages, wherever a page ends.
LeaderboardsAreRanked ==
    \A o \in Order : changes = 0 /\ task[o] = "done" =>
        /\ ToSet(wallets[o]) = Leaders(o)
        /\ \A i \in DOMAIN wallets[o] : Rank(board[o], wallets[o][i]) = i

\* On holdings that keep still, paging reads every position in reach, once and
\* in order; in particular a last page that happens to be full loses nothing.
PositionsAreComplete ==
    \A w \in Wallet : changes = 0 /\ task[w] = "done" =>
        positions[w] = InReach(held[w], PositionLimit, PositionReach)

\* From end to end: the result of a server that keeps still holds, for every
\* market, exactly the positions in it of the wallets that lead both rankings.
EvidenceIsComplete ==
    pc = "returned" /\ changes = 0 =>
        \A c \in Condition, w \in Wallet, p \in Position :
            Occurrences(observations[c], <<w, p>>) =
                IF w \in Leaders("PNL") \cap Leaders("VOL") /\ ConditionOf[p] = c
                THEN Occurrences(InReach(held[w], PositionLimit, PositionReach), p)
                ELSE 0

\* A result is never made of a part: it has waited for both rankings and for
\* every wallet that is on both, asked for no other wallet, and left nothing
\* running; also when the server changes and tasks fail or are cancelled.
ResultsAreWhole ==
    pc = "returned" =>
        /\ \A o \in Order : task[o] = "done"
        /\ \A w \in Wallet : task[w] = IF w \in Selected THEN "done" ELSE "none"

\* No page is asked for that the request's parameters would refuse, which would
\* turn a long list into a failed strategy.
RequestsAreAdmissible == \A t \in Task : task[t] = "asking" => offset[t] <= OffsetBound[t]

\* discover ends, whatever fails, and so does every task, also one that nobody
\* waits for any more.
ComesToRest == <>(pc \in Ended /\ \A t \in Task : task[t] # "asking")

---------------------------------------------------------------------------
(* Inductive invariants of the theorems in WhaleLeaderboardProofs.         *)

\* Wallets have tasks from the moment they are selected, and a strategy that
\* waits for positions has both rankings.
TasksAreGathered ==
    /\ pc = "leaderboards" => \A w \in Wallet : task[w] = "none"
    /\ pc = "positions" =>
          /\ \A o \in Order : task[o] = "done"
          /\ \A w \in Wallet : task[w] = "none" <=> w \notin Selected
    /\ ResultsAreWhole

\* A wallet's task that asks stands at the beginning of a page in reach.
OffsetsAreInReach ==
    /\ \A o \in Order : task[o] = "asking" => offset[o] <= LeaderboardReach
    /\ \A w \in Wallet :
          /\ task[w] = "none" => offset[w] = 0
          /\ task[w] = "asking" =>
                /\ offset[w] <= PositionReach
                /\ \E k \in 0..offset[w] : offset[w] = k * PositionLimit

\* What a wallet's task has read is what the list holds up to its offset.
PositionsAreRead ==
    \A w \in Wallet :
        /\ task[w] = "none" => positions[w] = <<>>
        /\ task[w] = "asking" /\ changes = 0 =>
              /\ offset[w] <= Len(held[w])
              /\ positions[w] = SubSeq(held[w], 1, offset[w])

\* The wallets of the first n rows.
Seen(ranking, n) == {WalletOf[ranking[i]] : i \in 1..n}

\* What a ranking's task has found is every wallet above its offset, at its rank.
RankingsAreRead ==
    \A o \in Order : task[o] = "asking" =>
        /\ \E k \in 0..offset[o] : offset[o] = k * LeaderboardLimit
        /\ Len(wallets[o]) < WalletCount
        /\ changes = 0 =>
              /\ offset[o] <= Len(board[o])
              /\ ToSet(wallets[o]) = Seen(board[o], offset[o])
              /\ \A i \in DOMAIN wallets[o] : Rank(board[o], wallets[o][i]) = i
=============================================================================
