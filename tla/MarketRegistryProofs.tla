------------------------ MODULE MarketRegistryProofs ------------------------
(***************************************************************************)
(* Theorems about MarketRegistry, for any conditions, tokens, payloads,    *)
(* runs, batch size and number of faults, with or without lost lock        *)
(* sessions.                                                               *)
(***************************************************************************)
EXTENDS MarketRegistry, TLAPS

---------------------------------------------------------------------------
(* Data: payloads, the latest of some runs, batches.                        *)

LEMMA PayloadFacts ==
    ASSUME NEW row \in WellFormed
    PROVE  /\ \A i \in 0..1 : row.tokens[i].id \in Token /\ row.tokens[i].outcome \in Outcome
           /\ \A i, j \in 0..1 : row.tokens[i].id = row.tokens[j].id => i = j
           /\ \A t : t \in Ids(row) <=> \E i \in 0..1 : t = row.tokens[i].id
           /\ Ids(row) \subseteq Token
<1>1. /\ row.tokens \in [0..1 -> [id : Token, outcome : Outcome]]
      /\ row.tokens[0].id # row.tokens[1].id
  BY DEF WellFormed
<1>2. \A i \in 0..1 : row.tokens[i].id \in Token /\ row.tokens[i].outcome \in Outcome
  BY <1>1
<1>3. 0..1 = {0, 1}
  OBVIOUS
<1>4. \A i, j \in 0..1 : row.tokens[i].id = row.tokens[j].id => i = j
  BY <1>1, <1>3
<1> QED
  BY <1>2, <1>4 DEF Ids

LEMMA LatestIs ==
    ASSUME NEW S, S \subseteq Nat, NEW d \in S, \A e \in S : e <= d
    PROVE  Latest(S) = d
<1>1. Latest(S) \in S /\ \A e \in S : e <= Latest(S)
  BY DEF Latest
<1>2. Latest(S) \in Nat /\ d \in Nat
  BY <1>1
<1>3. d <= Latest(S) /\ Latest(S) <= d
  BY <1>1
<1> QED
  BY ONLY <1>2, <1>3

(* A stored market row is a row.                                            *)
LEMMA RowOf ==
    ASSUME TypeOK, NEW c \in Registered
    PROVE  markets[c] \in MarketRow /\ c \in Condition
BY DEF TypeOK, Registered

LEMMA SentinelFacts ==
    /\ NoMarket \notin MarketRow
    /\ NoOwner \notin TokenRow
    /\ NoPayload \notin WellFormed /\ Payload \subseteq WellFormed
BY SentinelAssumption, DataAssumption DEF MarketRow, TokenRow

(* What a query keeps: the answers of the conditions it found.              *)
LEMMA KeepEffect ==
    ASSUME TypeOK, NEW rows \in SUBSET Condition, Keep(rows),
           \A c \in rows : gamma[c] \in Payload
    PROVE  /\ got' \in [Condition -> WellFormed \cup {NoPayload}]
           /\ Incoming' = Incoming \cup rows
<1>1. \A c \in rows : gamma[c] \in WellFormed /\ gamma[c] # NoPayload
  BY SentinelFacts
<1>2. \A c \in Condition : got'[c] = IF c \in rows THEN gamma[c] ELSE got[c]
  BY DEF Keep
<1>3. got' = [c \in Condition |-> IF c \in rows THEN gamma[c] ELSE got[c]]
  BY DEF Keep
<1>4. got \in [Condition -> WellFormed \cup {NoPayload}]
  BY DEF TypeOK
<1>5. got' \in [Condition -> WellFormed \cup {NoPayload}]
  BY ONLY <1>1, <1>3, <1>4
<1> QED
  BY <1>1, <1>2, <1>5 DEF Incoming

LEMMA BatchInTodo == Batch \subseteq todo
BY DEF Batch

LEMMA RowsAre ==
    ASSUME NEW asked, NEW closed
    PROVE  Rows(asked, closed) \subseteq asked /\ \A c \in Rows(asked, closed) : gamma[c] \in Payload
BY DEF Rows

---------------------------------------------------------------------------
(* The transaction of complete_market_sync_run, row by row.                 *)

(* A condition with observations has a latest one.                          *)
LEMMA LastDiscoveredFacts ==
    ASSUME TypeOK, DiscoveryInv, Acceptable, NEW c \in Incoming
    PROVE  /\ LastDiscovered(c) \in DiscoveryRun
           /\ \A d \in Observers(c) : d <= LastDiscovered(c)
           /\ c \in Registered => markets[c].last <= LastDiscovered(c)
<1>1. c \in Condition /\ Observers(c) \subseteq DiscoveryRun /\ DiscoveryRun \subseteq Nat
  BY DataAssumption DEF Incoming, Observers
<1>2. CASE c \notin Registered
  <2>1. Observers(c) # {}
    BY <1>2 DEF Acceptable, NewMarketOK
  <2>2. PICK d \in Observers(c) : \A e \in Observers(c) : e <= d
    BY <1>1, <2>1 DEF DiscoveryInv
  <2>3. Latest(Observers(c)) = d
    BY <1>1, <2>2, LatestIs
  <2> QED
    BY <1>1, <1>2, <2>2, <2>3 DEF LastDiscovered
<1>3. CASE c \in Registered /\ Observers(c) = {}
  <2>1. markets[c].last \in DiscoveryRun
    BY <1>3, RowOf DEF MarketRow
  <2>2. LastDiscovered(c) = markets[c].last
    BY <1>3 DEF LastDiscovered
  <2>3. markets[c].last <= markets[c].last
    <3>1. markets[c].last \in Nat
      BY <1>1, <2>1
    <3> QED
      BY ONLY <3>1
  <2> QED
    BY <1>3, <2>1, <2>2, <2>3
<1>4. CASE c \in Registered /\ Observers(c) # {}
  <2>1. markets[c].last \in DiscoveryRun
    BY <1>4, RowOf DEF MarketRow
  <2>2. PICK d \in Observers(c) : \A e \in Observers(c) : e <= d
    BY <1>1, <1>4 DEF DiscoveryInv
  <2> DEFINE S == Observers(c) \cup {markets[c].last}
             m == IF d <= markets[c].last THEN markets[c].last ELSE d
  <2>3. S \subseteq Nat /\ m \in S /\ \A e \in S : e <= m
    <3>1. d \in Nat /\ markets[c].last \in Nat
      BY <1>1, <2>1
    <3>2. d <= m /\ markets[c].last <= m /\ m \in Nat
      BY <3>1
    <3>3. \A e \in Observers(c) : e <= m
      <4> HIDE DEF m
      <4> QED
        BY <1>1, <2>2, <3>1, <3>2
    <3> QED
      BY <1>1, <3>1, <3>2, <3>3
  <2>4. Latest(S) = m
    <3> HIDE DEF S, m
    <3> QED
      BY <2>3, LatestIs
  <2>5. m \in DiscoveryRun
    BY <1>1, <2>1
  <2> QED
    BY <1>1, <1>4, <2>3, <2>4, <2>5 DEF LastDiscovered
<1> QED
  BY <1>2, <1>3, <1>4

(* Every row of the transaction is a row of its table.                      *)
LEMMA NewRowFacts ==
    ASSUME TypeOK, DiscoveryInv, Acceptable, NEW c \in Incoming
    PROVE  /\ NewRow(c) \in MarketRow /\ NewRow(c) # NoMarket
           /\ NewRow(c).payload = got[c] /\ NewRow(c).last = LastDiscovered(c)
           /\ got[c] \in WellFormed /\ c \in Condition
<1>1. got[c] \in WellFormed /\ c \in Condition
  BY DEF TypeOK, Incoming
<1>2. NewRow(c) \in MarketRow
  BY <1>1, LastDiscoveredFacts DEF NewRow, MarketRow
<1> QED
  BY <1>1, <1>2, SentinelFacts DEF NewRow

(* The token rows a new market brings, and nobody else's.                   *)
NewTokens == {t \in Token : \E c \in Incoming \ Registered : t \in Ids(got[c])}

LEMMA NewTokenFacts ==
    ASSUME TypeOK, Acceptable, NEW c \in Incoming \ Registered, NEW i \in 0..1
    PROVE  LET t == got[c].tokens[i].id
           IN  /\ t \in NewTokens /\ tokens[t] = NoOwner
               /\ NewToken(t) = [condition |-> c, index |-> i,
                                 outcome |-> got[c].tokens[i].outcome]
               /\ NewToken(t) \in TokenRow /\ NewToken(t) # NoOwner
<1> DEFINE t == got[c].tokens[i].id
<1>1. c \in Condition /\ got[c] \in WellFormed
  BY DEF TypeOK, Incoming
<1>2. t \in Token /\ t \in Ids(got[c]) /\ got[c].tokens[i].outcome \in Outcome
  BY <1>1, PayloadFacts
<1>3. tokens[t] = NoOwner /\ t \in NewTokens
  BY <1>2 DEF Acceptable, NewMarketOK, NewTokens
<1>4. \A e \in Incoming \ Registered : t \in Ids(got[e]) => e = c
  BY <1>2 DEF Acceptable, NewMarketOK
<1>5. (CHOOSE e \in Incoming \ Registered : t \in Ids(got[e])) = c
  BY <1>2, <1>4
<1>6. \A j \in 0..1 : got[c].tokens[j].id = t => j = i
  BY <1>1, PayloadFacts
<1>7. (CHOOSE j \in 0..1 : got[c].tokens[j].id = t) = i
  BY <1>6
<1>8. NewToken(t) = [condition |-> c, index |-> i, outcome |-> got[c].tokens[i].outcome]
  <2> HIDE DEF t
  <2> QED
    BY <1>5, <1>7 DEF NewToken
<1>9. NewToken(t) \in TokenRow
  BY <1>1, <1>2, <1>8 DEF TokenRow
<1> QED
  BY <1>3, <1>8, <1>9, SentinelFacts

(* Every new token is one of a position of one new market.                  *)
LEMMA NewTokenIsOf ==
    ASSUME TypeOK, Acceptable, NEW t \in NewTokens
    PROVE  \E c \in Incoming \ Registered : \E i \in 0..1 :
              /\ t = got[c].tokens[i].id /\ t \in Ids(got[c])
              /\ tokens[t] = NoOwner
              /\ NewToken(t) = [condition |-> c, index |-> i,
                                outcome |-> got[c].tokens[i].outcome]
              /\ NewToken(t) \in TokenRow /\ NewToken(t) # NoOwner
<1>1. PICK c \in Incoming \ Registered : t \in Ids(got[c])
  BY DEF NewTokens
<1>2. got[c] \in WellFormed
  BY DEF TypeOK, Incoming
<1>3. PICK i \in 0..1 : t = got[c].tokens[i].id
  BY <1>1, <1>2, PayloadFacts
<1> QED
  BY <1>1, <1>3, NewTokenFacts

(* What a commit writes, row by row.                                        *)
LEMMA CommitEffect ==
    ASSUME TypeOK, DiscoveryInv, CommitSync
    PROVE  /\ \A c \in Condition : markets'[c] = IF c \in Incoming THEN NewRow(c) ELSE markets[c]
           /\ Registered' = Registered \cup Incoming
           /\ \A t \in Token : tokens'[t] = IF t \in NewTokens THEN NewToken(t) ELSE tokens[t]
           /\ markets' \in [Condition -> MarketRow \cup {NoMarket}]
           /\ tokens' \in [Token -> TokenRow \cup {NoOwner}]
<1>0. /\ Acceptable
      /\ markets' = [c \in Condition |-> IF c \in Incoming THEN NewRow(c) ELSE markets[c]]
      /\ tokens' = [t \in Token |->
                      IF \E c \in Incoming \ Registered : t \in Ids(got[c])
                      THEN NewToken(t) ELSE tokens[t]]
  BY DEF CommitSync
<1>1. \A c \in Condition : markets'[c] = IF c \in Incoming THEN NewRow(c) ELSE markets[c]
  BY <1>0
<1>2. \A c \in Incoming : NewRow(c) \in MarketRow /\ NewRow(c) # NoMarket /\ c \in Condition
  BY <1>0, NewRowFacts
<1>3. Registered' = Registered \cup Incoming
  BY <1>1, <1>2 DEF Registered
<1>4. \A t \in Token : tokens'[t] = IF t \in NewTokens THEN NewToken(t) ELSE tokens[t]
  BY <1>0 DEF NewTokens
<1>5. \A t \in NewTokens : NewToken(t) \in TokenRow
  BY <1>0, NewTokenIsOf
<1>6. markets \in [Condition -> MarketRow \cup {NoMarket}]
      /\ tokens \in [Token -> TokenRow \cup {NoOwner}]
  BY DEF TypeOK
<1>7. markets' \in [Condition -> MarketRow \cup {NoMarket}]
  BY ONLY <1>0, <1>2, <1>6
<1>8. tokens' = [t \in Token |-> IF t \in NewTokens THEN NewToken(t) ELSE tokens[t]]
  BY <1>0 DEF NewTokens
<1>9. tokens' \in [Token -> TokenRow \cup {NoOwner}]
  BY ONLY <1>5, <1>6, <1>8
<1> QED
  BY <1>1, <1>3, <1>4, <1>7, <1>9

(* What a synchronisation asks for.                                         *)
LEMMA RequiredIs ==
    \A c : c \in Required <=>
              \/ \E d \in Pending : c \in found[d]
              \/ c \in Registered /\ Refreshable(markets[c].payload)
<1>1. \A c : c \in UNION {found[d] : d \in Pending} <=> \E d \in Pending : c \in found[d]
  BY Zenon
<1>2. \A c : c \in {b \in Registered : Refreshable(markets[b].payload)}
              <=> c \in Registered /\ Refreshable(markets[c].payload)
  OBVIOUS
<1> DEFINE D == UNION {found[d] : d \in Pending}
           R == {c \in Registered : Refreshable(markets[c].payload)}
<1>3. Required = D \cup R
  BY DEF Required
<1> HIDE DEF D, R
<1>4. \A c : c \in Required <=> c \in D \/ c \in R
  BY ONLY <1>3
<1> QED
  BY ONLY <1>1, <1>2, <1>4 DEF D, R

---------------------------------------------------------------------------
(* Types.                                                                   *)

LEMMA StatusKeepsRow ==
    ASSUME NEW S \in [SyncRun -> SyncRow], NEW s, NEW v \in {"running", "completed", "failed"}
    PROVE  [S EXCEPT ![s].status = v] \in [SyncRun -> SyncRow]
BY DEF SyncRow

LEMMA TypeStep ==
    ASSUME TypeOK, DiscoveryInv, LedgerInv, [Next]_vars
    PROVE  TypeOK'
<1> USE DEF TypeOK, external, discovery, registry, local
<1> DEFINE Answers == [Condition -> WellFormed \cup {NoPayload}]
<1>0. NoAnswers \in Answers /\ Absent \in SyncRow
  BY DEF NoAnswers, Absent, SyncRow
<1>1. ASSUME NEW c \in Condition, GammaChanges(c) PROVE TypeOK'
  BY <1>1, DataAssumption DEF GammaChanges
<1>2. ASSUME NEW d \in DiscoveryRun, DiscoveryCompletes(d) PROVE TypeOK'
  BY <1>2 DEF DiscoveryCompletes
<1>3. Recovered \in [SyncRun -> SyncRow]
  <2>1. \A row \in SyncRow : [row EXCEPT !.status = "failed"] \in SyncRow
    BY DEF SyncRow
  <2>2. syncs \in [SyncRun -> SyncRow]
    OBVIOUS
  <2> QED
    BY ONLY <2>1, <2>2 DEF Recovered
<1>4. ASSUME NEW s \in SyncRun, StartSync(s) PROVE TypeOK'
  <2>1. Pending \in SUBSET DiscoveryRun /\ Required \in SUBSET Condition
    <3>1. Pending \in SUBSET DiscoveryRun
      BY DEF Pending
    <3>2. \A d \in Pending : found[d] \subseteq Condition
      BY <3>1
    <3> QED
      BY <3>1, <3>2, RequiredIs DEF Registered
  <2>2. syncs' \in [SyncRun -> SyncRow]
    BY <1>3, <1>4, <2>1 DEF StartSync, SyncRow
  <2> QED
    BY <1>0, <1>4, <2>1, <2>2 DEF StartSync
<1>5. CASE SkipSync
  BY <1>3, <1>5 DEF SkipSync
<1>6. CASE OpenQuery
  <2>1. Rows(Batch, FALSE) \in SUBSET Condition
    BY BatchInTodo, RowsAre
  <2>2. got' \in Answers
    BY <1>6, <2>1, KeepEffect, RowsAre DEF OpenQuery
  <2>3. missing' \subseteq Condition /\ todo' \subseteq Condition /\ pc' \in {"open", "closed"}
    BY <1>6, BatchInTodo DEF OpenQuery
  <2> QED
    BY <1>6, <2>2, <2>3 DEF OpenQuery
<1>7. CASE ClosedQuery
  <2>1. got' \in Answers
    BY <1>7, KeepEffect, RowsAre DEF ClosedQuery
  <2> QED
    BY <1>7, <2>1 DEF ClosedQuery
<1>8. CASE AnswerRefused \/ RejectSync \/ CallFails
  <2>1. CASE AnswerRefused
    BY <2>1 DEF AnswerRefused
  <2>2. CASE RejectSync
    BY <2>2 DEF RejectSync
  <2>3. CASE CallFails
    BY <2>3, DataAssumption DEF CallFails
  <2> QED
    BY <1>8, <2>1, <2>2, <2>3
<1>9. CASE CompleteSync \/ LoseAcknowledgement
  <2>1. CommitSync /\ pc = "open"
    BY <1>9 DEF CompleteSync, LoseAcknowledgement, CommitSync
  <2>2. cur \in SyncRun
    BY <2>1 DEF LedgerInv
  <2>3. markets' \in [Condition -> MarketRow \cup {NoMarket}]
        /\ tokens' \in [Token -> TokenRow \cup {NoOwner}]
    BY <2>1, CommitEffect
  <2>4. synced' \subseteq DiscoveryRun
    BY <2>1, <2>2 DEF CommitSync, RunsToMark, SyncRow
  <2>5. syncs' \in [SyncRun -> SyncRow]
    <3>1. syncs' = [syncs EXCEPT ![cur].status = "completed"]
      BY <2>1 DEF CommitSync
    <3> QED
      BY <3>1, StatusKeepsRow
  <2>6. snapshots' \in [SyncRun -> Answers]
    BY <2>1, <2>2 DEF CommitSync
  <2>7. UNCHANGED <<gamma, changes, found, finished, todo, missing>>
    BY <2>1 DEF CommitSync
  <2>8. pc' \in {"idle", "failing"} /\ cur' \in SyncRun \cup {0} /\ got' \in Answers
        /\ faults' \in 0..MaxFaults
    BY <1>0, <1>9, DataAssumption DEF CompleteSync, LoseAcknowledgement
  <2> QED
    BY <2>3, <2>4, <2>5, <2>6, <2>7, <2>8
<1>10. CASE FailSync
  <2>1. syncs' \in [SyncRun -> SyncRow]
    <3>1. syncs' = [syncs EXCEPT ![cur].status = "failed"]
      BY <1>10 DEF FailSync
    <3> QED
      BY <3>1, StatusKeepsRow
  <2> QED
    BY <1>0, <1>10, <2>1 DEF FailSync
<1>11. CASE Crash
  BY <1>0, <1>11, DataAssumption DEF Crash
<1>12. CASE UNCHANGED vars
  BY <1>12 DEF vars
<1> QED
  BY <1>1, <1>2, <1>4, <1>5, <1>6, <1>7, <1>8, <1>9, <1>10, <1>11, <1>12
     DEF Next, SyncStep

---------------------------------------------------------------------------
(* Which steps change what.                                                 *)

LEMMA CommitCases ==
    ASSUME [Next]_vars
    PROVE  /\ CommitSync \/ UNCHANGED registry
           /\ (\E d \in DiscoveryRun : DiscoveryCompletes(d)) \/ UNCHANGED discovery
<1>1. ASSUME NEW c \in Condition, GammaChanges(c) PROVE UNCHANGED <<registry, discovery>>
  BY <1>1 DEF GammaChanges
<1>2. ASSUME NEW d \in DiscoveryRun, DiscoveryCompletes(d) PROVE UNCHANGED registry
  BY <1>2 DEF DiscoveryCompletes
<1>3. ASSUME NEW s \in SyncRun, StartSync(s) PROVE UNCHANGED <<registry, discovery>>
  BY <1>3 DEF StartSync
<1>4. CASE SkipSync
  BY <1>4 DEF SkipSync
<1>5. CASE OpenQuery \/ ClosedQuery \/ AnswerRefused \/ RejectSync
  BY <1>5 DEF OpenQuery, ClosedQuery, AnswerRefused, RejectSync
<1>6. CASE FailSync \/ CallFails \/ Crash
  BY <1>6 DEF FailSync, CallFails, Crash
<1>7. CASE CompleteSync \/ LoseAcknowledgement
  BY <1>7 DEF CompleteSync, LoseAcknowledgement, CommitSync, discovery
<1>8. CASE UNCHANGED vars
  BY <1>8 DEF vars
<1> QED
  BY <1>1, <1>2, <1>3, <1>4, <1>5, <1>6, <1>7, <1>8 DEF Next, SyncStep

(* What a status written to the running synchronisation leaves alone.       *)
LEMMA StatusWrite ==
    ASSUME TypeOK, cur \in SyncRun, NEW status, status # "absent",
           syncs' = [syncs EXCEPT ![cur].status = status]
    PROVE  /\ syncs'[cur].status = status /\ syncs'[cur] # Absent
           /\ syncs'[cur].runs = syncs[cur].runs
           /\ syncs'[cur].conditions = syncs[cur].conditions
           /\ \A s \in SyncRun : s # cur => syncs'[s] = syncs[s]
<1>1. syncs[cur] \in SyncRow /\ syncs \in [SyncRun -> SyncRow]
  BY DEF TypeOK
<1>2. syncs'[cur] = [syncs[cur] EXCEPT !.status = status]
  BY <1>1
<1> QED
  BY <1>1, <1>2 DEF SyncRow, Absent

(* Recovery ends the runs going on and leaves the others alone.             *)
LEMMA RecoveryEffect ==
    ASSUME TypeOK, NEW s \in SyncRun
    PROVE  /\ syncs[s].status # "running" => Recovered[s] = syncs[s]
           /\ syncs[s].status = "running" => Recovered[s].status = "failed"
           /\ Recovered[s].runs = syncs[s].runs
           /\ Recovered[s].conditions = syncs[s].conditions
           /\ Recovered[s] = Absent <=> syncs[s] = Absent
           /\ Recovered[s].status # "running"
<1>1. syncs[s] \in SyncRow
  BY DEF TypeOK
<1>2. Recovered[s] = IF syncs[s].status = "running"
                     THEN [syncs[s] EXCEPT !.status = "failed"] ELSE syncs[s]
  BY DEF Recovered
<1> QED
  BY <1>1, <1>2 DEF SyncRow, Absent

(* What a commit sees: everything the run asked for has been retrieved.     *)
LEMMA AtCommit ==
    ASSUME TypeOK, LedgerInv, ProgressInv, SyncsAreAllOrNothing, CommitSync
    PROVE  /\ cur \in SyncRun /\ syncs[cur].status = "running"
           /\ Incoming = syncs[cur].conditions
           /\ syncs[cur].runs \subseteq Pending
           /\ \A d \in syncs[cur].runs : found[d] \subseteq Incoming
           /\ \A c \in Incoming :
                 \/ \E d \in syncs[cur].runs : c \in found[d]
                 \/ c \in Registered /\ Refreshable(markets[c].payload)
           /\ \A c \in Condition : snapshots[cur][c] = NoPayload
           /\ synced' = synced \cup syncs[cur].runs
           /\ UNCHANGED discovery
<1>1. pc = "open" /\ todo = {}
  BY DEF CommitSync
<1>2. cur \in SyncRun /\ syncs[cur].status = "running"
  BY <1>1 DEF LedgerInv
<1>3. Incoming = syncs[cur].conditions
  BY <1>1 DEF ProgressInv
<1>4. syncs[cur].runs \cap synced = {} /\ \A c \in Condition : snapshots[cur][c] = NoPayload
  BY <1>2 DEF SyncsAreAllOrNothing
<1>5. syncs[cur].runs \subseteq Pending
  BY <1>1, <1>4 DEF ProgressInv, Pending
<1>6. synced' = synced \cup syncs[cur].runs /\ UNCHANGED discovery
  BY DEF CommitSync, RunsToMark, discovery
<1> QED
  BY <1>1, <1>2, <1>3, <1>4, <1>5, <1>6 DEF ProgressInv

---------------------------------------------------------------------------
(* The inductive invariant, conjunct by conjunct.                           *)

LEMMA DiscoveryStep ==
    ASSUME TypeOK, DiscoveryInv, LedgerInv, ProgressInv, SyncsAreAllOrNothing, [Next]_vars
    PROVE  DiscoveryInv'
<1>1. ASSUME NEW d \in DiscoveryRun, DiscoveryCompletes(d) PROVE DiscoveryInv'
  <2>1. /\ d \notin finished /\ finished' = finished \cup {d}
        /\ UNCHANGED synced
        /\ \A e \in DiscoveryRun : e # d => found'[e] = found[e]
    BY <1>1 DEF DiscoveryCompletes, registry, TypeOK
  <2>2. found[d] = {}
    BY <2>1 DEF DiscoveryInv
  <2>3. synced' \subseteq finished' /\ \A e \in DiscoveryRun \ finished' : found'[e] = {}
    BY <2>1 DEF DiscoveryInv
  <2>4. ASSUME NEW c \in Condition, Observers(c)' # {}
        PROVE  \E m \in Observers(c)' : \A e \in Observers(c)' : e <= m
    <3>1. /\ \A e \in DiscoveryRun : e # d => (e \in Observers(c)' <=> e \in Observers(c))
          /\ d \notin Observers(c) /\ Observers(c)' \subseteq DiscoveryRun
      BY <2>1, <2>2 DEF Observers
    <3>2. DiscoveryRun \subseteq Nat /\ d \in Nat
      BY DataAssumption
    <3>3. CASE Observers(c) = {}
      <4>1. Observers(c)' = {d}
        BY <2>4, <3>1, <3>3
      <4>2. d <= d
        BY ONLY <3>2
      <4> QED
        BY <4>1, <4>2
    <3>4. CASE Observers(c) # {}
      <4>1. PICK m \in Observers(c) : \A e \in Observers(c) : e <= m
        BY <3>4 DEF DiscoveryInv
      <4>2. m \in DiscoveryRun /\ m # d /\ m \in Observers(c)'
        BY <3>1 DEF Observers
      <4>3. m \in Nat
        BY <3>2, <4>2
      <4>4. CASE d \in Observers(c)' /\ m <= d
        <5>1. \A e \in Observers(c)' : e <= d
          <6>1. TAKE e \in Observers(c)'
          <6>2. e \in Nat
            BY <3>1, <3>2
          <6>3. e = d \/ e <= m
            BY <3>1, <4>1
          <6> QED
            BY ONLY <3>2, <4>3, <4>4, <6>2, <6>3
        <5> QED
          BY <4>4, <5>1
      <4>5. CASE d \notin Observers(c)' \/ ~(m <= d)
        <5>1. \A e \in Observers(c)' : e <= m
          <6>1. TAKE e \in Observers(c)'
          <6>2. e = d => d <= m
            BY ONLY <3>2, <4>3, <4>5, <6>1
          <6> QED
            BY <3>1, <4>1, <6>2
        <5> QED
          BY <4>2, <5>1
      <4> QED
        BY <4>4, <4>5
    <3> QED
      BY <3>3, <3>4
  <2> QED
    BY <2>3, <2>4 DEF DiscoveryInv
<1>2. CASE UNCHANGED discovery /\ CommitSync
  <2>1. synced' \subseteq finished'
    BY <1>2, AtCommit DEF DiscoveryInv, Pending, discovery
  <2> QED
    BY <1>2, <2>1 DEF DiscoveryInv, Observers, discovery
<1>3. CASE UNCHANGED discovery /\ UNCHANGED registry
  BY <1>3 DEF DiscoveryInv, Observers, discovery, registry
<1> QED
  BY <1>1, <1>2, <1>3, CommitCases

LEMMA LedgerStep ==
    ASSUME TypeOK, LedgerInv, [Next]_vars
    PROVE  LedgerInv'
<1>1. CASE UNCHANGED <<syncs, cur, pc>>
  BY <1>1 DEF LedgerInv
<1>2. ASSUME NEW s \in SyncRun, StartSync(s) PROVE LedgerInv'
  <2>1. /\ syncs[s] = Absent /\ \A t \in SyncRun : t < s => syncs[t] # Absent
        /\ cur' = s
        /\ syncs'[s].status = "running" /\ syncs'[s] # Absent
        /\ \A t \in SyncRun : t # s => syncs'[t] = Recovered[t]
    BY <1>2 DEF StartSync, Absent, Recovered
  <2>2. \A t \in SyncRun : t \in Nat
    BY DataAssumption
  <2>3. \A t \in SyncRun :
          t # s => syncs'[t].status # "running" /\ (syncs'[t] = Absent <=> syncs[t] = Absent)
    BY <2>1, RecoveryEffect
  <2>4. \A t \in SyncRun : syncs'[t].status = "absent" => syncs'[t] = Absent
    <3>1. TAKE t \in SyncRun
    <3>2. CASE t = s
      BY <2>1, <3>2
    <3>3. CASE t # s
      BY <2>1, <3>3, RecoveryEffect DEF LedgerInv
    <3> QED
      BY <3>2, <3>3
  <2>5. \A t \in SyncRun : t > s => syncs'[t] = Absent
    BY <2>1, <2>2, <2>3 DEF LedgerInv
  <2>6. ASSUME NEW t \in SyncRun, NEW u \in SyncRun, syncs'[t] = Absent, t < u
        PROVE  syncs'[u] = Absent
    <3>1. t # s /\ ~(t < s)
      <4>1. t # s
        BY <2>1, <2>6
      <4> QED
        BY ONLY <2>1, <2>3, <2>6, <4>1
    <3>2. s < u
      BY ONLY <2>2, <2>6, <3>1
    <3> QED
      BY ONLY <2>2, <2>5, <3>2
  <2>7. \A t \in SyncRun : syncs'[t].status = "running" => t = cur'
    BY ONLY <2>1, <2>3
  <2>8. syncs'[cur'].status = "running" /\ \A t \in SyncRun : t > cur' => syncs'[t] = Absent
    BY <2>1, <2>5
  <2> QED
    BY <2>1, <2>4, <2>6, <2>7, <2>8 DEF LedgerInv
<1>3. CASE SkipSync
  <2>1. pc = "idle" /\ pc' = "idle" /\ \A t \in SyncRun : syncs'[t] = Recovered[t]
    BY <1>3 DEF SkipSync, local
  <2> QED
    BY <2>1, RecoveryEffect DEF LedgerInv
<1>4. CASE OpenQuery \/ ClosedQuery \/ AnswerRefused \/ RejectSync \/ CallFails
  <2>1. pc \in {"open", "closed"} /\ pc' # "idle" /\ UNCHANGED <<syncs, cur>>
    BY <1>4 DEF OpenQuery, ClosedQuery, AnswerRefused, RejectSync, CallFails
  <2> QED
    BY <2>1 DEF LedgerInv
<1>5. CASE CommitSync /\ (CompleteSync \/ LoseAcknowledgement)
  <2>1. cur \in SyncRun /\ syncs[cur].status = "running"
    BY <1>5 DEF LedgerInv, CommitSync
  <2>2. /\ syncs'[cur].status = "completed" /\ syncs'[cur] # Absent
        /\ \A s \in SyncRun : s # cur => syncs'[s] = syncs[s]
    BY <1>5, <2>1, StatusWrite DEF CommitSync
  <2>3. pc' = "idle" \/ (pc' = "failing" /\ cur' = cur)
    BY <1>5 DEF CompleteSync, LoseAcknowledgement
  <2>4. syncs[cur] # Absent /\ pc = "open"
    BY <1>5, <2>1 DEF Absent, CommitSync
  <2>5. \A s \in SyncRun : s > cur => s # cur
    <3>1. \A s \in SyncRun : s \in Nat
      BY DataAssumption
    <3> QED
      BY ONLY <2>1, <3>1
  <2> QED
    BY <2>1, <2>2, <2>3, <2>4, <2>5 DEF LedgerInv
<1>6. CASE FailSync
  <2>1. cur \in SyncRun /\ syncs[cur].status \in {"running", "completed"} /\ pc' = "idle"
    BY <1>6 DEF LedgerInv, FailSync
  <2>2. /\ syncs'[cur].status = "failed" /\ syncs'[cur] # Absent
        /\ \A s \in SyncRun : s # cur => syncs'[s] = syncs[s]
    BY <1>6, <2>1, StatusWrite DEF FailSync
  <2>3. syncs[cur] # Absent
    BY <2>1 DEF Absent
  <2> QED
    BY <2>1, <2>2, <2>3 DEF LedgerInv
<1>7. CASE Crash
  BY <1>7 DEF Crash, LedgerInv
<1>8. ASSUME NEW c \in Condition, GammaChanges(c) PROVE UNCHANGED <<syncs, cur, pc>>
  BY <1>8 DEF GammaChanges, local
<1>9. ASSUME NEW d \in DiscoveryRun, DiscoveryCompletes(d) PROVE UNCHANGED <<syncs, cur, pc>>
  BY <1>9 DEF DiscoveryCompletes, local
<1>10. CASE CompleteSync \/ LoseAcknowledgement
  BY <1>5, <1>10 DEF CompleteSync, LoseAcknowledgement
<1>11. CASE UNCHANGED vars
  BY <1>1, <1>11 DEF vars, local
<1> QED
  BY <1>1, <1>2, <1>3, <1>4, <1>6, <1>7, <1>8, <1>9, <1>10, <1>11 DEF Next, SyncStep

LEMMA ProgressStep ==
    ASSUME TypeOK, DiscoveryInv, LedgerInv, ProgressInv, [Next]_vars
    PROVE  ProgressInv'
<1>1. CASE UNCHANGED <<pc, cur, todo, missing, got, syncs, registry, discovery>>
  <2>1. UNCHANGED <<Incoming, Registered, Batch>>
    BY <1>1 DEF Incoming, Registered, Batch, registry
  <2> QED
    BY <1>1, <2>1 DEF ProgressInv, registry, discovery
<1>2. ASSUME NEW d \in DiscoveryRun, DiscoveryCompletes(d) PROVE ProgressInv'
  <2>1. /\ d \notin finished /\ finished \subseteq finished'
        /\ \A e \in DiscoveryRun : e # d => found'[e] = found[e]
        /\ UNCHANGED <<pc, cur, todo, missing, got, syncs, markets>>
    BY <1>2 DEF DiscoveryCompletes, local, registry, TypeOK
  <2>2. UNCHANGED <<Incoming, Registered, Batch>>
    BY <2>1 DEF Incoming, Registered, Batch
  <2>3. SUFFICES ASSUME pc \in {"open", "closed"} PROVE ProgressInv'
    BY <2>1 DEF ProgressInv
  <2>4. \A e \in syncs[cur].runs : e # d /\ e \in DiscoveryRun /\ found'[e] = found[e]
    BY <2>1, <2>3 DEF ProgressInv, TypeOK
  <2> QED
    BY <2>1, <2>2, <2>3, <2>4 DEF ProgressInv
<1>3. ASSUME NEW s \in SyncRun, StartSync(s) PROVE ProgressInv'
  <2>1. /\ syncs'[s] = [status |-> "running", runs |-> Pending, conditions |-> Required]
        /\ pc' = "open" /\ cur' = s /\ todo' = Required /\ got' = NoAnswers
        /\ UNCHANGED <<found, finished, markets>>
    BY <1>3 DEF StartSync, Recovered, discovery, registry
  <2>2. Incoming' = {} /\ Registered' = Registered
    BY <2>1 DEF Incoming, NoAnswers, Registered
  <2>3. Pending \subseteq finished
    BY DEF Pending
  <2> HIDE DEF Pending, Required
  <2>4. syncs'[cur'].runs = Pending /\ syncs'[cur'].conditions = Required
    BY <2>1
  <2> QED
    BY <2>1, <2>2, <2>3, <2>4, RequiredIs DEF ProgressInv
<1>4. CASE OpenQuery
  <2> DEFINE rows == Rows(Batch, FALSE)
  <2>1. rows \subseteq Batch /\ Batch \subseteq todo /\ rows \in SUBSET Condition
        /\ \A c \in rows : gamma[c] \in Payload
    BY BatchInTodo, RowsAre DEF TypeOK
  <2>2. Keep(rows) /\ pc = "open" /\ missing' = Batch \ rows
        /\ UNCHANGED <<syncs, cur, found, finished, markets>>
    BY <1>4 DEF OpenQuery, discovery, registry
  <2>3. Incoming' = Incoming \cup rows
    BY <2>1, <2>2, KeepEffect
  <2>4. Registered' = Registered
    BY <2>2 DEF Registered
  <2>5. \/ pc' = "open" /\ todo' = todo \ Batch /\ Batch \subseteq rows
        \/ pc' = "closed" /\ todo' = todo
    BY <1>4 DEF OpenQuery
  <2>6. pc' = "closed" => Batch' = Batch
    BY <2>5 DEF Batch
  <2> HIDE DEF rows
  <2>7. Incoming' \cup todo' = Incoming \cup todo
    BY ONLY <2>1, <2>3, <2>5
  <2>8. pc' = "closed" => missing' \subseteq Batch' /\ Batch' \ missing' \subseteq Incoming'
    BY ONLY <2>2, <2>3, <2>6
  <2> QED
    BY <2>2, <2>4, <2>7, <2>8 DEF ProgressInv
<1>5. CASE ClosedQuery
  <2>1. /\ pc = "closed" /\ pc' = "open" /\ Keep(missing) /\ todo' = todo \ Batch
        /\ missing \subseteq Rows(missing, TRUE)
        /\ UNCHANGED <<syncs, cur, found, finished, markets>>
    BY <1>5 DEF ClosedQuery, discovery, registry
  <2>2. missing \in SUBSET Condition /\ \A c \in missing : gamma[c] \in Payload
    BY <2>1, RowsAre DEF TypeOK
  <2>3. Incoming' = Incoming \cup missing
    BY <2>1, <2>2, KeepEffect
  <2>4. Registered' = Registered
    BY <2>1 DEF Registered
  <2>5. /\ Incoming \cup todo = syncs[cur].conditions
        /\ missing \subseteq Batch /\ Batch \ missing \subseteq Incoming
    BY <2>1 DEF ProgressInv
  <2>6. Incoming' \cup todo' = Incoming \cup todo
    BY ONLY <2>1, <2>3, <2>5, BatchInTodo
  <2> QED
    BY <2>1, <2>4, <2>6 DEF ProgressInv
<1>6. CASE pc' \in {"idle", "failing"}
  BY <1>6 DEF ProgressInv
<1>7. CASE SkipSync
  <2>1. pc' = "idle"
    BY <1>7 DEF SkipSync, local
  <2> QED
    BY <1>6, <2>1
<1>8. CASE AnswerRefused \/ RejectSync \/ FailSync \/ CallFails \/ Crash \/ CompleteSync
         \/ LoseAcknowledgement
  <2>1. pc' \in {"idle", "failing"}
    BY <1>8 DEF AnswerRefused, RejectSync, FailSync, CallFails, Crash, CompleteSync,
                LoseAcknowledgement
  <2> QED
    BY <1>6, <2>1
<1>9. ASSUME NEW c \in Condition, GammaChanges(c)
      PROVE  UNCHANGED <<pc, cur, todo, missing, got, syncs, registry, discovery>>
  BY <1>9 DEF GammaChanges, local
<1>10. CASE UNCHANGED vars
  BY <1>1, <1>10 DEF vars, local
<1> QED
  BY <1>1, <1>2, <1>3, <1>4, <1>5, <1>7, <1>8, <1>9, <1>10 DEF Next, SyncStep

(* What SyncsAreAllOrNothing says of one run.                               *)
Recorded(s) == {c \in Condition : snapshots[s][c] # NoPayload}

AllOrNothing(s) ==
    /\ Recorded(s) \in {{}, syncs[s].conditions}
    /\ Recorded(s) # {} => syncs[s].runs \subseteq synced
    /\ syncs[s].status = "completed" =>
          Recorded(s) = syncs[s].conditions /\ syncs[s].runs \subseteq synced
    /\ syncs[s].status \in {"absent", "running"} =>
          Recorded(s) = {} /\ syncs[s].runs \cap synced = {}

LEMMA AllOrNothingIs ==
    SyncsAreAllOrNothing <=> \A s \in SyncRun : AllOrNothing(s)
BY DEF SyncsAreAllOrNothing, AllOrNothing, Recorded

LEMMA AllOrNothingStep ==
    ASSUME TypeOK, LedgerInv, ProgressInv, SyncsAreAllOrNothing, [Next]_vars
    PROVE  SyncsAreAllOrNothing'
<1>0. \A s \in SyncRun : AllOrNothing(s)
  BY AllOrNothingIs
<1> SUFFICES ASSUME NEW s \in SyncRun PROVE AllOrNothing(s)'
  BY DEF SyncsAreAllOrNothing, AllOrNothing, Recorded
<1>1. AllOrNothing(s)
  BY <1>0
<1>2. syncs[s] \in SyncRow
  BY DEF TypeOK
<1>3. CASE UNCHANGED <<snapshots, synced, syncs>>
  BY <1>1, <1>3 DEF AllOrNothing, Recorded
<1>4. ASSUME UNCHANGED <<snapshots, synced>>,
             syncs'[s].runs = syncs[s].runs, syncs'[s].conditions = syncs[s].conditions,
             syncs'[s].status = "failed" \/ syncs'[s] = syncs[s]
      PROVE  AllOrNothing(s)'
  BY <1>1, <1>4 DEF AllOrNothing, Recorded
<1>5. ASSUME NEW r \in SyncRun, StartSync(r) PROVE AllOrNothing(s)'
  <2>1. UNCHANGED <<snapshots, synced>>
    BY <1>5 DEF StartSync, registry
  <2>2. CASE s = r
    <3>1. syncs'[s] = [status |-> "running", runs |-> Pending, conditions |-> Required]
      BY <1>5, <2>2 DEF StartSync, Recovered
    <3>2. syncs[s].status = "absent" /\ Pending \cap synced = {}
      BY <1>5, <2>2 DEF StartSync, Absent, Pending
    <3>3. Recorded(s) = {}
      BY <1>1, <3>2 DEF AllOrNothing
    <3>4. Recorded(s)' = {}
      BY <2>1, <3>3 DEF Recorded
    <3> HIDE DEF Pending, Required
    <3> QED
      BY <2>1, <3>1, <3>2, <3>4 DEF AllOrNothing
  <2>3. CASE s # r
    <3>1. syncs'[s] = Recovered[s]
      BY <1>5, <2>3 DEF StartSync, Recovered
    <3> QED
      BY <1>4, <2>1, <3>1, RecoveryEffect
  <2> QED
    BY <2>2, <2>3
<1>6. CASE SkipSync
  <2>1. UNCHANGED <<snapshots, synced>> /\ syncs' = Recovered
    BY <1>6 DEF SkipSync, registry
  <2> QED
    BY <1>4, <2>1, RecoveryEffect
<1>7. CASE CommitSync
  <2>1. /\ syncs'[cur].status = "completed"
        /\ syncs'[cur].runs = syncs[cur].runs
        /\ syncs'[cur].conditions = syncs[cur].conditions
        /\ \A r \in SyncRun : r # cur => syncs'[r] = syncs[r]
    BY <1>7, AtCommit, StatusWrite DEF CommitSync
  <2>2. /\ cur \in SyncRun /\ Incoming = syncs[cur].conditions
        /\ synced' = synced \cup syncs[cur].runs
    BY <1>7, AtCommit
  <2>3. /\ snapshots'[cur] = got
        /\ \A r \in SyncRun : r # cur => snapshots'[r] = snapshots[r]
    BY <1>7, <2>2 DEF CommitSync, TypeOK
  <2>4. CASE s = cur
    <3>1. Recorded(s)' = syncs'[s].conditions
      BY <2>1, <2>2, <2>3, <2>4 DEF Recorded, Incoming
    <3> QED
      BY <2>1, <2>2, <2>4, <3>1 DEF AllOrNothing
  <2>5. CASE s # cur
    <3>1. Recorded(s)' = Recorded(s) /\ syncs'[s] = syncs[s]
      BY <2>1, <2>3, <2>5 DEF Recorded
    <3>2. syncs[s].status # "running"
      BY <1>7, <2>5 DEF LedgerInv, CommitSync
    <3>3. syncs[s].status = "absent" => syncs[s].runs = {}
      BY DEF LedgerInv, Absent
    <3> QED
      BY <1>1, <2>2, <3>1, <3>2, <3>3 DEF AllOrNothing
  <2> QED
    BY <2>4, <2>5
<1>8. CASE FailSync
  <2>1. UNCHANGED <<snapshots, synced>> /\ cur \in SyncRun
    BY <1>8 DEF FailSync, registry, LedgerInv
  <2>2. /\ syncs'[cur].status = "failed"
        /\ syncs'[cur].runs = syncs[cur].runs
        /\ syncs'[cur].conditions = syncs[cur].conditions
        /\ \A r \in SyncRun : r # cur => syncs'[r] = syncs[r]
    BY <1>8, <2>1, StatusWrite DEF FailSync
  <2> QED
    BY <1>4, <2>1, <2>2
<1>9. CASE OpenQuery \/ ClosedQuery \/ AnswerRefused \/ RejectSync \/ CallFails \/ Crash
  <2>1. UNCHANGED <<snapshots, synced, syncs>>
    BY <1>9 DEF OpenQuery, ClosedQuery, AnswerRefused, RejectSync, CallFails, Crash, registry
  <2> QED
    BY <1>3, <2>1
<1>10. ASSUME NEW c \in Condition, GammaChanges(c) PROVE UNCHANGED <<snapshots, synced, syncs>>
  BY <1>10 DEF GammaChanges, registry
<1>11. ASSUME NEW d \in DiscoveryRun, DiscoveryCompletes(d)
       PROVE UNCHANGED <<snapshots, synced, syncs>>
  BY <1>11 DEF DiscoveryCompletes, registry
<1>12. CASE UNCHANGED vars
  BY <1>3, <1>12 DEF vars, registry
<1> QED
  BY <1>3, <1>5, <1>6, <1>7, <1>8, <1>9, <1>10, <1>11, <1>12
     DEF Next, SyncStep, CompleteSync, LoseAcknowledgement

LEMMA RegisteredStep ==
    ASSUME TypeOK, DiscoveryInv, LedgerInv, ProgressInv,
           SyncsAreAllOrNothing, SyncedRunsAreRegistered, [Next]_vars
    PROVE  SyncedRunsAreRegistered'
<1>1. ASSUME NEW d \in DiscoveryRun, DiscoveryCompletes(d), UNCHANGED registry
      PROVE  SyncedRunsAreRegistered'
  <2>1. \A e \in synced : e # d /\ e \in DiscoveryRun
    BY <1>1 DEF DiscoveryCompletes, DiscoveryInv, TypeOK
  <2>2. \A e \in synced : found'[e] = found[e]
    BY <1>1, <2>1 DEF DiscoveryCompletes, TypeOK
  <2> QED
    BY <1>1, <2>2 DEF SyncedRunsAreRegistered, Registered, registry
<1>2. CASE CommitSync
  <2>1. SUFFICES ASSUME NEW d \in synced', NEW c \in found[d]
                 PROVE  c \in Registered' /\ markets'[c].last >= d
    BY <1>2, AtCommit DEF SyncedRunsAreRegistered, discovery
  <2>2. /\ synced' = synced \cup syncs[cur].runs /\ cur \in SyncRun
        /\ \A e \in syncs[cur].runs : found[e] \subseteq Incoming
    BY <1>2, AtCommit
  <2>3. d \in DiscoveryRun
    BY <2>1, <2>2 DEF TypeOK, SyncRow
  <2>4. c \in Condition /\ d \in Observers(c)
    BY <2>1, <2>3 DEF TypeOK, Observers
  <2>5. /\ Registered' = Registered \cup Incoming
        /\ \A e \in Condition : markets'[e] = IF e \in Incoming THEN NewRow(e) ELSE markets[e]
    BY <1>2, CommitEffect
  <2>6. CASE c \in Incoming
    <3>1. d <= LastDiscovered(c) /\ LastDiscovered(c) \in DiscoveryRun
      BY <1>2, <2>4, <2>6, LastDiscoveredFacts DEF CommitSync
    <3>2. markets'[c].last = LastDiscovered(c)
      BY <1>2, <2>4, <2>5, <2>6, NewRowFacts DEF CommitSync
    <3>3. d \in Nat /\ LastDiscovered(c) \in Nat
      BY <2>3, <3>1, DataAssumption
    <3>4. markets'[c].last >= d
      BY ONLY <3>1, <3>2, <3>3
    <3> QED
      BY <2>5, <2>6, <3>4
  <2>7. CASE c \notin Incoming
    <3>1. d \in synced
      BY <2>1, <2>2, <2>7
    <3>2. c \in Registered /\ markets[c].last >= d
      BY <2>1, <3>1 DEF SyncedRunsAreRegistered
    <3>3. markets'[c] = markets[c]
      BY <2>4, <2>5, <2>7
    <3> QED
      BY <2>5, <3>2, <3>3
  <2> QED
    BY <2>6, <2>7
<1>3. CASE UNCHANGED <<registry, discovery>>
  BY <1>3 DEF SyncedRunsAreRegistered, Registered, registry, discovery
<1>4. (\E d \in DiscoveryRun : DiscoveryCompletes(d)) => UNCHANGED registry
  BY DEF DiscoveryCompletes
<1> QED
  BY <1>1, <1>2, <1>3, <1>4, CommitCases

LEMMA TokensStep ==
    ASSUME TypeOK, DiscoveryInv, TokensMatchPayloads, [Next]_vars
    PROVE  TokensMatchPayloads'
<1>1. CASE UNCHANGED registry
  BY <1>1 DEF TokensMatchPayloads, Registered, registry
<1>2. CASE CommitSync
  <2>1. /\ Registered' = Registered \cup Incoming
        /\ \A c \in Condition : markets'[c] = IF c \in Incoming THEN NewRow(c) ELSE markets[c]
        /\ \A t \in Token : tokens'[t] = IF t \in NewTokens THEN NewToken(t) ELSE tokens[t]
    BY <1>2, CommitEffect
  <2>2. Acceptable /\ \A t \in NewTokens : tokens[t] = NoOwner
    BY <1>2, NewTokenIsOf DEF CommitSync
  <2>3. \A c \in Incoming :
           c \in Condition /\ markets'[c].payload = got[c] /\ got[c] \in WellFormed
    BY <2>1, <2>2, NewRowFacts
  <2>4. \A c \in Condition, i \in 0..1 : \A o :
           [condition |-> c, index |-> i, outcome |-> o] = NoOwner => o \notin Outcome
    BY SentinelFacts DEF TokenRow
  <2>5. \A c \in Registered : c \in Condition /\ markets[c].payload \in WellFormed
    BY RowOf DEF MarketRow
  <2>6. ASSUME NEW c \in Registered', NEW i \in 0..1
        PROVE  tokens'[markets'[c].payload.tokens[i].id] =
                 [condition |-> c, index |-> i,
                  outcome |-> markets'[c].payload.tokens[i].outcome]
    <3>1. CASE c \in Incoming \ Registered
      <4> DEFINE t == got[c].tokens[i].id
      <4>1. t \in NewTokens
            /\ NewToken(t) = [condition |-> c, index |-> i, outcome |-> got[c].tokens[i].outcome]
        BY <2>2, <3>1, NewTokenFacts
      <4>2. t \in Token
        BY <4>1 DEF NewTokens
      <4> QED
        BY <2>1, <2>3, <3>1, <4>1, <4>2
    <3>2. ASSUME NEW row \in WellFormed,
                 tokens[row.tokens[i].id] =
                    [condition |-> c, index |-> i, outcome |-> row.tokens[i].outcome],
                 c \in Condition
          PROVE  tokens'[row.tokens[i].id] =
                    [condition |-> c, index |-> i, outcome |-> row.tokens[i].outcome]
      <4>1. row.tokens[i].id \in Token /\ row.tokens[i].outcome \in Outcome
        BY PayloadFacts
      <4>2. tokens[row.tokens[i].id] # NoOwner
        BY <2>4, <3>2, <4>1
      <4> QED
        BY <2>1, <2>2, <3>2, <4>1, <4>2
    <3>3. CASE c \in Incoming /\ c \in Registered
      <4>1. tokens[got[c].tokens[i].id] =
              [condition |-> c, index |-> i, outcome |-> got[c].tokens[i].outcome]
        BY <2>2, <3>3 DEF Acceptable, KnownMarketOK
      <4> QED
        BY <2>3, <3>2, <3>3, <4>1
    <3>4. CASE c \notin Incoming
      <4>1. c \in Registered /\ c \in Condition /\ markets'[c] = markets[c]
        BY <2>1, <2>5, <2>6, <3>4
      <4>2. tokens[markets[c].payload.tokens[i].id] =
              [condition |-> c, index |-> i, outcome |-> markets[c].payload.tokens[i].outcome]
        BY <4>1 DEF TokensMatchPayloads
      <4> QED
        BY <2>5, <3>2, <4>1, <4>2
    <3> QED
      BY <3>1, <3>3, <3>4
  <2>7. ASSUME NEW t \in Token, tokens'[t] # NoOwner
        PROVE  /\ tokens'[t].condition \in Registered'
               /\ t \in Ids(markets'[tokens'[t].condition].payload)
    <3>1. CASE t \in NewTokens
      <4>1. PICK c \in Incoming \ Registered :
               t \in Ids(got[c]) /\ NewToken(t).condition = c
        BY <2>2, <3>1, NewTokenIsOf
      <4>2. tokens'[t].condition = c
        BY <2>1, <3>1, <4>1
      <4> QED
        BY <2>1, <2>3, <4>1, <4>2
    <3>2. CASE t \notin NewTokens
      <4> DEFINE c == tokens[t].condition
      <4>1. tokens'[t] = tokens[t] /\ tokens[t] # NoOwner
        BY <2>1, <2>7, <3>2
      <4>2. c \in Registered /\ t \in Ids(markets[c].payload) /\ c \in Condition
        BY <2>5, <4>1 DEF TokensMatchPayloads
      <4>3. CASE c \in Incoming
        <5>1. StoredIds(c) = Ids(got[c])
          BY <2>2, <4>2, <4>3 DEF Acceptable, KnownMarketOK
        <5>2. t \in Ids(got[c])
          BY <4>1, <5>1 DEF StoredIds
        <5> QED
          BY <2>1, <2>3, <4>1, <4>2, <4>3, <5>2
      <4>4. CASE c \notin Incoming
        BY <2>1, <4>1, <4>2, <4>4
      <4> QED
        BY <4>3, <4>4
    <3> QED
      BY <3>1, <3>2
  <2> QED
    BY <2>6, <2>7 DEF TokensMatchPayloads, Ids
<1> QED
  BY <1>1, <1>2, CommitCases

LEMMA HistoryStep ==
    ASSUME TypeOK, DiscoveryInv, LedgerInv, ProgressInv,
           SyncsAreAllOrNothing, HistoryInv, [Next]_vars
    PROVE  HistoryInv'
<1>1. CASE UNCHANGED registry
  BY <1>1 DEF HistoryInv, Registered, registry
<1>2. CASE CommitSync
  <2>1. /\ Registered' = Registered \cup Incoming
        /\ \A c \in Condition : markets'[c] = IF c \in Incoming THEN NewRow(c) ELSE markets[c]
    BY <1>2, CommitEffect
  <2>2. cur \in SyncRun /\ \A c \in Condition : snapshots[cur][c] = NoPayload
    BY <1>2, AtCommit
  <2>3. /\ snapshots'[cur] = got
        /\ \A s \in SyncRun : s # cur => snapshots'[s] = snapshots[s]
    BY <1>2, <2>2 DEF CommitSync, TypeOK
  <2>4. SUFFICES ASSUME NEW c \in Registered'
                 PROVE  \E s \in SyncRun :
                           /\ snapshots'[s][c] = markets'[c].payload
                           /\ \A t \in SyncRun : snapshots'[t][c] # NoPayload => t <= s
    BY DEF HistoryInv
  <2>5. CASE c \in Incoming
    <3>1. markets'[c].payload = got[c] /\ c \in Condition
      BY <1>2, <2>1, <2>5, NewRowFacts DEF CommitSync
    <3>2. ASSUME NEW t \in SyncRun, snapshots'[t][c] # NoPayload PROVE t <= cur
      <4>1. t \in Nat /\ cur \in Nat
        BY <2>2, DataAssumption
      <4>2. CASE t = cur
        BY ONLY <4>1, <4>2
      <4>3. CASE t # cur
        <5>1. snapshots[t][c] # NoPayload
          BY <2>3, <3>2, <4>3
        <5>2. syncs[t].status # "absent"
          BY <3>1, <5>1 DEF SyncsAreAllOrNothing
        <5>3. ~(t > cur)
          BY <1>2, <5>2 DEF LedgerInv, CommitSync, Absent
        <5> QED
          BY ONLY <4>1, <5>3
      <4> QED
        BY <4>2, <4>3
    <3> QED
      BY <2>2, <2>3, <3>1, <3>2
  <2>6. CASE c \notin Incoming
    <3>1. c \in Registered /\ c \in Condition
      BY <2>1, <2>4, <2>6 DEF Registered
    <3>2. markets'[c] = markets[c] /\ got[c] = NoPayload
      BY <2>1, <2>6, <3>1 DEF Incoming
    <3>3. \A s \in SyncRun : snapshots'[s][c] = snapshots[s][c]
      BY <2>2, <2>3, <3>1, <3>2
    <3> QED
      BY <3>1, <3>2, <3>3 DEF HistoryInv
  <2> QED
    BY <2>5, <2>6
<1> QED
  BY <1>1, <1>2, CommitCases

LEMMA HistoryTells ==
    ASSUME TypeOK, HistoryInv
    PROVE  CurrentStatusIsLatestSnapshot
<1> SUFFICES ASSUME NEW c \in Registered
             PROVE  LET history == {s \in SyncRun : snapshots[s][c] # NoPayload}
                    IN  history # {} /\ markets[c].payload = snapshots[Latest(history)][c]
  BY DEF CurrentStatusIsLatestSnapshot
<1> DEFINE history == {s \in SyncRun : snapshots[s][c] # NoPayload}
<1>1. PICK s \in SyncRun :
         /\ snapshots[s][c] = markets[c].payload
         /\ \A t \in SyncRun : snapshots[t][c] # NoPayload => t <= s
  BY DEF HistoryInv
<1>2. markets[c].payload # NoPayload
  BY RowOf, SentinelFacts DEF MarketRow
<1>3. s \in history /\ history \subseteq Nat /\ \A t \in history : t <= s
  BY <1>1, <1>2, DataAssumption
<1>4. Latest(history) = s
  <2> HIDE DEF history
  <2> QED
    BY <1>3, LatestIs
<1> QED
  BY <1>1, <1>3, <1>4

---------------------------------------------------------------------------
(* The theorems.                                                            *)

(* Init establishes the invariant and every step preserves it.              *)
LEMMA Inductive ==
    /\ Init => TypeOK /\ IInv
    /\ TypeOK /\ IInv /\ [Next]_vars => TypeOK' /\ IInv'
<1>1. Init => TypeOK
  BY DataAssumption DEF Init, TypeOK, Absent, NoAnswers, SyncRow
<1>2. ASSUME Init PROVE DiscoveryInv /\ LedgerInv /\ ProgressInv
  <2>1. \A c \in Condition : Observers(c) = {}
    BY <1>2 DEF Init, Observers
  <2> QED
    BY <1>2, <2>1 DEF Init, DiscoveryInv, LedgerInv, ProgressInv, Absent
<1>3. ASSUME Init PROVE Registered = {} /\ \A s \in SyncRun : AllOrNothing(s)
  BY <1>3 DEF Init, Registered, AllOrNothing, Recorded, NoAnswers, Absent
<1>4. ASSUME Init PROVE IInv
  BY <1>2, <1>3, <1>4, AllOrNothingIs
     DEF IInv, Init, HistoryInv, SyncedRunsAreRegistered, TokensMatchPayloads
<1>5. TypeOK /\ IInv /\ [Next]_vars => TypeOK' /\ IInv'
  BY TypeStep, DiscoveryStep, LedgerStep, ProgressStep, AllOrNothingStep, RegisteredStep,
     TokensStep, HistoryStep DEF IInv
<1> QED
  BY <1>1, <1>4, <1>5

(* Every variable stays in its set.                                         *)
THEOREM TypeCorrect == Spec => []TypeOK
<1>1. Spec => [](TypeOK /\ IInv)
  BY Inductive, PTL DEF Spec
<1> QED
  BY <1>1, PTL

(* A synchronisation that reads while discovery runs end, fails, crashes or *)
(* loses its acknowledgement has all of its effects in the end, or none.    *)
THEOREM AllOrNothingAlways == Spec => []SyncsAreAllOrNothing
<1>1. Spec => [](TypeOK /\ IInv)
  BY Inductive, PTL DEF Spec
<1>2. IInv => SyncsAreAllOrNothing
  BY DEF IInv
<1> QED
  BY <1>1, <1>2, PTL

(* Every condition of a run with registry_synced_at is registered, however  *)
(* discovery and synchronisation interleave.                                *)
THEOREM AcknowledgedIsRegistered == Spec => []SyncedRunsAreRegistered
<1>1. Spec => [](TypeOK /\ IInv)
  BY Inductive, PTL DEF Spec
<1>2. IInv => SyncedRunsAreRegistered
  BY DEF IInv
<1> QED
  BY <1>1, <1>2, PTL

(* Market and token rows agree, whatever Gamma answered and when.           *)
THEOREM TokensAgree == Spec => []TokensMatchPayloads
<1>1. Spec => [](TypeOK /\ IInv)
  BY Inductive, PTL DEF Spec
<1>2. IInv => TokensMatchPayloads
  BY DEF IInv
<1> QED
  BY <1>1, <1>2, PTL

(* The status columns of a market are those of its latest snapshot.         *)
THEOREM StatusIsLatest == Spec => []CurrentStatusIsLatestSnapshot
<1>1. Spec => [](TypeOK /\ IInv)
  BY Inductive, PTL DEF Spec
<1>2. TypeOK /\ IInv => CurrentStatusIsLatestSnapshot
  BY HistoryTells DEF IInv
<1> QED
  BY <1>1, <1>2, PTL

(* A market that has ended changes only when it is discovered again.        *)
THEOREM EndedMarketsRest == Spec => TerminalMarketsRest
<1> DEFINE Rests ==
      \A c \in Registered :
          /\ "true" \in {markets[c].payload.closed, markets[c].payload.archived}
          /\ \A d \in Pending : c \notin found[d]
          => markets'[c] = markets[c]
<1>1. Spec => [](TypeOK /\ IInv)
  BY Inductive, PTL DEF Spec
<1>2. ASSUME TypeOK, IInv, [Next]_vars PROVE [Rests]_vars
  <2>1. CASE UNCHANGED registry
    BY <2>1 DEF registry
  <2>2. CASE CommitSync
    <3>1. SUFFICES ASSUME NEW c \in Registered,
                          "true" \in {markets[c].payload.closed, markets[c].payload.archived},
                          \A d \in Pending : c \notin found[d]
                   PROVE  markets'[c] = markets[c]
      OBVIOUS
    <3>2. ~Refreshable(markets[c].payload)
      BY <3>1 DEF Refreshable
    <3>3. c \notin Incoming
      BY <1>2, <2>2, <3>1, <3>2, AtCommit DEF IInv
    <3> QED
      BY <1>2, <2>2, <3>3, CommitEffect DEF IInv, Registered
  <2> QED
    BY <1>2, <2>1, <2>2, CommitCases
<1> QED
  BY <1>1, <1>2, PTL DEF Spec, TerminalMarketsRest

(* A commit is the Publish step of CanonicalRegistry.                       *)
LEMMA CommitPublishes ==
    ASSUME TypeOK, IInv, CommitSync, TypeOK', IInv'
    PROVE  Canonical!Publish
<1>1. /\ synced' = synced \cup syncs[cur].runs /\ UNCHANGED <<found, finished>>
      /\ Registered' = Registered \cup Incoming
      /\ \A t \in Token : tokens'[t] = IF t \in NewTokens THEN NewToken(t) ELSE tokens[t]
      /\ Acceptable
  BY AtCommit, CommitEffect DEF IInv, CommitSync, discovery
<1>2. synced \subseteq synced' /\ synced' \subseteq finished /\ Registered \subseteq Registered'
  BY <1>1 DEF IInv, DiscoveryInv
<1>3. \A c \in Registered' \ Registered : \E d \in finished : c \in found[d]
  <2>1. TAKE c \in Registered' \ Registered
  <2>2. c \in Incoming /\ c \in Condition
    BY <1>1, <2>1 DEF Incoming
  <2>3. PICK d \in DiscoveryRun : c \in found[d]
    BY <1>1, <2>1, <2>2 DEF Acceptable, NewMarketOK, Observers
  <2> QED
    BY <2>3 DEF IInv, DiscoveryInv
<1>4. \A d \in synced' : found[d] \subseteq Registered'
  BY <1>1 DEF IInv, SyncedRunsAreRegistered
<1>5. \A t \in Token : tokens[t] # NoOwner => tokens'[t] = tokens[t]
  BY <1>1, NewTokenIsOf
<1>6. \A t \in Token : tokens[t] = NoOwner /\ tokens'[t] # NoOwner
         => tokens'[t].condition \in Registered' \ Registered
  <2>1. SUFFICES ASSUME NEW t \in Token, t \in NewTokens
                 PROVE  NewToken(t).condition \in Incoming \ Registered
    BY <1>1
  <2> QED
    BY <1>1, <2>1, NewTokenIsOf
<1>7. \A c \in Registered' \ Registered : \A i \in 0..1 : \E t \in Token :
         /\ tokens[t] = NoOwner /\ tokens'[t] # NoOwner
         /\ tokens'[t].condition = c /\ tokens'[t].index = i
  <2>1. TAKE c \in Registered' \ Registered
  <2>2. TAKE i \in 0..1
  <2> DEFINE t == got[c].tokens[i].id
  <2>3. c \in Incoming \ Registered
    BY <1>1, <2>1
  <2>4. /\ t \in NewTokens /\ tokens[t] = NoOwner /\ NewToken(t) # NoOwner
        /\ NewToken(t) = [condition |-> c, index |-> i, outcome |-> got[c].tokens[i].outcome]
    <3>1. TypeOK /\ Acceptable /\ i \in 0..1
      BY <1>1, <2>2
    <3> QED
      BY ONLY <2>3, <3>1, NewTokenFacts
  <2>5. t \in Token
    BY <2>4 DEF NewTokens
  <2> HIDE DEF t
  <2> QED
    BY <1>1, <2>4, <2>5
<1>8. ASSUME NEW t \in Token, NEW u \in Token,
             tokens'[t] # NoOwner, tokens'[u] # NoOwner,
             tokens'[t].condition = tokens'[u].condition, tokens'[t].index = tokens'[u].index
      PROVE  t = u
  <2> DEFINE c == tokens'[t].condition
             row == markets'[c].payload
  <2>1. c \in Registered' /\ t \in Ids(row) /\ u \in Ids(row)
    <3>1. \A x \in Token : tokens'[x] # NoOwner =>
             /\ tokens'[x].condition \in Registered'
             /\ x \in Ids(markets'[tokens'[x].condition].payload)
      BY DEF IInv, TokensMatchPayloads, Ids
    <3> QED
      BY ONLY <1>8, <3>1
  <2>2. row \in WellFormed
    BY <2>1 DEF TypeOK, Registered, MarketRow
  <2>3. PICK i \in 0..1 : t = row.tokens[i].id
    BY <2>1, <2>2, PayloadFacts
  <2>4. PICK j \in 0..1 : u = row.tokens[j].id
    BY <2>1, <2>2, PayloadFacts
  <2>5. tokens'[t].index = i /\ tokens'[u].index = j
    <3>1. \A k \in 0..1 :
             tokens'[row.tokens[k].id] =
               [condition |-> c, index |-> k, outcome |-> row.tokens[k].outcome]
      BY <2>1 DEF IInv, TokensMatchPayloads
    <3> HIDE DEF row, c
    <3> QED
      BY ONLY <2>3, <2>4, <3>1
  <2> QED
    BY <1>8, <2>3, <2>4, <2>5
<1> QED
  BY <1>1, <1>2, <1>3, <1>4, <1>5, <1>6, <1>7, <1>8 DEF Canonical!Publish, Canonical!Known

(* The registry implements CanonicalRegistry.                               *)
THEOREM RegistryIsCanonical == Spec => ImplementsCanonicalRegistry
<1>1. Spec => [](TypeOK /\ IInv)
  BY Inductive, PTL DEF Spec
<1>2. Init => Canonical!Init
  BY DEF Init, Canonical!Init, Registered
<1>3. ASSUME TypeOK, IInv, [Next]_vars PROVE [Canonical!Next]_Canonical!vars
  <2>1. CASE CommitSync
    BY <1>3, <2>1, Inductive, CommitPublishes DEF Canonical!Next
  <2>2. ASSUME NEW d \in DiscoveryRun, DiscoveryCompletes(d) PROVE Canonical!Next
    <3>1. Canonical!Finish(d)
      BY <2>2 DEF DiscoveryCompletes, Canonical!Finish, registry, Registered
    <3> QED
      BY <3>1 DEF Canonical!Next
  <2>3. CASE UNCHANGED <<registry, discovery>>
    BY <2>3 DEF Canonical!vars, registry, discovery, Registered
  <2> QED
    BY <1>3, <2>1, <2>2, <2>3, CommitCases
<1> QED
  BY <1>1, <1>2, <1>3, PTL DEF Spec, ImplementsCanonicalRegistry, Canonical!Spec
=============================================================================
