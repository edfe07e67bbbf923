--------------------- MODULE OrderbookCollectionProofs ---------------------
(***************************************************************************)
(* Theorems about OrderbookCollection, for any finite set of tokens, any   *)
(* number of runs, any batch size and any replies.                         *)
(***************************************************************************)
EXTENDS OrderbookCollection, FiniteSetTheorems, TLAPS

USE DEF vars, tables, local

LEMMA SubsetsAreCounted ==
    ASSUME NEW S \in SUBSET Token
    PROVE  Cardinality(S) \in Nat /\ (Cardinality(S) = 0 <=> S = {})
<1>1. IsFiniteSet(S)
  BY FS_Subset, ConstantAssumption
<1> QED
  BY <1>1, FS_CardinalityType, FS_EmptySet

(* What one reply adds concerns tokens only, and every token of the batch   *)
(* gets a book or an error.                                                 *)
LEMMA AnsweredEffect ==
    ASSUME NEW reply \in [Token -> Answer], Answered(reply)
    PROVE  /\ parsed \subseteq parsed' /\ parsed' \subseteq parsed \cup Batch
           /\ errors \subseteq errors' /\ errors' \subseteq errors \cup Token \cup Batch
           /\ Batch \subseteq parsed' \cup errors'
           /\ (parsed' \ parsed) \cap errors' = {}
           /\ (\A t \in Token \ Batch : reply[t] = "none") => errors' \subseteq errors \cup Batch
<1> DEFINE several == {t \in Token : reply[t] = "several"}
           fresh == Batch \ (errors \cup several)
<1>1. /\ parsed' = parsed \cup {t \in fresh : reply[t] = "good"}
      /\ errors' = errors \cup several \cup {t \in fresh : reply[t] # "good"}
  BY DEF Answered
<1>2. several \subseteq Token /\ fresh \subseteq Batch /\ fresh \cap (errors \cup several) = {}
  OBVIOUS
<1>3. Batch \subseteq fresh \cup errors \cup several
  OBVIOUS
<1>4. ASSUME \A t \in Token \ Batch : reply[t] = "none" PROVE several \subseteq Batch
  BY <1>4
<1> HIDE DEF several, fresh
<1> QED
  BY <1>1, <1>2, <1>3, <1>4

(* Counters stay counters when they are assigned.                          *)
LEMMA CountersAreNat ==
    ASSUME NEW C \in [RunId -> [selected : Nat, success : Nat, failure : Nat]],
           NEW r, NEW m \in Nat, NEW n \in Nat
    PROVE  /\ [C EXCEPT ![r].selected = n]
                 \in [RunId -> [selected : Nat, success : Nat, failure : Nat]]
           /\ [C EXCEPT ![r].failure = n]
                 \in [RunId -> [selected : Nat, success : Nat, failure : Nat]]
           /\ [C EXCEPT ![r].success = m, ![r].failure = n]
                 \in [RunId -> [selected : Nat, success : Nat, failure : Nat]]
<1>1. [C EXCEPT ![r].selected = n] \in [RunId -> [selected : Nat, success : Nat, failure : Nat]]
  OBVIOUS
<1>2. [C EXCEPT ![r].failure = n] \in [RunId -> [selected : Nat, success : Nat, failure : Nat]]
  OBVIOUS
<1>3. [C EXCEPT ![r].success = m, ![r].failure = n]
        \in [RunId -> [selected : Nat, success : Nat, failure : Nat]]
  <2> DEFINE D == [C EXCEPT ![r].success = m]
  <2>1. D \in [RunId -> [selected : Nat, success : Nat, failure : Nat]]
    OBVIOUS
  <2> HIDE DEF D
  <2>2. [D EXCEPT ![r].failure = n] \in [RunId -> [selected : Nat, success : Nat, failure : Nat]]
    BY <2>1
  <2> QED
    BY <2>2 DEF D
<1> QED
  BY <1>1, <1>2, <1>3

(* Every variable keeps its type.                                           *)
THEOREM TypeCorrect == Spec => []TypeOK
<1> USE ConstantAssumption
<1>1. Init => TypeOK
  BY DEF Init, TypeOK
<1>2. TypeOK /\ [Next]_vars => TypeOK'
  <2> SUFFICES ASSUME TypeOK, [Next]_vars
               PROVE  TypeOK'
    OBVIOUS
  <2> USE DEF TypeOK, Ended, Leave
  <2>1. ASSUME NEW r \in RunId, StartRun(r) PROVE TypeOK'
    BY <2>1 DEF StartRun, RecoveredStatus, FailedPending
  <2>2. CASE SkipRun
    BY <2>2 DEF SkipRun, RecoveredStatus, FailedPending
  <2>3. ASSUME NEW S \in SUBSET Token, SelectItems(S) PROVE TypeOK'
    <3>1. Cardinality(S) \in Nat
      BY SubsetsAreCounted
    <3>2. counts' \in [RunId -> [selected : Nat, success : Nat, failure : Nat]]
      <4>1. counts' = [counts EXCEPT ![cur].selected = Cardinality(S)]
        BY <2>3 DEF SelectItems
      <4> QED
        BY <3>1, <4>1, CountersAreNat
    <3>3. items' \in [RunId -> [Token -> {"none", "pending", "completed", "failed"}]]
      BY <2>3 DEF SelectItems
    <3> QED
      BY <2>3, <3>2, <3>3 DEF SelectItems
  <2>4. CASE BatchAnswered
    <3>1. PICK reply \in [Token -> Answer] : Answered(reply)
      BY <2>4 DEF BatchAnswered, Replies
    <3>2. parsed' \subseteq Token /\ errors' \subseteq Token
      BY <3>1, AnsweredEffect DEF Batch
    <3> QED
      BY <2>4, <3>2 DEF BatchAnswered
  <2>5. CASE BatchFails
    BY <2>5 DEF BatchFails, Batch
  <2>6. CASE Commit /\ (CompleteRun \/ LoseAcknowledgement)
    <3>1. Cardinality(parsed) \in Nat /\ Cardinality(errors) \in Nat
      BY SubsetsAreCounted
    <3>2. counts' \in [RunId -> [selected : Nat, success : Nat, failure : Nat]]
      <4>1. counts' = [counts EXCEPT ![cur].success = Cardinality(parsed),
                                     ![cur].failure = Cardinality(errors)]
        BY <2>6 DEF Commit
      <4> QED
        BY <3>1, <4>1, CountersAreNat
    <3>3. items' \in [RunId -> [Token -> {"none", "pending", "completed", "failed"}]]
      BY <2>6 DEF Commit, Settled
    <3>4. status' \in [RunId -> {"absent", "running"} \cup Ended]
      BY <2>6 DEF Commit, CollectionStatus
    <3>5. books' \in [RunId -> SUBSET Token]
      BY <2>6 DEF Commit
    <3>6. CASE CompleteRun
      BY <3>2, <3>3, <3>4, <3>5, <3>6 DEF CompleteRun
    <3>7. CASE LoseAcknowledgement
      <4>1. faults' \in 0..MaxFaults
        BY <3>7 DEF LoseAcknowledgement
      <4> QED
        BY <3>2, <3>3, <3>4, <3>5, <3>7, <4>1 DEF LoseAcknowledgement
    <3> QED
      BY <2>6, <3>6, <3>7
  <2>7. CASE FailRun
    <3>1. Cardinality(Selected(cur)) \in Nat
      BY SubsetsAreCounted DEF Selected
    <3>2. counts' \in [RunId -> [selected : Nat, success : Nat, failure : Nat]]
      <4>1. counts' = [counts EXCEPT ![cur].failure = Cardinality(Selected(cur))]
        BY <2>7 DEF FailRun
      <4> QED
        BY <3>1, <4>1, CountersAreNat
    <3>3. items' \in [RunId -> [Token -> {"none", "pending", "completed", "failed"}]]
      BY <2>7 DEF FailRun, FailedPending
    <3>4. status' \in [RunId -> {"absent", "running"} \cup Ended]
      BY <2>7 DEF FailRun
    <3>5. /\ pc' = "idle" /\ cur' = 0 /\ todo' = {} /\ parsed' = {} /\ errors' = {}
          /\ books' = books /\ faults' = faults
      BY <2>7 DEF FailRun
    <3> QED
      BY <3>2, <3>3, <3>4, <3>5
  <2>8. CASE BodyFails \/ Crash
    <3>1. faults' \in 0..MaxFaults
      BY <2>8 DEF BodyFails, Crash
    <3>2. CASE BodyFails
      BY <3>1, <3>2 DEF BodyFails
    <3>3. CASE Crash
      BY <3>1, <3>3 DEF Crash
    <3> QED
      BY <2>8, <3>2, <3>3
  <2>9. CASE UNCHANGED vars
    BY <2>9
  <2> QED
    BY <2>1, <2>2, <2>3, <2>4, <2>5, <2>6, <2>7, <2>8, <2>9
       DEF Next, CollectionStep, CompleteRun, LoseAcknowledgement
<1> QED
  BY <1>1, <1>2, PTL DEF Spec

---------------------------------------------------------------------------
(* The except clause after a lost acknowledgement finds no pending items.   *)
LEMMA FailEndedRun ==
    ASSUME TypeOK, LocalInv, NothingIsLost, FailRun, status[cur] \in Ended
    PROVE  /\ items'[cur] = items[cur] /\ books' = books
           /\ pc = "failing" /\ pc' = "idle" /\ status'[cur] = "failed"
           /\ counts'[cur] = [counts[cur] EXCEPT !.failure = Cardinality(Selected(cur))]
<1> USE DEF TypeOK
<1>1. cur \in RunId /\ pc = "failing"
  BY DEF FailRun, LocalInv
<1>2. \A t \in Token : items[cur][t] # "pending"
  BY <1>1 DEF NothingIsLost, Selected
<1>3. FailedPending({cur})[cur] = [t \in Token |-> items[cur][t]]
  BY <1>1, <1>2 DEF FailedPending
<1>4. items'[cur] = items[cur]
  BY <1>1, <1>3 DEF FailRun
<1>5. counts'[cur] = [counts[cur] EXCEPT !.failure = Cardinality(Selected(cur))]
  BY <1>1 DEF FailRun
<1> QED
  BY <1>1, <1>4, <1>5 DEF FailRun, Leave

(* No step touches a run that has ended, except its own except clause.      *)
LEMMA FrozenStep ==
    ASSUME TypeOK, LocalInv, NothingIsLost, [Next]_vars, NEW r \in RunId, status[r] \in Ended
    PROVE  /\ items'[r] = items[r] /\ books'[r] = books[r]
           /\ \/ status'[r] = status[r] /\ counts'[r] = counts[r]
              \/ /\ pc = "failing" /\ cur = r /\ pc' = "idle"
                 /\ status'[r] = "failed"
                 /\ counts'[r] = [counts[r] EXCEPT !.failure = Cardinality(Selected(r))]
<1> USE DEF TypeOK, LocalInv, Ended
<1>1. r \notin Orphans
  BY DEF Orphans
<1>2. ASSUME NEW S, r \notin S PROVE FailedPending(S)[r] = items[r]
  <2>1. FailedPending(S)[r] = [t \in Token |-> items[r][t]]
    BY <1>2 DEF FailedPending
  <2> QED
    BY <2>1
<1>3. RecoveredStatus[r] = status[r]
  BY <1>1 DEF RecoveredStatus
<1>4. pc \in {"created", "batches"} => cur # r
  OBVIOUS
<1>5. ASSUME NEW q \in RunId, StartRun(q)
      PROVE  /\ status'[r] = status[r] /\ counts' = counts
             /\ items'[r] = items[r] /\ books' = books
  <2>1. q # r /\ status' = [RecoveredStatus EXCEPT ![q] = "running"]
    BY <1>5 DEF StartRun
  <2>2. status'[r] = RecoveredStatus[r]
    BY <2>1 DEF RecoveredStatus
  <2> QED
    BY <1>1, <1>2, <1>3, <1>5, <2>2 DEF StartRun
<1>6. CASE SkipRun
  BY <1>1, <1>2, <1>3, <1>6 DEF SkipRun
<1>7. ASSUME NEW S \in SUBSET Token, SelectItems(S)
      PROVE  /\ status' = status /\ counts'[r] = counts[r]
             /\ items'[r] = items[r] /\ books' = books
  BY <1>4, <1>7 DEF SelectItems
<1>8. CASE BatchAnswered \/ BatchFails \/ BodyFails \/ Crash \/ UNCHANGED vars
  BY <1>8 DEF BatchAnswered, BatchFails, BodyFails, Crash
<1>9. CASE Commit
  <2>1. cur # r
    BY <1>4, <1>9 DEF Commit
  <2>2. Settled[r] = [t \in Token |-> items[r][t]]
    BY <2>1 DEF Settled
  <2>3. items'[r] = items[r]
    BY <1>9, <2>2 DEF Commit
  <2> QED
    BY <1>9, <2>1, <2>3 DEF Commit
<1>10. CASE FailRun /\ cur # r
  <2>1. FailedPending({cur})[r] = items[r]
    BY <1>2, <1>10
  <2> QED
    BY <1>10, <2>1 DEF FailRun
<1>11. CASE FailRun /\ cur = r
  BY <1>11, FailEndedRun
<1> QED
  BY <1>5, <1>6, <1>7, <1>8, <1>9, <1>10, <1>11
     DEF Next, CollectionStep, CompleteRun, LoseAcknowledgement

---------------------------------------------------------------------------
(* A run ends in one of two ways: it is failed as a whole, without books,   *)
(* or its collection commits what it has.                                   *)
LEMMA EndingStep ==
    ASSUME TypeOK, LocalInv, OpenRunsInv, [Next]_vars,
           NEW r \in RunId, status[r] \notin Ended, status'[r] \in Ended
    PROVE  \/ /\ status'[r] = "failed" /\ books'[r] = {} /\ counts'[r].success = 0
              /\ \A t \in Token : items'[r][t] \in {"none", "failed"}
           \/ Commit /\ r = cur
<1> USE DEF TypeOK, Ended
<1>1. status[r] \in {"absent", "running"}
  OBVIOUS
<1>2. books[r] = {} /\ counts[r].success = 0 /\ \A t \in Token : items[r][t] \in {"none", "pending"}
  BY <1>1 DEF OpenRunsInv
<1>3. ASSUME NEW S, r \in S
      PROVE  \A t \in Token : FailedPending(S)[r][t] \in {"none", "failed"}
  BY <1>2, <1>3 DEF FailedPending
<1>4. ASSUME NEW q \in RunId, StartRun(q)
      PROVE  /\ status'[r] = "failed" /\ books'[r] = {} /\ counts'[r].success = 0
             /\ \A t \in Token : items'[r][t] \in {"none", "failed"}
  <2>1. r # q /\ status'[r] = RecoveredStatus[r]
    BY <1>4 DEF StartRun, RecoveredStatus
  <2>2. r \in Orphans /\ status'[r] = "failed"
    BY <2>1 DEF RecoveredStatus, Orphans
  <2> QED
    BY <1>2, <1>3, <1>4, <2>2 DEF StartRun
<1>5. CASE SkipRun
  <2>1. r \in Orphans /\ status'[r] = "failed"
    BY <1>5 DEF SkipRun, RecoveredStatus, Orphans
  <2> QED
    BY <1>2, <1>3, <1>5, <2>1 DEF SkipRun
<1>6. CASE FailRun
  <2>1. r = cur /\ status'[r] = "failed" /\ counts'[r].success = counts[r].success
    BY <1>6 DEF FailRun
  <2> QED
    BY <1>2, <1>3, <1>6, <2>1 DEF FailRun
<1>7. CASE Commit
  BY <1>7 DEF Commit
<1>8. ASSUME NEW S \in SUBSET Token, SelectItems(S) PROVE FALSE
  BY <1>8 DEF SelectItems
<1>9. CASE BatchAnswered \/ BatchFails \/ BodyFails \/ Crash \/ UNCHANGED vars
  BY <1>9 DEF BatchAnswered, BatchFails, BodyFails, Crash
<1> QED
  BY <1>4, <1>5, <1>6, <1>7, <1>8, <1>9
     DEF Next, CollectionStep, CompleteRun, LoseAcknowledgement

(* What the commit of a collection leaves behind.                           *)
LEMMA CommitEffect ==
    ASSUME TypeOK, LocalInv, OpenRunsInv, Commit
    PROVE  /\ books'[cur] = parsed /\ parsed \subseteq Selected(cur)
           /\ \A t \in Token :
                 items'[cur][t] = IF t \notin Selected(cur) THEN "none"
                                  ELSE IF t \in errors THEN "failed" ELSE "completed"
           /\ \A t \in Selected(cur) : t \in parsed \/ t \in errors
           /\ status'[cur] = "completed" <=> errors = {}
           /\ status'[cur] = "failed" <=> errors # {} /\ parsed = {}
           /\ counts'[cur].success = Cardinality(parsed)
<1> USE DEF TypeOK
<1>1. /\ cur \in RunId /\ todo = {} /\ parsed \subseteq Selected(cur)
      /\ Selected(cur) \subseteq parsed \cup errors
  BY DEF Commit, LocalInv
<1>2. books'[cur] = parsed
  BY <1>1 DEF Commit
<1>3. ASSUME NEW t \in Token
      PROVE  items'[cur][t] = IF t \notin Selected(cur) THEN "none"
                              ELSE IF t \in errors THEN "failed" ELSE "completed"
  <2>1. t \in Selected(cur) <=> items[cur][t] # "none"
    BY DEF Selected
  <2>2. items'[cur][t] = IF items[cur][t] = "none" THEN items[cur][t]
                         ELSE IF t \in errors THEN "failed"
                         ELSE IF t \in parsed THEN "completed" ELSE items[cur][t]
    BY <1>1 DEF Commit, Settled
  <2> QED
    BY <1>1, <2>1, <2>2
<1>4. status'[cur] = CollectionStatus(Cardinality(parsed), Cardinality(errors))
  BY <1>1 DEF Commit
<1>5. /\ Cardinality(errors) = 0 <=> errors = {}
      /\ Cardinality(parsed) = 0 <=> parsed = {}
  BY SubsetsAreCounted
<1>6. counts'[cur].success = Cardinality(parsed)
  BY <1>1 DEF Commit
<1> QED
  BY <1>1, <1>2, <1>3, <1>4, <1>5, <1>6 DEF CollectionStatus

---------------------------------------------------------------------------
LEMMA LocalStep ==
    ASSUME TypeOK, LocalInv, OpenRunsInv, [Next]_vars
    PROVE  LocalInv'
<1> USE ConstantAssumption DEF TypeOK, LocalInv, Selected
<1>1. ASSUME NEW r \in RunId, StartRun(r) PROVE LocalInv'
  <2>1. /\ pc' = "created" /\ cur' = r /\ status'[r] = "running"
        /\ todo' = {} /\ parsed' = {} /\ errors' = {}
    BY <1>1 DEF StartRun, RecoveredStatus
  <2>2. \A t \in Token : items[r][t] = "none"
    BY <1>1 DEF StartRun, OpenRunsInv
  <2>3. \A t \in Token : items'[r][t] = "none"
    BY <1>1, <2>2 DEF StartRun, FailedPending
  <2> QED
    BY <2>1, <2>3
<1>2. CASE SkipRun
  BY <1>2 DEF SkipRun
<1>3. ASSUME NEW S \in SUBSET Token, SelectItems(S) PROVE LocalInv'
  <2>1. /\ pc' = "batches" /\ cur' = cur /\ cur \in RunId /\ status' = status
        /\ todo' = S /\ parsed' = {} /\ status[cur] = "running"
    BY <1>3 DEF SelectItems
  <2>2. \A t \in Token : items'[cur][t] = IF t \in S THEN "pending" ELSE "none"
    BY <1>3, <2>1 DEF SelectItems
  <2>3. Selected(cur)' = S
    BY <2>1, <2>2
  <2> QED
    BY <2>1, <2>3
<1>4. CASE BatchAnswered
  <2>1. PICK reply \in [Token -> Answer] : Answered(reply)
    BY <1>4 DEF BatchAnswered, Replies
  <2>2. /\ parsed' \subseteq parsed \cup Batch /\ parsed \subseteq parsed'
        /\ errors \subseteq errors' /\ Batch \subseteq parsed' \cup errors'
    BY <2>1, AnsweredEffect
  <2>3. Batch \subseteq todo
    BY DEF Batch
  <2>4. /\ pc' = "batches" /\ pc = "batches" /\ cur' = cur /\ status' = status
        /\ items' = items /\ todo' = todo \ Batch
    BY <1>4 DEF BatchAnswered
  <2>5. Selected(cur)' = Selected(cur)
    BY <2>4
  <2>6. /\ todo \cup parsed \subseteq Selected(cur)
        /\ Selected(cur) \subseteq todo \cup parsed \cup errors
    BY <2>4
  <2>7. todo' \cup parsed' \subseteq Selected(cur)
    <3> HIDE DEF Selected
    <3> QED
      BY <2>2, <2>3, <2>4, <2>6
  <2>8. Selected(cur) \subseteq todo' \cup parsed' \cup errors'
    <3> HIDE DEF Selected
    <3> QED
      BY <2>2, <2>3, <2>4, <2>6
  <2>9. cur \in RunId /\ status[cur] = "running"
    BY <2>4
  <2> HIDE DEF Selected, TypeOK
  <2> QED
    BY <2>4, <2>5, <2>7, <2>8, <2>9
<1>5. CASE BatchFails
  BY <1>5 DEF BatchFails, Batch
<1>6. CASE CompleteRun \/ FailRun \/ Crash
  BY <1>6 DEF CompleteRun, FailRun, Crash, Leave
<1>7. CASE BodyFails
  BY <1>7 DEF BodyFails
<1>8. CASE UNCHANGED vars
  BY <1>8
<1>9. CASE LoseAcknowledgement
  <2>1. /\ cur \in RunId /\ pc' = "failing" /\ cur' = cur
        /\ status'[cur] = CollectionStatus(Cardinality(parsed), Cardinality(errors))
    BY <1>9 DEF LoseAcknowledgement, Commit
  <2> QED
    BY <2>1 DEF CollectionStatus
<1> QED
  BY <1>1, <1>2, <1>3, <1>4, <1>5, <1>6, <1>7, <1>8, <1>9 DEF Next, CollectionStep

LEMMA OpenRunsStep ==
    ASSUME TypeOK, LocalInv, OpenRunsInv, NothingIsLost, [Next]_vars
    PROVE  OpenRunsInv'
<1> SUFFICES ASSUME NEW r \in RunId, status'[r] \in {"absent", "running"}
             PROVE  /\ books'[r] = {} /\ counts'[r].success = 0
                    /\ \A t \in Token : items'[r][t] \in {"none", "pending"}
                    /\ status'[r] = "absent" => \A t \in Token : items'[r][t] = "none"
  BY DEF OpenRunsInv
<1> USE ConstantAssumption DEF TypeOK
<1>1. status[r] \in {"absent", "running"}
  BY FrozenStep DEF Ended
<1>2. /\ books[r] = {} /\ counts[r].success = 0
      /\ \A t \in Token : items[r][t] \in {"none", "pending"}
      /\ status[r] = "absent" => \A t \in Token : items[r][t] = "none"
  BY <1>1 DEF OpenRunsInv
<1>3. ASSUME NEW q \in RunId, StartRun(q) \/ SkipRun
      PROVE  books' = books /\ counts' = counts /\ items'[r] = items[r] /\ status[r] = "absent"
  <2>1. r \notin Orphans /\ status[r] = "absent"
    BY <1>1, <1>3 DEF StartRun, SkipRun, RecoveredStatus, Orphans
  <2>2. FailedPending(Orphans)[r] = [t \in Token |-> items[r][t]]
    BY <2>1 DEF FailedPending
  <2> QED
    BY <1>3, <2>1, <2>2 DEF StartRun, SkipRun
<1>4. ASSUME NEW S \in SUBSET Token, SelectItems(S)
      PROVE  /\ books' = books /\ status' = status
             /\ counts'[r].success = counts[r].success
             /\ \A t \in Token : items'[r][t] \in {"none", "pending"}
             /\ r # cur => items'[r] = items[r]
  BY <1>2, <1>4 DEF SelectItems
<1>5. ASSUME NEW S \in SUBSET Token, SelectItems(S) PROVE r = cur => status[r] = "running"
  BY <1>5 DEF SelectItems, LocalInv
<1>6. CASE Commit
  <2>1. r # cur
    BY <1>6 DEF Commit, CollectionStatus
  <2>2. Settled[r] = [t \in Token |-> items[r][t]]
    BY <2>1 DEF Settled
  <2>3. /\ status'[r] = status[r] /\ books'[r] = books[r] /\ items'[r] = items[r]
        /\ counts'[r] = counts[r]
    BY <1>6, <2>1, <2>2 DEF Commit
  <2> QED
    BY <1>2, <2>3
<1>7. CASE FailRun
  <2>1. r # cur
    BY <1>7 DEF FailRun
  <2>2. FailedPending({cur})[r] = [t \in Token |-> items[r][t]]
    BY <2>1 DEF FailedPending
  <2>3. /\ status'[r] = status[r] /\ books'[r] = books[r] /\ items'[r] = items[r]
        /\ counts'[r] = counts[r]
    BY <1>7, <2>1, <2>2 DEF FailRun
  <2> QED
    BY <1>2, <2>3
<1>8. CASE BatchAnswered \/ BatchFails \/ BodyFails \/ Crash \/ UNCHANGED vars
  BY <1>2, <1>8 DEF BatchAnswered, BatchFails, BodyFails, Crash
<1> QED
  BY <1>2, <1>3, <1>4, <1>5, <1>6, <1>7, <1>8
     DEF Next, CollectionStep, CompleteRun, LoseAcknowledgement

LEMMA PartitionStep ==
    ASSUME TypeOK, LocalInv, PartitionInv, [Next]_vars
    PROVE  PartitionInv'
<1> SUFFICES ASSUME pc' = "batches", ~AllowUnrequested
             PROVE  /\ errors' \subseteq Selected(cur)'
                    /\ todo' \cap (parsed' \cup errors') = {} /\ parsed' \cap errors' = {}
  BY DEF PartitionInv
<1> USE ConstantAssumption DEF TypeOK, PartitionInv
<1>1. ASSUME NEW S \in SUBSET Token, SelectItems(S)
      PROVE  parsed' = {} /\ errors' = {}
  BY <1>1 DEF SelectItems, LocalInv
<1>2. ASSUME pc = "batches", items' = items, cur' = cur
      PROVE  Selected(cur)' = Selected(cur)
  BY <1>2 DEF Selected
<1>3. CASE BatchAnswered
  <2>1. PICK reply \in Replies : Answered(reply)
    BY <1>3 DEF BatchAnswered
  <2>2. reply \in [Token -> Answer] /\ \A t \in Token \ Batch : reply[t] = "none"
    BY DEF Replies
  <2>3. /\ parsed' \subseteq parsed \cup Batch /\ errors' \subseteq errors \cup Batch
        /\ (parsed' \ parsed) \cap errors' = {}
    BY <2>1, <2>2, AnsweredEffect
  <2>4. Batch \subseteq todo
    BY DEF Batch
  <2>5. pc = "batches" /\ todo' = todo \ Batch /\ Selected(cur)' = Selected(cur)
    BY <1>2, <1>3 DEF BatchAnswered
  <2>6. todo \subseteq Selected(cur) /\ errors \subseteq Selected(cur)
    BY <2>5 DEF LocalInv
  <2>7. todo \cap (parsed \cup errors) = {} /\ parsed \cap errors = {}
    BY <2>5
  <2> QED
    BY <2>3, <2>4, <2>5, <2>6, <2>7
<1>4. CASE BatchFails
  <2>1. pc = "batches" /\ todo' = todo \ Batch /\ Selected(cur)' = Selected(cur)
    BY <1>2, <1>4 DEF BatchFails
  <2>2. Batch \subseteq todo /\ todo \subseteq Selected(cur)
    BY <2>1 DEF Batch, LocalInv
  <2>3. errors' = errors \cup Batch /\ parsed' = parsed
    BY <1>4 DEF BatchFails
  <2> QED
    BY <2>1, <2>2, <2>3
<1>5. CASE SkipRun \/ UNCHANGED vars
  BY <1>2, <1>5 DEF SkipRun, Selected
<1>6. ASSUME NEW r \in RunId, StartRun(r) PROVE FALSE
  BY <1>6 DEF StartRun
<1>7. CASE CompleteRun \/ LoseAcknowledgement \/ FailRun \/ BodyFails \/ Crash
  BY <1>7 DEF CompleteRun, LoseAcknowledgement, FailRun, BodyFails, Crash, Leave
<1> QED
  BY <1>1, <1>3, <1>4, <1>5, <1>6, <1>7 DEF Next, CollectionStep

LEMMA NothingIsLostStep ==
    ASSUME TypeOK, LocalInv, OpenRunsInv, NothingIsLost, [Next]_vars
    PROVE  NothingIsLost'
<1> SUFFICES ASSUME NEW r \in RunId, status'[r] \in Ended
             PROVE  /\ \A t \in Token :
                          items'[r][t] # "none" =>
                             \/ items'[r][t] = "failed"
                             \/ items'[r][t] = "completed" /\ t \in books'[r]
                    /\ \A t \in books'[r] : t \in Token /\ items'[r][t] # "none"
                    /\ status'[r] = "completed" =>
                          \A t \in Token : items'[r][t] # "none" => t \in books'[r]
  BY DEF NothingIsLost, Selected
<1>1. CASE status[r] \in Ended
  <2>1. /\ items'[r] = items[r] /\ books'[r] = books[r]
        /\ status'[r] = status[r] \/ status'[r] = "failed"
    BY <1>1, FrozenStep
  <2> QED
    BY <1>1, <2>1 DEF NothingIsLost, Selected
<1>2. CASE status[r] \notin Ended
  <2>1. CASE Commit /\ r = cur
    <3>1. Selected(r) = {t \in Token : items[r][t] # "none"}
      BY DEF Selected
    <3>2. /\ books'[r] = parsed /\ parsed \subseteq Selected(r)
          /\ \A t \in Token :
                items'[r][t] = IF t \notin Selected(r) THEN "none"
                               ELSE IF t \in errors THEN "failed" ELSE "completed"
          /\ \A t \in Selected(r) : t \in parsed \/ t \in errors
          /\ status'[r] = "completed" <=> errors = {}
      BY <2>1, CommitEffect
    <3> QED
      BY <3>1, <3>2
  <2>2. CASE /\ status'[r] = "failed" /\ books'[r] = {}
             /\ \A t \in Token : items'[r][t] \in {"none", "failed"}
    BY <2>2
  <2> QED
    BY <1>2, <2>1, <2>2, EndingStep
<1> QED
  BY <1>1, <1>2

LEMMA SelectionStep ==
    ASSUME TypeOK, LocalInv, SelectionInv, [Next]_vars
    PROVE  SelectionInv'
<1>1. ASSUME NEW S \in SUBSET Token, SelectItems(S) PROVE SelectionInv'
  <2>1. /\ S # {} /\ cur' = cur /\ cur \in RunId
        /\ items' = [items EXCEPT ![cur] = [t \in Token |-> IF t \in S THEN "pending" ELSE "none"]]
        /\ counts' = [counts EXCEPT ![cur].selected = Cardinality(S)]
    BY <1>1 DEF SelectItems, LocalInv
  <2>2. \A t \in Token : items'[cur][t] = IF t \in S THEN "pending" ELSE "none"
    BY <2>1 DEF TypeOK
  <2>3. Selected(cur)' = S
    BY <2>1, <2>2 DEF Selected
  <2>4. counts'[cur].selected = Cardinality(S)
    BY <2>1 DEF TypeOK
  <2> QED
    BY <2>1, <2>3, <2>4 DEF SelectionInv
<1>2. CASE BatchAnswered \/ BatchFails \/ UNCHANGED vars
  BY <1>2 DEF BatchAnswered, BatchFails, SelectionInv, Selected
<1>3. CASE SkipRun \/ CompleteRun \/ LoseAcknowledgement \/ FailRun \/ BodyFails \/ Crash
  BY <1>3 DEF SkipRun, CompleteRun, LoseAcknowledgement, FailRun, BodyFails, Crash, Leave, SelectionInv, Selected
<1>4. ASSUME NEW r \in RunId, StartRun(r) PROVE SelectionInv'
  BY <1>4 DEF StartRun, SelectionInv
<1> QED
  BY <1>1, <1>2, <1>3, <1>4 DEF Next, CollectionStep

---------------------------------------------------------------------------
THEOREM Invariance == Spec => [](TypeOK /\ IInv)
<1>1. Init => IInv
  BY ConstantAssumption
     DEF Init, IInv, LocalInv, OpenRunsInv, PartitionInv, SelectionInv, NothingIsLost,
         Selected, Ended
<1>2. TypeOK /\ IInv /\ [Next]_vars => IInv'
  BY LocalStep, OpenRunsStep, PartitionStep, SelectionStep, NothingIsLostStep DEF IInv
<1> QED
  BY <1>1, <1>2, TypeCorrect, PTL DEF Spec

(* Whatever the CLOB replies, every selected token of an ended run is       *)
(* failed, or completed with a book.                                        *)
THEOREM NothingLost == Spec => []NothingIsLost
<1>1. IInv => NothingIsLost
  BY DEF IInv
<1> QED
  BY <1>1, Invariance, PTL

(* Items and books of an ended run never change again; its status and its   *)
(* failures only by its own except clause after a lost acknowledgement.     *)
THEOREM EndedRunsFrozen == Spec => EndedRunsAreFrozen
<1>1. TypeOK /\ IInv /\ [Next]_vars =>
        [\A r \in RunId :
            status[r] \in Ended =>
               /\ items'[r] = items[r] /\ books'[r] = books[r]
               /\ \/ status'[r] = status[r] /\ counts'[r] = counts[r]
                  \/ /\ pc = "failing" /\ cur = r /\ pc' = "idle"
                     /\ status'[r] = "failed"
                     /\ counts'[r] = [counts[r] EXCEPT !.failure = Cardinality(Selected(r))]]_vars
  BY FrozenStep DEF IInv
<1> QED
  BY <1>1, Invariance, PTL DEF Spec, EndedRunsAreFrozen

---------------------------------------------------------------------------
(* When the CLOB answers only what it was asked for, an item of an ended    *)
(* run is completed exactly if the run has its book.                        *)
THEOREM BooksMatch == ~AllowUnrequested => (Spec => []BooksMatchItems)
<1> SUFFICES ASSUME ~AllowUnrequested
             PROVE  Spec => []BooksMatchItems
  OBVIOUS
<1>1. Init => BooksMatchItems
  BY DEF Init, BooksMatchItems, Ended
<1>2. TypeOK /\ IInv /\ BooksMatchItems /\ [Next]_vars => BooksMatchItems'
  <2> SUFFICES ASSUME TypeOK, IInv, BooksMatchItems, [Next]_vars,
                      NEW r \in RunId, status'[r] \in Ended
               PROVE  /\ books'[r] = {t \in Token : items'[r][t] = "completed"}
                      /\ \A t \in Token : items'[r][t] # "pending"
    BY DEF BooksMatchItems
  <2>1. CASE status[r] \in Ended
    BY <2>1, FrozenStep DEF BooksMatchItems, IInv
  <2>2. CASE status[r] \notin Ended
    <3>1. CASE Commit /\ r = cur
      <4>1. pc = "batches" /\ parsed \subseteq Token
        BY <3>1 DEF Commit, TypeOK
      <4>2. /\ parsed \cap errors = {} /\ Selected(r) \subseteq parsed \cup errors
            /\ parsed \subseteq Selected(r)
        BY <3>1, <4>1 DEF IInv, PartitionInv, LocalInv, Commit
      <4>3. /\ books'[r] = parsed
            /\ \A t \in Token :
                  items'[r][t] = IF t \notin Selected(r) THEN "none"
                                 ELSE IF t \in errors THEN "failed" ELSE "completed"
        BY <3>1, CommitEffect DEF IInv
      <4> QED
        BY <4>1, <4>2, <4>3
    <3>2. CASE /\ status'[r] = "failed" /\ books'[r] = {}
               /\ \A t \in Token : items'[r][t] \in {"none", "failed"}
      BY <3>2
    <3> QED
      BY <2>2, <3>1, <3>2, EndingStep DEF IInv
  <2> QED
    BY <2>1, <2>2
<1> QED
  BY <1>1, <1>2, Invariance, PTL DEF Spec

(* At the commit of such a run the books and the errors divide its tokens.  *)
LEMMA DividedAtCommit ==
    ASSUME ~AllowUnrequested, TypeOK, IInv, Commit
    PROVE  /\ cur \in RunId /\ Selected(cur) = parsed \cup errors
           /\ parsed \cap errors = {} /\ Selected(cur) # {}
           /\ counts[cur].selected = Cardinality(Selected(cur))
<1>1. pc = "batches" /\ todo = {}
  BY DEF Commit
<1>2. /\ parsed \cap errors = {} /\ Selected(cur) \subseteq parsed \cup errors
      /\ parsed \subseteq Selected(cur) /\ errors \subseteq Selected(cur)
      /\ Selected(cur) # {} /\ counts[cur].selected = Cardinality(Selected(cur))
      /\ cur \in RunId
  BY <1>1 DEF IInv, PartitionInv, LocalInv, SelectionInv
<1> QED
  BY <1>2

(* The status of an ended run tells what became of its items, and a failed  *)
(* run that collected something can be told by its counters.                *)
THEOREM StatusTells == ~AllowUnrequested => (Spec => []StatusTellsOutcome)
<1> SUFFICES ASSUME ~AllowUnrequested
             PROVE  Spec => []StatusTellsOutcome
  OBVIOUS
<1>1. Init => StatusTellsOutcome
  BY DEF Init, StatusTellsOutcome, Ended
<1>2. ASSUME TypeOK, IInv, StatusTellsOutcome, [Next]_vars PROVE StatusTellsOutcome'
  <2> SUFFICES ASSUME NEW r \in RunId
               PROVE  LET outcomes == {items'[r][t] : t \in Selected(r)'}
                          collected == {t \in Selected(r)' : items'[r][t] = "completed"}
                      IN  /\ status'[r] = "completed" => outcomes = {"completed"}
                          /\ status'[r] = "partial" => outcomes = {"completed", "failed"}
                          /\ status'[r] \in Ended => counts'[r].success = Cardinality(collected)
                          /\ status'[r] = "failed" /\ collected # {} =>
                                counts'[r].failure = Cardinality(Selected(r)')
    BY DEF StatusTellsOutcome
  <2> DEFINE outcomes == {items'[r][t] : t \in Selected(r)'}
             collected == {t \in Selected(r)' : items'[r][t] = "completed"}
             before == {t \in Selected(r) : items[r][t] = "completed"}
  <2>0. Selected(r)' = {t \in Token : items'[r][t] # "none"}
    BY DEF Selected
  <2>1. CASE status[r] \in Ended
    <3>1. items'[r] = items[r]
      BY <1>2, <2>1, FrozenStep DEF IInv
    <3>2. Selected(r)' = Selected(r) /\ collected = before
      BY <3>1 DEF Selected
    <3>3. counts[r].success = Cardinality(before)
      BY <1>2, <2>1 DEF StatusTellsOutcome
    <3>4. CASE status'[r] = status[r] /\ counts'[r] = counts[r]
      BY <1>2, <2>1, <3>1, <3>2, <3>3, <3>4 DEF StatusTellsOutcome
    <3>5. CASE /\ status'[r] = "failed"
               /\ counts'[r] = [counts[r] EXCEPT !.failure = Cardinality(Selected(r))]
      <4>1. /\ counts'[r].success = counts[r].success
            /\ counts'[r].failure = Cardinality(Selected(r))
        BY <1>2, <3>5 DEF TypeOK
      <4> QED
        BY <3>2, <3>3, <3>5, <4>1
    <3> QED
      BY <1>2, <2>1, <3>4, <3>5, FrozenStep DEF IInv
  <2>2. CASE status[r] \notin Ended /\ status'[r] \in Ended
    <3>1. CASE Commit /\ r = cur
      <4>1. /\ Selected(r) = parsed \cup errors /\ parsed \cap errors = {}
            /\ parsed \cup errors # {} /\ Selected(r) \subseteq Token
        BY <1>2, <3>1, DividedAtCommit DEF Selected
      <4>2. /\ \A t \in Token :
                  items'[r][t] = IF t \notin Selected(r) THEN "none"
                                 ELSE IF t \in errors THEN "failed" ELSE "completed"
            /\ status'[r] = "completed" <=> errors = {}
            /\ status'[r] = "failed" <=> errors # {} /\ parsed = {}
            /\ counts'[r].success = Cardinality(parsed)
        BY <1>2, <3>1, CommitEffect DEF IInv
      <4>3. Selected(r)' = parsed \cup errors
        BY <2>0, <4>1, <4>2
      <4>4. \A t \in parsed : items'[r][t] = "completed"
        BY <4>1, <4>2
      <4>5. \A t \in errors : items'[r][t] = "failed"
        BY <4>1, <4>2
      <4>6. outcomes = {items'[r][t] : t \in parsed \cup errors}
        BY <4>3
      <4>7. collected = parsed
        BY <4>3, <4>4, <4>5
      <4> HIDE DEF outcomes, collected
      <4>8. errors = {} => outcomes = {"completed"}
        BY ONLY <4>1, <4>4, <4>6
      <4>9. parsed # {} /\ errors # {} => outcomes = {"completed", "failed"}
        BY ONLY <4>4, <4>5, <4>6
      <4>10. /\ status'[r] = "completed" => outcomes = {"completed"}
             /\ status'[r] = "partial" => outcomes = {"completed", "failed"}
             /\ counts'[r].success = Cardinality(collected)
             /\ status'[r] = "failed" => collected = {}
        BY ONLY <2>2, <4>1, <4>2, <4>7, <4>8, <4>9 DEF Ended
      <4> QED
        BY <4>10 DEF outcomes, collected
    <3>2. CASE /\ status'[r] = "failed" /\ counts'[r].success = 0
               /\ \A t \in Token : items'[r][t] \in {"none", "failed"}
      <4>1. collected = {}
        BY <2>0, <3>2
      <4> QED
        BY <3>2, <4>1, FS_EmptySet
    <3> QED
      BY <1>2, <2>2, <3>1, <3>2, EndingStep DEF IInv
  <2>3. CASE status'[r] \notin Ended
    BY <2>3 DEF Ended
  <2> QED
    BY <2>1, <2>2, <2>3
<1> QED
  BY <1>1, <1>2, Invariance, PTL DEF Spec

(* In a run with books, books and failures add up to the selected tokens.   *)
THEOREM CountersAdd == ~AllowUnrequested => (Spec => []CountsAddUp)
<1> SUFFICES ASSUME ~AllowUnrequested
             PROVE  Spec => []CountsAddUp
  OBVIOUS
<1>1. Init => CountsAddUp
  BY DEF Init, CountsAddUp
<1>2. ASSUME TypeOK, IInv, CountsAddUp, [Next]_vars PROVE CountsAddUp'
  <2> SUFFICES ASSUME NEW r \in RunId, status'[r] \in {"completed", "partial"}
               PROVE  /\ counts'[r].success = Cardinality(books'[r])
                      /\ counts'[r].success + counts'[r].failure = counts'[r].selected
    BY DEF CountsAddUp
  <2>0. status'[r] \in Ended /\ status'[r] # "failed"
    BY DEF Ended
  <2>1. CASE status[r] \in Ended
    BY <1>2, <2>1, FrozenStep DEF CountsAddUp, IInv
  <2>2. CASE status[r] \notin Ended
    <3>1. Commit /\ r = cur
      BY <1>2, <2>0, <2>2, EndingStep DEF IInv
    <3>2. /\ Selected(r) = parsed \cup errors /\ parsed \cap errors = {}
          /\ counts[r].selected = Cardinality(Selected(r))
      BY <1>2, <3>1, DividedAtCommit
    <3>3. /\ counts'[r].success = Cardinality(parsed)
          /\ counts'[r].failure = Cardinality(errors)
          /\ counts'[r].selected = counts[r].selected
          /\ books'[r] = parsed
      BY <1>2, <3>1 DEF Commit, TypeOK
    <3>4. IsFiniteSet(parsed) /\ IsFiniteSet(errors)
      BY <1>2, ConstantAssumption, FS_Subset DEF TypeOK
    <3>5. Cardinality(parsed \cup errors) =
            Cardinality(parsed) + Cardinality(errors) - Cardinality(parsed \cap errors)
      BY <3>4, FS_Union
    <3>6. /\ Cardinality(parsed \cap errors) = 0
          /\ Cardinality(parsed) \in Nat /\ Cardinality(errors) \in Nat
      BY <3>2, <3>4, FS_EmptySet, FS_CardinalityType
    <3> QED
      BY ONLY <3>2, <3>3, <3>5, <3>6
  <2> QED
    BY <2>1, <2>2
<1> QED
  BY <1>1, <1>2, Invariance, PTL DEF Spec
============================================================================
