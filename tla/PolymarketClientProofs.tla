----------------------- MODULE PolymarketClientProofs -----------------------
(***************************************************************************)
(* Theorems about PolymarketClient, for any number of calls, endpoints,    *)
(* retries and slots.                                                      *)
(***************************************************************************)
EXTENDS PolymarketClient, FiniteSetTheorems, TLAPS

LEMMA ProductIsNat ==
    ASSUME NEW m \in Nat, NEW n \in Nat
    PROVE  m * n \in Nat
OBVIOUS

(* Every variable keeps its type; in particular the semaphore never goes    *)
(* below zero.                                                              *)
THEOREM TypeCorrect == Spec => []TypeOK
<1> USE ConstantAssumption
<1>1. Init => TypeOK
  BY DEF Init, TypeOK
<1>2. TypeOK /\ [Next]_vars => TypeOK'
  <2> SUFFICES ASSUME TypeOK, [Next]_vars
               PROVE  TypeOK'
    OBVIOUS
  <2> USE DEF TypeOK, UnderWay, Ended, Goto
  <2>1. ASSUME NEW c \in Call, Begin(c) \/ Resume(c) PROVE TypeOK'
    BY <2>1 DEF Begin, Resume, NextAttempt
  <2>2. ASSUME NEW c \in Call, Admit(c) PROVE TypeOK'
    BY <2>2 DEF Admit
  <2>3. ASSUME NEW c \in Call, Send(c) PROVE TypeOK'
    BY <2>3 DEF Send
  <2>4. ASSUME NEW c \in Call, Answer(c) PROVE TypeOK'
    BY <2>4 DEF Answer, Release
  <2>5. ASSUME NEW c \in Call, Refuse(c) PROVE TypeOK'
    <3>1. Backoff[EndpointOf[c]] * attempt[c] \in Nat
      BY ProductIsNat
    <3>2. pause' \in [Call -> Nat]
      BY <2>5, <3>1 DEF Refuse
    <3>3. phase' \in [Call -> {"new"} \cup UnderWay \cup Ended]
      <4>1. PICK place \in {"pausing", "rate_limited"} : Goto(c, place)
        BY <2>5 DEF Refuse
      <4> QED
        BY <4>1
    <3>4. free' \in Nat /\ refused' \in [Call -> Nat]
      BY <2>5 DEF Refuse, Release
    <3> QED
      BY <2>5, <3>2, <3>3, <3>4 DEF Refuse
  <2>6. ASSUME NEW c \in Call, Cancel(c) PROVE TypeOK'
    BY <2>6 DEF Cancel, Release
  <2>7. CASE Tick
    BY <2>7 DEF Tick, Less
  <2>8. CASE Finished \/ UNCHANGED vars
    BY <2>8 DEF Finished, vars
  <2> QED
    BY <2>1, <2>2, <2>3, <2>4, <2>5, <2>6, <2>7, <2>8 DEF Next, CallStep
<1> QED
  BY <1>1, <1>2, PTL DEF Spec

---------------------------------------------------------------------------
(* How the set of calls that hold a slot changes in a step of one call.     *)
LEMMA SendingStep ==
    ASSUME TypeOK, NEW c \in Call, NEW place \in {"new"} \cup UnderWay \cup Ended, Goto(c, place)
    PROVE  Sending' = IF place = "sending" THEN Sending \cup {c} ELSE Sending \ {c}
BY DEF TypeOK, Goto, Sending

(* Slots are neither lost nor given back twice by a step of a call.         *)
LEMMA SlotsStep ==
    ASSUME TypeOK, TypeOK', SlotsAreConserved, [Next]_vars
    PROVE  SlotsAreConserved'
<1> DEFINE AddUp == free + Cardinality(Sending) = MaxConcurrent
<1> USE ConstantAssumption DEF SlotsAreConserved
<1>1. IsFiniteSet(Sending) /\ Cardinality(Sending) \in Nat
  <2>1. Sending \in SUBSET Call
    BY DEF Sending
  <2> QED
    BY <2>1, FS_Subset, FS_CardinalityType
<1>2. ASSUME NEW c \in Call, c \notin Sending
      PROVE  /\ Sending \ {c} = Sending
             /\ Cardinality(Sending \cup {c}) = Cardinality(Sending) + 1
  <2>1. Sending \ {c} = Sending
    BY <1>2
  <2>2. Cardinality(Sending \cup {c}) = Cardinality(Sending) + 1
    BY <1>1, <1>2, FS_AddElement
  <2> QED
    BY <2>1, <2>2
<1>3. ASSUME NEW c \in Call, c \in Sending
      PROVE  Cardinality(Sending \ {c}) = Cardinality(Sending) - 1
  BY <1>1, <1>3, FS_RemoveElement
<1>4. ASSUME NEW c \in Call, Begin(c) \/ Resume(c) \/ Admit(c) PROVE AddUp'
  <2>1. c \notin Sending
    BY <1>4 DEF Begin, Resume, Admit, Sending
  <2>2. PICK place \in {"exhausted", "limiter", "semaphore"} : Goto(c, place)
    BY <1>4 DEF Begin, Resume, Admit, NextAttempt
  <2>3. Sending' = Sending /\ free' = free
    BY <1>2, <1>4, <2>1, <2>2, SendingStep DEF Begin, Resume, Admit, UnderWay, Ended
  <2> QED
    BY <2>3
<1>5. ASSUME NEW c \in Call, Send(c) PROVE AddUp'
  <2>1. c \notin Sending
    BY <1>5 DEF Send, Sending
  <2>2. Sending' = Sending \cup {c} /\ free' = free - 1
    BY <1>5, SendingStep DEF Send, UnderWay
  <2> QED
    BY <1>1, <1>2, <2>1, <2>2 DEF TypeOK
<1>6. ASSUME NEW c \in Call, Answer(c) \/ Refuse(c) PROVE AddUp'
  <2>1. c \in Sending
    BY <1>6 DEF Answer, Refuse, Sending
  <2>2. PICK place \in {"returned", "raised", "pausing", "rate_limited"} : Goto(c, place)
    BY <1>6 DEF Answer, Refuse
  <2>3. Sending' = Sending \ {c} /\ free' = free + 1
    BY <1>6, <2>2, SendingStep DEF Answer, Refuse, Release, UnderWay, Ended
  <2> QED
    BY <1>1, <1>3, <2>1, <2>3 DEF TypeOK
<1>7. ASSUME NEW c \in Call, Cancel(c) PROVE AddUp'
  <2>1. Sending' = Sending \ {c}
    BY <1>7, SendingStep DEF Cancel, Ended
  <2>2. CASE phase[c] = "sending"
    <3>1. c \in Sending /\ free' = free + 1
      BY <1>7, <2>2 DEF Cancel, Release, Sending
    <3> QED
      BY <1>1, <1>3, <2>1, <3>1 DEF TypeOK
  <2>3. CASE phase[c] # "sending"
    <3>1. c \notin Sending /\ free' = free
      BY <1>7, <2>3 DEF Cancel, Sending
    <3> QED
      BY <1>2, <2>1, <3>1
  <2> QED
    BY <2>2, <2>3
<1>8. CASE Tick \/ Finished \/ UNCHANGED vars
  BY <1>8 DEF Tick, Finished, vars, Sending
<1>9. AddUp'
  BY <1>4, <1>5, <1>6, <1>7, <1>8 DEF Next, CallStep
<1> QED
  BY <1>9 DEF TypeOK

(* No slot of the semaphore is ever lost: the slots that are free and the   *)
(* requests under way add up, so that never more than MaxConcurrent are.    *)
THEOREM SlotsConserved == Spec => []SlotsAreConserved
<1>1. Init => SlotsAreConserved
  <2> SUFFICES ASSUME Init PROVE SlotsAreConserved
    OBVIOUS
  <2>1. Sending = {}
    BY DEF Init, Sending
  <2> QED
    BY <2>1, FS_EmptySet, ConstantAssumption DEF Init, SlotsAreConserved
<1> QED
  BY <1>1, SlotsStep, TypeCorrect, PTL DEF Spec

---------------------------------------------------------------------------
(* The number of attempts of a call and that of its refusals go together.   *)
LEMMA AttemptsStep ==
    ASSUME TypeOK, AttemptsMatchRefusals, [Next]_vars
    PROVE  AttemptsMatchRefusals'
<1> USE ConstantAssumption DEF AttemptsMatchRefusals, TypeOK, Attempts, Retries, Goto
<1>1. ASSUME NEW c \in Call, Begin(c) PROVE AttemptsMatchRefusals'
  BY <1>1 DEF Begin, NextAttempt
<1>2. ASSUME NEW c \in Call, Resume(c) PROVE AttemptsMatchRefusals'
  BY <1>2 DEF Resume, NextAttempt
<1>3. ASSUME NEW c \in Call, Admit(c) \/ Send(c) PROVE AttemptsMatchRefusals'
  BY <1>3 DEF Admit, Send
<1>4. ASSUME NEW c \in Call, Answer(c) PROVE AttemptsMatchRefusals'
  BY <1>4 DEF Answer
<1>5. ASSUME NEW c \in Call, Refuse(c) PROVE AttemptsMatchRefusals'
  BY <1>5 DEF Refuse, TriesAgain
<1>6. ASSUME NEW c \in Call, Cancel(c) PROVE AttemptsMatchRefusals'
  BY <1>6 DEF Cancel, UnderWay
<1>7. CASE Tick \/ Finished \/ UNCHANGED vars
  BY <1>7 DEF Tick, Finished, vars
<1> QED
  BY <1>1, <1>2, <1>3, <1>4, <1>5, <1>6, <1>7 DEF Next, CallStep

(* A call is given up as rate limited after exactly one refusal more than   *)
(* it has retries, and the end of the retry loop is never reached.          *)
THEOREM RefusalsCounted == Spec => []RefusalsAreCounted
<1>1. Init => AttemptsMatchRefusals
  BY ConstantAssumption DEF Init, AttemptsMatchRefusals, Retries
<1>2. TypeOK /\ AttemptsMatchRefusals => RefusalsAreCounted
  BY ConstantAssumption
     DEF TypeOK, AttemptsMatchRefusals, RefusalsAreCounted, Attempts, Retries, UnderWay, Ended
<1> QED
  BY <1>1, <1>2, AttemptsStep, TypeCorrect, PTL DEF Spec
=============================================================================
