-------------------------- MODULE PolymarketClient --------------------------
(***************************************************************************)
(* The HTTP client of polymarket/client.py under concurrent calls: each    *)
(* attempt of a call waits for the limiter of its endpoint, then for a     *)
(* slot of the one semaphore all APIs share, and sends its request; a 429  *)
(* is retried after a pause that grows with the attempts.                  *)
(*                                                                         *)
(* Calls run as tasks of one event loop and interleave at every await.     *)
(* Who of several waiting calls comes next is left open.  Time is counted  *)
(* down: a cooldown for each limiter, a pause for each call.  The two      *)
(* methods _get_json and _post_json have the same control.                 *)
(***************************************************************************)
EXTENDS Integers, FiniteSets

CONSTANTS
    Call,            \* calls; each is made once
    Endpoint,
    EndpointOf,      \* the endpoint a call asks
    RetryAttempts,   \* rate_limit_retry_attempts of an endpoint's API
    Backoff,         \* rate_limit_backoff_seconds of an endpoint's API
    Period,          \* time between two admissions of an endpoint's limiter
    MaxConcurrent    \* max_concurrent_requests, of the Data API's settings

ASSUME ConstantAssumption ==
    /\ IsFiniteSet(Call)
    /\ EndpointOf \in [Call -> Endpoint]
    /\ RetryAttempts \in [Endpoint -> Nat]
    /\ Backoff \in [Endpoint -> Nat]
    /\ Period \in [Endpoint -> Nat \ {0}]
    /\ MaxConcurrent \in Nat \ {0}

VARIABLES
    phase,     \* where every call stands
    attempt,   \* its loop variable
    pause,     \* what is left of its asyncio.sleep
    cooldown,  \* time until the limiter of an endpoint admits the next call
    free,      \* free slots of the semaphore
    refused    \* number of 429 answers a call has got

vars == <<phase, attempt, pause, cooldown, free, refused>>

Ended == {"returned", "rate_limited", "exhausted", "raised", "cancelled"}
UnderWay == {"limiter", "semaphore", "sending", "pausing"}

Retries(c) == RetryAttempts[EndpointOf[c]]

TypeOK ==
    /\ phase \in [Call -> {"new"} \cup UnderWay \cup Ended]
    /\ attempt \in [Call -> Nat]
    /\ pause \in [Call -> Nat]
    /\ cooldown \in [Endpoint -> Nat]
    /\ free \in Nat
    /\ refused \in [Call -> Nat]

Init ==
    /\ phase = [c \in Call |-> "new"]
    /\ attempt = [c \in Call |-> 0]
    /\ pause = [c \in Call |-> 0]
    /\ cooldown = [e \in Endpoint |-> 0]
    /\ free = MaxConcurrent
    /\ refused = [c \in Call |-> 0]

Goto(c, place) == phase' = [phase EXCEPT ![c] = place]

---------------------------------------------------------------------------
(* The head of the loop.  range(1, attempts + 2) is walked through to its  *)
(* end only if no attempt returned or raised: "Request attempts exhausted" *)

Attempts(c) == Retries(c) + 1

NextAttempt(c) ==
    IF attempt[c] < Attempts(c)
    THEN attempt' = [attempt EXCEPT ![c] = @ + 1] /\ Goto(c, "limiter")
    ELSE Goto(c, "exhausted") /\ UNCHANGED attempt

Begin(c) ==
    /\ phase[c] = "new"
    /\ NextAttempt(c)
    /\ UNCHANGED <<pause, cooldown, free, refused>>

Resume(c) ==
    /\ phase[c] = "pausing" /\ pause[c] = 0
    /\ NextAttempt(c)
    /\ UNCHANGED <<pause, cooldown, free, refused>>

---------------------------------------------------------------------------
(* One attempt.                                                            *)

\* The limiter admits one waiting call and closes for its period.
Admit(c) ==
    /\ phase[c] = "limiter"
    /\ cooldown[EndpointOf[c]] = 0
    /\ cooldown' = [cooldown EXCEPT ![EndpointOf[c]] = Period[EndpointOf[c]]]
    /\ Goto(c, "semaphore")
    /\ UNCHANGED <<attempt, pause, free, refused>>

Send(c) ==
    /\ phase[c] = "semaphore"
    /\ free > 0
    /\ free' = free - 1
    /\ Goto(c, "sending")
    /\ UNCHANGED <<attempt, pause, cooldown, refused>>

\* Mutant: the slot is given back only by a call that returns.
ReleaseOnReturn(c, outcome) == free' = IF outcome = "returned" THEN free + 1 ELSE free

\* "async with" gives the slot back however its body is left.
Release(c, outcome) == free' = free + 1

\* A list or object, or an error other than 429: a timeout, another status, no JSON.
Answer(c) ==
    /\ phase[c] = "sending"
    /\ \E outcome \in {"returned", "raised"} : Goto(c, outcome) /\ Release(c, outcome)
    /\ UNCHANGED <<attempt, pause, cooldown, refused>>

\* Mutant: a refused call is always tried again.
TriesAgainForever(c) == TRUE

TriesAgain(c) == attempt[c] <= Retries(c)

\* 429: the pause begins when the slot is free again.
Refuse(c) ==
    /\ phase[c] = "sending"
    /\ Release(c, "refused")
    /\ refused' = [refused EXCEPT ![c] = @ + 1]
    /\ IF TriesAgain(c)
       THEN /\ pause' = [pause EXCEPT ![c] = Backoff[EndpointOf[c]] * attempt[c]]
            /\ Goto(c, "pausing")
       ELSE Goto(c, "rate_limited") /\ UNCHANGED pause
    /\ UNCHANGED <<attempt, cooldown>>

\* CancelledError at any await: the loop does not catch it.
Cancel(c) ==
    /\ phase[c] \in UnderWay
    /\ IF phase[c] = "sending" THEN Release(c, "cancelled") ELSE UNCHANGED free
    /\ pause' = [pause EXCEPT ![c] = 0]
    /\ Goto(c, "cancelled")
    /\ UNCHANGED <<attempt, cooldown, refused>>

---------------------------------------------------------------------------
Less(n) == IF n = 0 THEN 0 ELSE n - 1

\* One unit of time; as long as somebody waits for it.
Tick ==
    /\ \/ \E e \in Endpoint : cooldown[e] > 0
       \/ \E c \in Call : pause[c] > 0
    /\ cooldown' = [e \in Endpoint |-> Less(cooldown[e])]
    /\ pause' = [c \in Call |-> Less(pause[c])]
    /\ UNCHANGED <<phase, attempt, free, refused>>

\* All calls have been made: nothing is left to do.
Finished ==
    /\ \A c \in Call : phase[c] \in Ended
    /\ UNCHANGED vars

CallStep(c) == Resume(c) \/ Admit(c) \/ Send(c) \/ Answer(c) \/ Refuse(c)

Next ==
    \/ \E c \in Call : Begin(c) \/ CallStep(c) \/ Cancel(c)
    \/ Tick
    \/ Finished

Spec == Init /\ [][Next]_vars

\* Ready tasks are run, the server answers or the request times out, time
\* passes, and a limiter or the semaphore does not pass a waiting call over
\* for ever.
Fairness ==
    /\ WF_vars(Tick)
    /\ \A c \in Call :
          WF_vars(Resume(c)) /\ SF_vars(Admit(c)) /\ SF_vars(Send(c))
            /\ WF_vars(Answer(c) \/ Refuse(c))

FairSpec == Spec /\ Fairness

---------------------------------------------------------------------------
(* Properties.                                                             *)

Sending == {c \in Call : phase[c] = "sending"}

\* No slot of the semaphore is lost, given back twice or taken when there is
\* none, whichever way its calls end: refused, failed, cancelled, retried.
SlotsAreConserved ==
    free >= 0 /\ free + Cardinality(Sending) = MaxConcurrent

\* A call gives up as rate limited after one attempt more than its retries, all
\* of them refused; any other end has had fewer refusals than that; and the
\* "attempts exhausted" at the end of the loop is never reached.
RefusalsAreCounted ==
    \A c \in Call :
        /\ phase[c] # "exhausted"
        /\ phase[c] = "rate_limited" => refused[c] = Retries(c) + 1
        /\ phase[c] # "rate_limited" => refused[c] <= Retries(c)

\* The inductive form of RefusalsAreCounted: a call has been refused in every
\* attempt before the one under way.
AttemptsMatchRefusals ==
    \A c \in Call :
        /\ phase[c] = "new" => attempt[c] = 0 /\ refused[c] = 0
        /\ phase[c] \in {"limiter", "semaphore", "sending"} =>
              attempt[c] = refused[c] + 1 /\ attempt[c] <= Attempts(c)
        /\ phase[c] = "pausing" => attempt[c] = refused[c] /\ attempt[c] <= Retries(c)
        /\ phase[c] \in {"returned", "raised", "cancelled"} => refused[c] <= Retries(c)
        /\ phase[c] = "rate_limited" => refused[c] = Retries(c) + 1
        /\ phase[c] # "exhausted"

\* Every call ends, even when every request is refused and all the other calls
\* compete for the limiters and the slots.
EveryCallEnds == \A c \in Call : phase[c] \in UnderWay ~> phase[c] \in Ended
============================================================================
