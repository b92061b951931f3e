---------------------------- MODULE JobRun_proofs ----------------------------
(***************************************************************************)
(* Proofs about JobRun, for any number of concurrent calls, any jobs and   *)
(* any keys.                                                               *)
(***************************************************************************)
EXTENDS JobRun, TLAPS

\* The number of retries that getMaxRetries leaves to a job.
Allowed(c) == IF job[c].maxRetries > 0 THEN job[c].maxRetries ELSE 0

\* Every attempt but the first one is a retry, and the counter of retries stops
\* at both limits.
AttemptsCounted ==
    \A c \in Call :
        /\ retry[c] <= Allowed(c)
        /\ fetches[c] <= retry[c] + 1
        /\ pc[c] \in {"lookup", "fetch", "sleep"} => fetches[c] = retry[c]
        /\ pc[c] = "check" => fetches[c] = retry[c] + 1

\* The delay is looked at before it is doubled: it may exceed the maximum once.
DelayBounded ==
    \A c \in Call : delay[c] <= FirstDelay \/ delay[c] <= 2 * job[c].maxDelay

\* What is left of the cap on the pauses.  The comment on Job.MaxRetryDelay
\* (job.go:97) promises pauses of at most maxDelay; the code compares before it
\* doubles and never compares the first delay.
PauseWithinTwice ==
    \A c \in Call : slept[c] <= FirstDelay \/ slept[c] <= 2 * job[c].maxDelay

\* What doFetch returns without an error was accepted, and only that is stored.
FetchChecked ==
    \A c \in Call :
        /\ pc[c] = "fetched" => resp[c].accepted \/ resp[c].error
        /\ pc[c] = "store" => resp[c].accepted /\ ~resp[c].error

\* What comes to the parser is good, or the job asked for it.
PassedOn ==
    \A c \in Call :
        pc[c] \in {"parse", "process"} =>
            (resp[c].accepted /\ ~resp[c].error) \/ job[c].onError

IInv ==
    /\ TypeOK
    /\ AttemptsCounted
    /\ DelayBounded
    /\ PauseWithinTwice
    /\ FetchChecked
    /\ PassedOn
    /\ CacheHoldsGoodResponses

-----------------------------------------------------------------------------
LEMMA InitHolds == Init => IInv
<1> SUFFICES ASSUME Init PROVE IInv
  OBVIOUS
<1>a. cancelled \in BOOLEAN /\ resp \in [Call -> Response]
  BY Zenon DEF Init, Response, Blank
<1>1. TypeOK
  BY <1>a DEF Init, TypeOK, FirstDelay, MaxRetriesDefault
<1>2. /\ AttemptsCounted /\ DelayBounded /\ PauseWithinTwice /\ FetchChecked
      /\ PassedOn /\ CacheHoldsGoodResponses
  BY JobTypeAssumption DEF Init, AttemptsCounted, Allowed, DelayBounded, PauseWithinTwice,
     FetchChecked, PassedOn, CacheHoldsGoodResponses, FirstDelay, JobType
<1> QED
  BY <1>1, <1>2 DEF IInv

\* The fields of a job and the bounds that getMaxRetries returns.
LEMMA JobFields ==
    ASSUME TypeOK, NEW c \in Call
    PROVE  /\ job[c].maxRetries \in Int /\ job[c].maxDelay \in Nat
           /\ job[c].key \in Key /\ Allowed(c) \in Nat
           /\ MaxRetries(c) <= MaxRetriesDefault /\ MaxRetries(c) <= Allowed(c)
           /\ MaxRetries(c) \in Int
<1>1. job[c] \in JobType
  BY JobTypeAssumption DEF TypeOK
<1> QED
  BY <1>1 DEF JobType, Allowed, MaxRetries, MaxRetriesDefault

LEMMA TypeStep == TypeOK /\ [Next]_vars => TypeOK'
<1> SUFFICES ASSUME TypeOK, [Next]_vars PROVE TypeOK'
  OBVIOUS
<1>0. CASE UNCHANGED vars
  BY <1>0 DEF TypeOK, vars
<1>1. ASSUME NEW c \in Call, Step(c) PROVE TypeOK'
  <2> USE DEF TypeOK
  <2>1. CASE CacheHit(c)
    BY <2>1, JobFields DEF CacheHit, Goto, fetchVars, Response
  <2>2. CASE CacheMiss(c)
    BY <2>2 DEF CacheMiss, Goto, fetchVars
  <2>3. CASE Fetch(c)
    BY <2>3 DEF Fetch, Goto, Response
  <2>4. CASE Accept(c)
    BY <2>4 DEF Accept, Goto, fetchVars
  <2>5. CASE Discard(c)
    BY <2>5 DEF Discard, Rejected, GiveUp, Goto, fetchVars, Response
  <2>6. CASE Stop(c)
    BY <2>6 DEF Stop, Rejected, GiveUp, Goto, fetchVars, Response
  <2>7. CASE NoRetryLeft(c)
    BY <2>7 DEF NoRetryLeft, Rejected, GiveUp, Goto, fetchVars, Response
  <2>8. CASE Retry(c)
    BY <2>8, JobFields DEF Retry, Rejected, Goto, MaxRetriesDefault
  <2>9. CASE Wake(c)
    BY <2>9, JobFields DEF Wake, Goto
  <2>10. CASE FetchFailed(c)
    BY <2>10 DEF FetchFailed, Return, Goto, fetchVars
  <2>11. CASE Fetched(c)
    BY <2>11 DEF Fetched, Goto, fetchVars
  <2>12. CASE Store(c)
    BY <2>12, JobFields DEF Store, Goto, fetchVars, Response
  <2>13. CASE Parse(c)
    BY <2>13 DEF Parse, Return, Goto, fetchVars
  <2>14. CASE Process(c)
    BY <2>14 DEF Process, Return, Goto, fetchVars
  <2>15. CASE Panic(c)
    BY <2>15 DEF Panic, Return, Goto, fetchVars
  <2> QED
    BY <1>1, <2>1, <2>2, <2>3, <2>4, <2>5, <2>6, <2>7, <2>8, <2>9, <2>10, <2>11, <2>12, <2>13, <2>14, <2>15 DEF Step, GoesOn
<1> QED
  BY <1>0, <1>1 DEF Next

\* Only Retry counts up, and only below the limit.
LEMMA AttemptsStep == TypeOK /\ AttemptsCounted /\ [Next]_vars => AttemptsCounted'
<1> SUFFICES ASSUME TypeOK, AttemptsCounted, [Next]_vars PROVE AttemptsCounted'
  OBVIOUS
<1>0. CASE UNCHANGED vars
  BY <1>0 DEF AttemptsCounted, Allowed, vars
<1>1. ASSUME NEW c \in Call, Step(c) PROVE AttemptsCounted'
  <2> USE JobFields DEF TypeOK, AttemptsCounted, Allowed
  <2>1. CASE CacheHit(c)
    BY <2>1 DEF CacheHit, Goto, fetchVars
  <2>2. CASE CacheMiss(c)
    BY <2>2 DEF CacheMiss, Goto, fetchVars
  <2>3. CASE Fetch(c)
    BY <2>3 DEF Fetch, Goto
  <2>4. CASE Accept(c)
    BY <2>4 DEF Accept, Goto, fetchVars
  <2>5. CASE Discard(c)
    BY <2>5 DEF Discard, Rejected, GiveUp, Goto, fetchVars
  <2>6. CASE Stop(c)
    BY <2>6 DEF Stop, Rejected, GiveUp, Goto, fetchVars
  <2>7. CASE NoRetryLeft(c)
    BY <2>7 DEF NoRetryLeft, Rejected, GiveUp, Goto, fetchVars
  <2>8. CASE Retry(c)
    BY <2>8 DEF Retry, Rejected, Goto
  <2>9. CASE Wake(c)
    BY <2>9 DEF Wake, Goto
  <2>10. CASE FetchFailed(c)
    BY <2>10 DEF FetchFailed, Return, Goto, fetchVars
  <2>11. CASE Fetched(c)
    BY <2>11 DEF Fetched, Goto, fetchVars
  <2>12. CASE Store(c)
    BY <2>12 DEF Store, Goto, fetchVars
  <2>13. CASE Parse(c)
    BY <2>13 DEF Parse, Return, Goto, fetchVars
  <2>14. CASE Process(c)
    BY <2>14 DEF Process, Return, Goto, fetchVars
  <2>15. CASE Panic(c)
    BY <2>15 DEF Panic, Return, Goto, fetchVars
  <2> QED
    BY <1>1, <2>1, <2>2, <2>3, <2>4, <2>5, <2>6, <2>7, <2>8, <2>9, <2>10, <2>11, <2>12, <2>13, <2>14, <2>15 DEF Step, GoesOn
<1> QED
  BY <1>0, <1>1 DEF Next

\* Wake doubles a delay that the maximum does not yet cover.
LEMMA DelayStep == TypeOK /\ DelayBounded /\ [Next]_vars => DelayBounded'
<1> SUFFICES ASSUME TypeOK, DelayBounded, [Next]_vars PROVE DelayBounded'
  OBVIOUS
<1>0. CASE UNCHANGED vars
  BY <1>0 DEF DelayBounded, FirstDelay, vars
<1>1. ASSUME NEW c \in Call, Step(c) PROVE DelayBounded'
  <2> USE JobFields DEF TypeOK, DelayBounded, FirstDelay
  <2>1. CASE CacheHit(c)
    BY <2>1 DEF CacheHit, Goto, fetchVars
  <2>2. CASE CacheMiss(c)
    BY <2>2 DEF CacheMiss, Goto, fetchVars
  <2>3. CASE Fetch(c)
    BY <2>3 DEF Fetch, Goto
  <2>4. CASE Accept(c)
    BY <2>4 DEF Accept, Goto, fetchVars
  <2>5. CASE Discard(c)
    BY <2>5 DEF Discard, Rejected, GiveUp, Goto, fetchVars
  <2>6. CASE Stop(c)
    BY <2>6 DEF Stop, Rejected, GiveUp, Goto, fetchVars
  <2>7. CASE NoRetryLeft(c)
    BY <2>7 DEF NoRetryLeft, Rejected, GiveUp, Goto, fetchVars
  <2>8. CASE Retry(c)
    BY <2>8 DEF Retry, Rejected, Goto
  <2>9. CASE Wake(c)
    BY <2>9 DEF Wake, Goto
  <2>10. CASE FetchFailed(c)
    BY <2>10 DEF FetchFailed, Return, Goto, fetchVars
  <2>11. CASE Fetched(c)
    BY <2>11 DEF Fetched, Goto, fetchVars
  <2>12. CASE Store(c)
    BY <2>12 DEF Store, Goto, fetchVars
  <2>13. CASE Parse(c)
    BY <2>13 DEF Parse, Return, Goto, fetchVars
  <2>14. CASE Process(c)
    BY <2>14 DEF Process, Return, Goto, fetchVars
  <2>15. CASE Panic(c)
    BY <2>15 DEF Panic, Return, Goto, fetchVars
  <2> QED
    BY <1>1, <2>1, <2>2, <2>3, <2>4, <2>5, <2>6, <2>7, <2>8, <2>9, <2>10, <2>11, <2>12, <2>13, <2>14, <2>15 DEF Step, GoesOn
<1> QED
  BY <1>0, <1>1 DEF Next

\* Retry pauses for the delay.
LEMMA PauseStep == TypeOK /\ DelayBounded /\ PauseWithinTwice /\ [Next]_vars => PauseWithinTwice'
<1> SUFFICES ASSUME TypeOK, DelayBounded, PauseWithinTwice, [Next]_vars PROVE PauseWithinTwice'
  OBVIOUS
<1>0. CASE UNCHANGED vars
  BY <1>0 DEF DelayBounded, PauseWithinTwice, FirstDelay, vars
<1>1. ASSUME NEW c \in Call, Step(c) PROVE PauseWithinTwice'
  <2> USE JobFields DEF TypeOK, DelayBounded, PauseWithinTwice, FirstDelay
  <2>1. CASE CacheHit(c)
    BY <2>1 DEF CacheHit, Goto, fetchVars
  <2>2. CASE CacheMiss(c)
    BY <2>2 DEF CacheMiss, Goto, fetchVars
  <2>3. CASE Fetch(c)
    BY <2>3 DEF Fetch, Goto
  <2>4. CASE Accept(c)
    BY <2>4 DEF Accept, Goto, fetchVars
  <2>5. CASE Discard(c)
    BY <2>5 DEF Discard, Rejected, GiveUp, Goto, fetchVars
  <2>6. CASE Stop(c)
    BY <2>6 DEF Stop, Rejected, GiveUp, Goto, fetchVars
  <2>7. CASE NoRetryLeft(c)
    BY <2>7 DEF NoRetryLeft, Rejected, GiveUp, Goto, fetchVars
  <2>8. CASE Retry(c)
    BY <2>8 DEF Retry, Rejected, Goto
  <2>9. CASE Wake(c)
    BY <2>9 DEF Wake, Goto
  <2>10. CASE FetchFailed(c)
    BY <2>10 DEF FetchFailed, Return, Goto, fetchVars
  <2>11. CASE Fetched(c)
    BY <2>11 DEF Fetched, Goto, fetchVars
  <2>12. CASE Store(c)
    BY <2>12 DEF Store, Goto, fetchVars
  <2>13. CASE Parse(c)
    BY <2>13 DEF Parse, Return, Goto, fetchVars
  <2>14. CASE Process(c)
    BY <2>14 DEF Process, Return, Goto, fetchVars
  <2>15. CASE Panic(c)
    BY <2>15 DEF Panic, Return, Goto, fetchVars
  <2> QED
    BY <1>1, <2>1, <2>2, <2>3, <2>4, <2>5, <2>6, <2>7, <2>8, <2>9, <2>10, <2>11, <2>12, <2>13, <2>14, <2>15 DEF Step, GoesOn
<1> QED
  BY <1>0, <1>1 DEF Next

\* Accept lets only accepted responses through; every other end sets the Error.
LEMMA CheckedStep == TypeOK /\ FetchChecked /\ [Next]_vars => FetchChecked'
<1> SUFFICES ASSUME TypeOK, FetchChecked, [Next]_vars PROVE FetchChecked'
  OBVIOUS
<1>0. CASE UNCHANGED vars
  BY <1>0 DEF FetchChecked, Response, vars
<1>1. ASSUME NEW c \in Call, Step(c) PROVE FetchChecked'
  <2> USE JobFields DEF TypeOK, FetchChecked, Response
  <2>1. CASE CacheHit(c)
    BY <2>1 DEF CacheHit, Goto, fetchVars
  <2>2. CASE CacheMiss(c)
    BY <2>2 DEF CacheMiss, Goto, fetchVars
  <2>3. CASE Fetch(c)
    BY <2>3 DEF Fetch, Goto
  <2>4. CASE Accept(c)
    BY <2>4 DEF Accept, Goto, fetchVars
  <2>5. CASE Discard(c)
    BY <2>5 DEF Discard, Rejected, GiveUp, Goto, fetchVars
  <2>6. CASE Stop(c)
    BY <2>6 DEF Stop, Rejected, GiveUp, Goto, fetchVars
  <2>7. CASE NoRetryLeft(c)
    BY <2>7 DEF NoRetryLeft, Rejected, GiveUp, Goto, fetchVars
  <2>8. CASE Retry(c)
    BY <2>8 DEF Retry, Rejected, Goto
  <2>9. CASE Wake(c)
    BY <2>9 DEF Wake, Goto
  <2>10. CASE FetchFailed(c)
    BY <2>10 DEF FetchFailed, Return, Goto, fetchVars
  <2>11. CASE Fetched(c)
    BY <2>11 DEF Fetched, Goto, fetchVars
  <2>12. CASE Store(c)
    BY <2>12 DEF Store, Goto, fetchVars
  <2>13. CASE Parse(c)
    BY <2>13 DEF Parse, Return, Goto, fetchVars
  <2>14. CASE Process(c)
    BY <2>14 DEF Process, Return, Goto, fetchVars
  <2>15. CASE Panic(c)
    BY <2>15 DEF Panic, Return, Goto, fetchVars
  <2> QED
    BY <1>1, <2>1, <2>2, <2>3, <2>4, <2>5, <2>6, <2>7, <2>8, <2>9, <2>10, <2>11, <2>12, <2>13, <2>14, <2>15 DEF Step, GoesOn
<1> QED
  BY <1>0, <1>1 DEF Next

\* Store is the only step that changes the cache.
LEMMA CacheStep == TypeOK /\ FetchChecked /\ CacheHoldsGoodResponses /\ [Next]_vars => CacheHoldsGoodResponses'
<1> SUFFICES ASSUME TypeOK, FetchChecked, CacheHoldsGoodResponses, [Next]_vars PROVE CacheHoldsGoodResponses'
  OBVIOUS
<1>0. CASE UNCHANGED vars
  BY <1>0 DEF FetchChecked, CacheHoldsGoodResponses, Response, vars
<1>1. ASSUME NEW c \in Call, Step(c) PROVE CacheHoldsGoodResponses'
  <2> USE JobFields DEF TypeOK, FetchChecked, CacheHoldsGoodResponses, Response
  <2>1. CASE CacheHit(c)
    BY <2>1 DEF CacheHit, Goto, fetchVars
  <2>2. CASE CacheMiss(c)
    BY <2>2 DEF CacheMiss, Goto, fetchVars
  <2>3. CASE Fetch(c)
    BY <2>3 DEF Fetch, Goto
  <2>4. CASE Accept(c)
    BY <2>4 DEF Accept, Goto, fetchVars
  <2>5. CASE Discard(c)
    BY <2>5 DEF Discard, Rejected, GiveUp, Goto, fetchVars
  <2>6. CASE Stop(c)
    BY <2>6 DEF Stop, Rejected, GiveUp, Goto, fetchVars
  <2>7. CASE NoRetryLeft(c)
    BY <2>7 DEF NoRetryLeft, Rejected, GiveUp, Goto, fetchVars
  <2>8. CASE Retry(c)
    BY <2>8 DEF Retry, Rejected, Goto
  <2>9. CASE Wake(c)
    BY <2>9 DEF Wake, Goto
  <2>10. CASE FetchFailed(c)
    BY <2>10 DEF FetchFailed, Return, Goto, fetchVars
  <2>11. CASE Fetched(c)
    BY <2>11 DEF Fetched, Goto, fetchVars
  <2>12. CASE Store(c)
    BY <2>12 DEF Store, Goto, fetchVars
  <2>13. CASE Parse(c)
    BY <2>13 DEF Parse, Return, Goto, fetchVars
  <2>14. CASE Process(c)
    BY <2>14 DEF Process, Return, Goto, fetchVars
  <2>15. CASE Panic(c)
    BY <2>15 DEF Panic, Return, Goto, fetchVars
  <2> QED
    BY <1>1, <2>1, <2>2, <2>3, <2>4, <2>5, <2>6, <2>7, <2>8, <2>9, <2>10, <2>11, <2>12, <2>13, <2>14, <2>15 DEF Step, GoesOn
<1> QED
  BY <1>0, <1>1 DEF Next

\* A cached response is good, and FetchFailed stops the others.
LEMMA PassedOnStep ==
    ASSUME TypeOK, FetchChecked, PassedOn, CacheHoldsGoodResponses, [Next]_vars
    PROVE  PassedOn'
<1>0. CASE UNCHANGED vars
  BY <1>0 DEF PassedOn, vars
<1>1. ASSUME NEW c \in Call, Step(c) PROVE PassedOn'
  <2> USE DEF TypeOK, PassedOn, Response
  <2>1. CASE CacheHit(c)
    <3>1. resp'[c].accepted /\ ~resp'[c].error
      BY <2>1, JobFields DEF CacheHit, CacheHoldsGoodResponses
    <3> QED
      BY <2>1, <3>1 DEF CacheHit, Goto
  <2>2. CASE CacheMiss(c) \/ Accept(c) \/ FetchFailed(c) \/ Panic(c)
    BY <2>2 DEF CacheMiss, Accept, FetchFailed, Panic, Return, Goto
  <2>3. CASE Fetch(c)
    BY <2>3 DEF Fetch, Goto
  <2>4. CASE Discard(c) \/ Stop(c) \/ NoRetryLeft(c)
    BY <2>4 DEF Discard, Stop, NoRetryLeft, Rejected, GiveUp, Goto
  <2>5. CASE Retry(c) \/ Wake(c)
    BY <2>5 DEF Retry, Rejected, Wake, Goto
  <2>6. CASE Fetched(c)
    BY <2>6 DEF Fetched, FetchChecked, Goto
  <2>7. CASE Store(c)
    BY <2>7 DEF Store, FetchChecked, Goto
  <2>8. CASE Parse(c) \/ Process(c)
    BY <2>8 DEF Parse, Process, Return, Goto
  <2> QED
    BY <1>1, <2>1, <2>2, <2>3, <2>4, <2>5, <2>6, <2>7, <2>8 DEF Step, GoesOn
<1> QED
  BY <1>0, <1>1 DEF Next

-----------------------------------------------------------------------------
(***************************************************************************)
(* The length of a call.                                                   *)
(***************************************************************************)
LEMMA StepsLeftBounded ==
    ASSUME TypeOK, NEW c \in Call
    PROVE  StepsLeft(c) \in 0..27
<1>1. retry[c] \in 0..5 /\ pc[c] \in {"lookup", "fetch", "check", "sleep", "fetched",
                                    "store", "parse", "process", "done"}
  BY DEF TypeOK, MaxRetriesDefault
<1> QED
  BY <1>1 DEF StepsLeft, MaxRetriesDefault

\* Only Retry goes back to an earlier control point, and it uses up a retry.
LEMMA StepShortens ==
    ASSUME TypeOK, NEW c \in Call, Step(c)
    PROVE  /\ StepsLeft(c)' < StepsLeft(c)
           /\ \A d \in Call \ {c} : StepsLeft(d)' = StepsLeft(d)
<1>1. retry[c] \in 0..5
  BY DEF TypeOK, MaxRetriesDefault
<1>2. CASE Retry(c)
  <2>1. /\ retry[c] < 5 /\ retry'[c] = retry[c] + 1
        /\ pc[c] = "check" /\ pc'[c] \in {"sleep", "fetch"}
    <3>1. MaxRetries(c) <= 5 /\ MaxRetries(c) \in Int
      BY JobFields DEF MaxRetriesDefault
    <3> QED
      BY <1>1, <1>2, <3>1 DEF Retry, Rejected, Goto, TypeOK
  <2>2. StepsLeft(c)' < StepsLeft(c)
    BY <1>1, <2>1 DEF StepsLeft, MaxRetriesDefault
  <2>3. \A d \in Call \ {c} : retry'[d] = retry[d] /\ pc'[d] = pc[d]
    BY <1>2 DEF Retry, Goto, TypeOK
  <2> QED
    BY <2>2, <2>3 DEF StepsLeft
<1>3. CASE ~Retry(c)
  <2> DEFINE Moves ==
        {<<"lookup", "parse">>, <<"lookup", "fetch">>, <<"fetch", "check">>,
         <<"check", "fetched">>, <<"sleep", "fetch">>, <<"fetched", "done">>,
         <<"fetched", "store">>, <<"fetched", "parse">>, <<"store", "parse">>,
         <<"parse", "process">>, <<"parse", "done">>, <<"process", "done">>,
         <<"fetch", "done">>, <<"check", "done">>}
  <2>1. /\ UNCHANGED retry
        /\ <<pc[c], pc'[c]>> \in Moves
        /\ \A d \in Call \ {c} : pc'[d] = pc[d]
    <3> USE DEF TypeOK, Goto, fetchVars
    <3>1. CASE CacheHit(c) \/ CacheMiss(c) \/ Fetch(c) \/ Accept(c)
      BY <3>1 DEF CacheHit, CacheMiss, Fetch, Accept
    <3>2. CASE Discard(c) \/ Stop(c) \/ NoRetryLeft(c)
      BY <3>2 DEF Discard, Stop, NoRetryLeft, Rejected, GiveUp
    <3>3. CASE Wake(c) \/ FetchFailed(c) \/ Fetched(c)
      BY <3>3 DEF Wake, FetchFailed, Fetched, Return
    <3>4. CASE Store(c) \/ Parse(c) \/ Process(c) \/ Panic(c)
      BY <3>4 DEF Store, Parse, Process, Panic, Return
    <3> QED
      BY <1>3, <3>1, <3>2, <3>3, <3>4 DEF Step, GoesOn
  <2>2. StepsLeft(c)' < StepsLeft(c)
    BY <1>1, <2>1 DEF StepsLeft, MaxRetriesDefault
  <2> QED
    BY <2>1, <2>2 DEF StepsLeft
<1> QED
  BY <1>2, <1>3

-----------------------------------------------------------------------------
\* The inductive invariant.
THEOREM Invariance == Spec => []IInv
<1>1. IInv /\ [Next]_vars => IInv'
  BY TypeStep, AttemptsStep, DelayStep, PauseStep, CheckedStep, PassedOnStep, CacheStep
     DEF IInv
<1> QED
  BY InitHolds, <1>1, PTL DEF Spec

\* Every variable has its type; the counter of retries in particular never
\* exceeds the engine's limit.
THEOREM TypeCorrect == Spec => []TypeOK
<1>1. IInv => TypeOK
  BY DEF IInv
<1> QED
  BY Invariance, <1>1, PTL

\* For any jobs and any responses doFetch makes at most six attempts, and at
\* most one more than the job's MaxRetries.
THEOREM AttemptsBoundedAlways == Spec => []AttemptsBounded
<1>1. IInv => AttemptsBounded
  BY JobFields DEF IInv, TypeOK, AttemptsCounted, AttemptsBounded, Allowed, MaxRetriesDefault
<1> QED
  BY Invariance, <1>1, PTL

\* A pause exceeds the job's MaxRetryDelay, which job.go:97 calls its cap, by the
\* last doubling or by the first delay, and by no more.
THEOREM PauseWithinTwiceAlways == Spec => []PauseWithinTwice
<1>1. IInv => PauseWithinTwice
  BY DEF IInv
<1> QED
  BY Invariance, <1>1, PTL

\* Whatever calls share a key, the cache only ever holds accepted responses
\* without an error.
THEOREM CacheHoldsGoodResponsesAlways == Spec => []CacheHoldsGoodResponses
<1>1. IInv => CacheHoldsGoodResponses
  BY DEF IInv
<1> QED
  BY Invariance, <1>1, PTL

\* Whichever calls share a cache entry, no job's Process is given a rejected or
\* failed response that it did not ask for.
THEOREM ProcessSeesGoodResponsesAlways == Spec => []ProcessSeesGoodResponses
<1>1. IInv => ProcessSeesGoodResponses
  BY DEF IInv, PassedOn, ProcessSeesGoodResponses
<1> QED
  BY Invariance, <1>1, PTL

\* For any jobs and any responses a call of DoJob takes at most 27 steps: each of
\* its steps lowers StepsLeft, which starts at 27 and is never negative.
THEOREM StepsBoundedAlways ==
    Spec => StepsBounded /\ [](\A c \in Call : StepsLeft(c) \in 0..27)
<1> DEFINE Shorter == \E c \in Call :
                        /\ StepsLeft(c)' < StepsLeft(c)
                        /\ \A d \in Call \ {c} : StepsLeft(d)' = StepsLeft(d)
           Bounded == \A c \in Call : StepsLeft(c) \in 0..27
<1>1. IInv /\ [Next]_vars => [Shorter]_vars
  <2> SUFFICES ASSUME IInv, Next PROVE Shorter
    OBVIOUS
  <2>1. PICK c \in Call : Step(c)
    BY DEF Next
  <2> QED
    BY <2>1, StepShortens DEF IInv
<1>2. IInv => Bounded
  BY StepsLeftBounded DEF IInv
<1> HIDE DEF Bounded
<1>3. Spec => []Bounded
  BY Invariance, <1>2, PTL
<1>4. Spec => [][Shorter]_vars
  BY Invariance, <1>1, PTL DEF Spec
<1> QED
  BY <1>3, <1>4 DEF StepsBounded, Bounded
=============================================================================
