-------------------------------- MODULE JobRun --------------------------------
(***************************************************************************)
(* What the engine does with one job: ScrapeMate.DoJob, doFetch with its   *)
(* retries and getMaxRetries (scrapemate.go), for several jobs at once     *)
(* that share the cache and the engine's context.                          *)
(*                                                                         *)
(* A response is reduced to what the control flow reads: whether           *)
(* DoCheckResponse accepts it, and whether its Error is set.  A fetcher    *)
(* can return both (nethttp sets the status before reading the body).      *)
(* Times are in milliseconds.                                              *)
(***************************************************************************)
EXTENDS Integers, FiniteSets

CONSTANTS
    Call,           \* calls of DoJob
    Key,            \* cache keys
    JobSpec,       \* the jobs considered: records of JobType
    HasCache, HasParser     \* options of the engine

JobType ==
    [policy : {"RetryJob", "DiscardJob", "RefreshIP", "StopScraping"},
     maxRetries : Int, maxDelay : Nat, onError : BOOLEAN, key : Key]

ASSUME JobTypeAssumption == JobSpec \subseteq JobType
ASSUME EngineAssumption == HasCache \in BOOLEAN /\ HasParser \in BOOLEAN

FirstDelay == 100
MaxRetriesDefault == 5

Response == [accepted : BOOLEAN, error : BOOLEAN]
Blank == [accepted |-> FALSE, error |-> FALSE]

VARIABLES
    job,        \* the job of each call
    pc,         \* where the call is
    resp,       \* its response
    retry, delay,   \* locals of doFetch
    slept,      \* the last pause between two attempts (history)
    fetches,    \* calls of Fetch (history)
    outcome,    \* of DoJob
    cache,      \* entries of the cache: a set of at most one response per key
    cancelled   \* the engine's context was cancelled by StopScraping

vars == <<job, pc, resp, retry, delay, slept, fetches, outcome, cache, cancelled>>

TypeOK ==
    /\ job \in [Call -> JobSpec]
    /\ pc \in [Call -> {"lookup", "fetch", "check", "sleep", "fetched",
                        "store", "parse", "process", "done"}]
    /\ resp \in [Call -> Response]
    /\ retry \in [Call -> 0..MaxRetriesDefault] /\ delay \in [Call -> Nat]
    /\ slept \in [Call -> Nat] /\ fetches \in [Call -> Nat]
    /\ outcome \in [Call -> {"none", "ok", "error"}]
    /\ cache \in [Key -> SUBSET Response]
    /\ cancelled \in BOOLEAN

Init ==
    /\ job \in [Call -> JobSpec]
    /\ pc = [c \in Call |-> "lookup"]
    /\ resp = [c \in Call |-> Blank]
    /\ retry = [c \in Call |-> 0]
    /\ delay = [c \in Call |-> FirstDelay]
    /\ slept = [c \in Call |-> 0]
    /\ fetches = [c \in Call |-> 0]
    /\ outcome = [c \in Call |-> "none"]
    /\ cache = [k \in Key |-> {}]
    /\ cancelled = FALSE

\* getMaxRetries: the job's own number, but never more than the default.
MaxRetries(c) ==
    IF job[c].maxRetries > MaxRetriesDefault
    THEN MaxRetriesDefault ELSE job[c].maxRetries

Goto(c, l) == pc' = [pc EXCEPT ![c] = l]

Return(c, o) ==
    /\ Goto(c, "done")
    /\ outcome' = [outcome EXCEPT ![c] = o]

fetchVars == <<retry, delay, slept, fetches>>

\* Get either finds the entry or fails, for whatever reason.
CacheHit(c) ==
    /\ pc[c] = "lookup" /\ HasCache
    /\ \E r \in cache[job[c].key] : resp' = [resp EXCEPT ![c] = r]
    /\ Goto(c, "parse")
    /\ UNCHANGED <<job, fetchVars, outcome, cache, cancelled>>

CacheMiss(c) ==
    /\ pc[c] = "lookup"
    /\ Goto(c, "fetch")
    /\ UNCHANGED <<job, resp, fetchVars, outcome, cache, cancelled>>

(***************************************************************************)
(* doFetch.                                                                *)
(***************************************************************************)
Fetch(c) ==
    /\ pc[c] = "fetch"
    /\ \E r \in Response : resp' = [resp EXCEPT ![c] = r]
    /\ fetches' = [fetches EXCEPT ![c] = @ + 1]
    /\ Goto(c, "check")
    /\ UNCHANGED <<job, retry, delay, slept, outcome, cache, cancelled>>

Accept(c) ==
    /\ pc[c] = "check"
    /\ resp[c].accepted
    /\ Goto(c, "fetched")
    /\ UNCHANGED <<job, resp, fetchVars, outcome, cache, cancelled>>

Rejected(c) == pc[c] = "check" /\ ~resp[c].accepted

\* doFetch returns a rejected response; its deferred function sets the Error.
GiveUp(c) ==
    /\ resp' = [resp EXCEPT ![c].error = TRUE]
    /\ Goto(c, "fetched")
    /\ UNCHANGED <<job, fetchVars, outcome, cache>>

Discard(c) ==
    /\ Rejected(c)
    /\ job[c].policy = "DiscardJob"
    /\ GiveUp(c)
    /\ UNCHANGED cancelled

Stop(c) ==
    /\ Rejected(c)
    /\ job[c].policy = "StopScraping"
    /\ cancelled' = TRUE
    /\ GiveUp(c)

\* Mutant of NoRetryLeft: the limit is looked at under RetryJob only.
NoRetryLeft_RetryJobOnly(c) ==
    /\ Rejected(c)
    /\ job[c].policy = "RetryJob"
    /\ retry[c] >= MaxRetries(c)
    /\ GiveUp(c)
    /\ UNCHANGED cancelled

NoRetryLeft(c) ==
    /\ Rejected(c)
    /\ job[c].policy \in {"RetryJob", "RefreshIP"}
    /\ retry[c] >= MaxRetries(c)
    /\ GiveUp(c)
    /\ UNCHANGED cancelled

\* Mutant of Retry: one retry too many.
Retry_OneMore(c) ==
    /\ Rejected(c)
    /\ job[c].policy \in {"RetryJob", "RefreshIP"}
    /\ retry[c] <= MaxRetries(c)
    /\ retry' = [retry EXCEPT ![c] = @ + 1]
    /\ IF job[c].policy = "RetryJob"
       THEN Goto(c, "sleep") /\ slept' = [slept EXCEPT ![c] = delay[c]]
       ELSE Goto(c, "fetch") /\ UNCHANGED slept
    /\ UNCHANGED <<job, resp, delay, fetches, outcome, cache, cancelled>>

\* RetryJob sleeps before the next attempt; RefreshIP goes on at once.  The
\* sleep does not look at the context.
Retry(c) ==
    /\ Rejected(c)
    /\ job[c].policy \in {"RetryJob", "RefreshIP"}
    /\ retry[c] < MaxRetries(c)
    /\ retry' = [retry EXCEPT ![c] = @ + 1]
    /\ IF job[c].policy = "RetryJob"
       THEN Goto(c, "sleep") /\ slept' = [slept EXCEPT ![c] = delay[c]]
       ELSE Goto(c, "fetch") /\ UNCHANGED slept
    /\ UNCHANGED <<job, resp, delay, fetches, outcome, cache, cancelled>>

\* The delay doubles until it has exceeded the maximum, then becomes it: the pause
\* in which it exceeds the maximum is slept in full.
Wake(c) ==
    /\ pc[c] = "sleep"
    /\ delay' = [delay EXCEPT ![c] =
                   IF @ > job[c].maxDelay THEN job[c].maxDelay ELSE 2 * @]
    /\ Goto(c, "fetch")
    /\ UNCHANGED <<job, resp, retry, slept, fetches, outcome, cache, cancelled>>

(***************************************************************************)
(* The rest of DoJob.                                                      *)
(***************************************************************************)
FetchFailed(c) ==
    /\ pc[c] = "fetched"
    /\ resp[c].error /\ ~job[c].onError
    /\ Return(c, "error")
    /\ UNCHANGED <<job, resp, fetchVars, cache, cancelled>>

\* Mutant of Fetched: an errored response is cached as well.
Fetched_StoreAlways(c) ==
    /\ pc[c] = "fetched"
    /\ ~resp[c].error \/ job[c].onError
    /\ Goto(c, IF HasCache THEN "store" ELSE "parse")
    /\ UNCHANGED <<job, resp, fetchVars, outcome, cache, cancelled>>

Fetched(c) ==
    /\ pc[c] = "fetched"
    /\ ~resp[c].error \/ job[c].onError
    /\ Goto(c, IF ~resp[c].error /\ HasCache THEN "store" ELSE "parse")
    /\ UNCHANGED <<job, resp, fetchVars, outcome, cache, cancelled>>

\* An error of Set is only logged.
Store(c) ==
    /\ pc[c] = "store"
    /\ \/ cache' = [cache EXCEPT ![job[c].key] = {resp[c]}]
       \/ UNCHANGED cache
    /\ Goto(c, "parse")
    /\ UNCHANGED <<job, resp, fetchVars, outcome, cancelled>>

Parse(c) ==
    /\ pc[c] = "parse"
    /\ \/ Goto(c, "process") /\ UNCHANGED outcome
       \/ /\ ~resp[c].error /\ HasParser
          /\ Return(c, "error")
    /\ UNCHANGED <<job, resp, fetchVars, cache, cancelled>>

Process(c) ==
    /\ pc[c] = "process"
    /\ \E o \in {"ok", "error"} : Return(c, o)
    /\ UNCHANGED <<job, resp, fetchVars, cache, cancelled>>

\* The fetcher, the parser or the job's own code, DoCheckResponse included, panics;
\* DoJob recovers.
Panic(c) ==
    /\ pc[c] \in {"fetch", "check", "parse", "process"}
    /\ Return(c, "error")
    /\ UNCHANGED <<job, resp, fetchVars, cache, cancelled>>

GoesOn(c) ==
    \/ CacheHit(c) \/ CacheMiss(c)
    \/ Fetch(c) \/ Accept(c)
    \/ Discard(c) \/ Stop(c) \/ NoRetryLeft(c) \/ Retry(c) \/ Wake(c)
    \/ FetchFailed(c) \/ Fetched(c) \/ Store(c)
    \/ Parse(c) \/ Process(c)

Step(c) == GoesOn(c) \/ Panic(c)

Next == \E c \in Call : Step(c)

\* Fetch, the parser and the job's code return; the sleep ends.  No panic is fair.
Spec == Init /\ [][Next]_vars /\ \A c \in Call : WF_vars(GoesOn(c))

-----------------------------------------------------------------------------
(***************************************************************************)
(* Properties.                                                             *)
(***************************************************************************)

\* The number of attempts is bounded by the job's MaxRetries and by the
\* engine's own limit of 5 retries, whatever the responses are.
AttemptsBounded ==
    \A c \in Call :
        /\ fetches[c] <= 6
        /\ fetches[c] <= 1 + (IF job[c].maxRetries > 0 THEN job[c].maxRetries ELSE 0)

\* Only an accepted response without an error is ever cached, so a cached
\* response needs no further check.
CacheHoldsGoodResponses ==
    \A k \in Key : cache[k] \subseteq {[accepted |-> TRUE, error |-> FALSE]}

\* The job's Process sees a response that was accepted and has no error, fetched
\* or cached, unless the job asks for the others with ProcessOnFetchError.
ProcessSeesGoodResponses ==
    \A c \in Call :
        pc[c] = "process" => (resp[c].accepted /\ ~resp[c].error) \/ job[c].onError

\* The number of steps that a call has still to take, at most: four for each
\* retry that is left, and those of the last attempt and after it.
StepsLeft(c) ==
    LET loop == 4 * (MaxRetriesDefault - retry[c]) + 5 IN
    CASE pc[c] = "done"    -> 0
      [] pc[c] = "process" -> 1
      [] pc[c] = "parse"   -> 2
      [] pc[c] = "store"   -> 3
      [] pc[c] = "fetched" -> 4
      [] pc[c] = "check"   -> loop
      [] pc[c] = "fetch"   -> loop + 1
      [] pc[c] \in {"sleep", "lookup"} -> loop + 2

\* DoJob ends after at most 27 steps, in whatever order the calls go on: each step
\* of a call takes it nearer to its end and no other call further away.
StepsBounded ==
    [][\E c \in Call :
         /\ StepsLeft(c)' < StepsLeft(c)
         /\ \A d \in Call \ {c} : StepsLeft(d)' = StepsLeft(d)]_vars

\* DoJob ends.
DoJobEnds == \A c \in Call : <>(pc[c] = "done")
=============================================================================
