------------------------------ MODULE ScrapeMate ------------------------------
(***************************************************************************)
(* The scraping engine: ScrapeMate.Start with its workers, the statistics  *)
(* and inactivity goroutine, the signal goroutine, finishJob, pushJobs and *)
(* pushToFailedJobs (scrapemate.go), running on the memory provider        *)
(* (module MemoryProvider, whose steps are part of this specification).    *)
(*                                                                         *)
(* What DoJob does with one job is the subject of module JobRun; here it   *)
(* takes time and ends in success, with the job's children to push, or in  *)
(* an error.  The consumer of the results channel is the environment: the  *)
(* writer of an application, which on an error cancels the context and     *)
(* stops receiving.                                                        *)
(***************************************************************************)
EXTENDS Naturals, Sequences, FiniteSets

CONSTANTS
    Job, Worker, Priority, Nil,     \* see MemoryProvider
    Children,       \* the jobs that Process of each job returns, in order
    Seed,           \* jobs pushed from outside
    InitJob,        \* the job of WithInitJob if that is used, or Nil
    Emit,           \* jobs with UseInResults() = TRUE
    StopPolicy,     \* jobs whose retry policy is StopScraping
    UseFailed,      \* WithFailed was given
    InactivityOptions,  \* values of exitOnInactivity that are considered
    PushMayFail,    \* a provider whose Push can return an error
    WriterMayFail,  \* the consumer of the results can stop with an error
    Causes          \* outside reasons for cancellation that are considered

ASSUME TreeAssumption ==
    /\ Children \in [Job -> Seq(Job)]
    /\ Seed \subseteq Job /\ Emit \subseteq Job /\ StopPolicy \subseteq Job
    /\ InitJob \in Job \cup {Nil}
\* A job object is pushed once: it is a seed or the child of one parent.
ASSUME ForestAssumption ==
    \A j \in Job :
        Cardinality({o \in Job \X (1..Cardinality(Job)) :
                       o[2] \in DOMAIN Children[o[1]] /\ Children[o[1]][o[2]] = j})
            + (IF j \in Seed THEN 1 ELSE 0) <= 1
\* The assumptions of MemoryProvider.
ASSUME ProviderAssumption ==
    /\ IsFiniteSet(Job) /\ Nil \notin Job
    /\ IsFiniteSet(Worker)
    /\ Priority \in [Job -> 0..2]
ASSUME OptionAssumption ==
    /\ {UseFailed, PushMayFail, WriterMayFail} \subseteq BOOLEAN
    /\ InactivityOptions \subseteq BOOLEAN
    /\ Causes \subseteq {"signal", "user", "deadline"}

VARIABLES
    ctx, pusher, pump, holding, errc, delivered, overtaken, \* MemoryProvider
    cause,      \* context.Cause(s.ctx)
    exitOnInactivity, \* set once, by WithExitBecauseOfInactivity
    main,       \* where Start is
    initq,      \* stack of processInitJob
    worker,     \* where each worker is in startWorker
    job,        \* the worker's current job
    todo,       \* children that finishJob has still to push
    watchdog,   \* the statistics and inactivity goroutine
    stale,      \* now - lastActivityAt > exitOnInactivityDuration
    completed,  \* numOfJobsCompleted
    failed,     \* numOfJobsFailed
    writer,     \* the consumer of the results channel
    received,   \* how often each job's result was received (history)
    succeeded,  \* jobs that finishJob completed without an error (history)
    ended,      \* how often a worker finished with each job (history)
    crashed     \* a panic outside any recover ended the process

memVars    == <<pusher, pump, holding, errc, delivered, overtaken>>
workerVars == <<worker, job, todo>>
statVars   == <<stale, completed, failed>>
histVars   == <<received, succeeded, ended>>
vars == <<ctx, memVars, cause, main, initq, workerVars, watchdog, statVars,
          writer, histVars, exitOnInactivity, crashed>>

Mem == INSTANCE MemoryProvider

TypeOK ==
    /\ Mem!TypeOK
    /\ cause \in {"none", "signal", "user", "deadline", "policy",
                  "inactivity", "writer", "seed", "engine", "closing"}
    /\ exitOnInactivity \in InactivityOptions
    /\ main \in {"init", "initjob", "wait", "returned"}
    /\ initq \in Seq(Job)
    /\ worker \in [Worker -> {"off", "start", "select", "sleep", "do", "push",
                              "results", "fail", "exit"}]
    /\ job \in [Worker -> Job \cup {Nil}]
    /\ todo \in [Worker -> Seq(Job)]
    /\ watchdog \in {"off", "run", "exit"}
    /\ stale \in BOOLEAN /\ completed \in Nat /\ failed \in Nat
    /\ writer \in {"run", "stopped"}
    /\ received \in [Job -> {0, 1}]
    /\ succeeded \subseteq Job
    /\ ended \in [Job -> {0, 1}]
    /\ crashed \in BOOLEAN

\* lastActivityAt is the zero time until a job ends: stale from the start.
Init ==
    /\ Mem!Init
    /\ cause = "none"
    /\ main = "init"
    /\ initq \in {<<>>} \cup {<<j>> : j \in {InitJob} \ {Nil}}
    /\ exitOnInactivity \in InactivityOptions
    /\ worker = [w \in Worker |-> "off"]
    /\ job = [w \in Worker |-> Nil]
    /\ todo = [w \in Worker |-> <<>>]
    /\ watchdog = "off"
    /\ stale = TRUE
    /\ completed = 0 /\ failed = 0
    /\ writer = "run"
    /\ received = [j \in Job |-> 0]
    /\ succeeded = {}
    /\ ended = [j \in Job |-> 0]
    /\ crashed = FALSE

Done == ctx # "live"

\* cancelFn: the first cause stays.
CancelWith(c) ==
    IF Done THEN UNCHANGED <<ctx, cause>>
    ELSE /\ ctx' = IF c = "deadline" THEN "deadline" ELSE "canceled"
         /\ cause' = c

(***************************************************************************)
(* Start: the init jobs, then the workers and the watchdog.                *)
(***************************************************************************)
InitJobStarts ==
    /\ main = "init" /\ initq # <<>> /\ ~Done
    /\ main' = "initjob"
    /\ UNCHANGED <<ctx, memVars, cause, initq, workerVars, watchdog, statVars,
                   writer, histVars, exitOnInactivity, crashed>>

\* An init job whose policy is StopScraping cancels the context.
InitJobStops ==
    /\ main = "initjob"
    /\ Head(initq) \in StopPolicy
    /\ ~Done
    /\ CancelWith("policy")
    /\ UNCHANGED <<memVars, main, initq, workerVars, watchdog, statVars,
                   writer, histVars, exitOnInactivity, crashed>>

\* Mutant of InitJobReturns: the job stays on the stack.
InitJobReturns_NotPopped ==
    /\ main = "initjob"
    /\ main' = "init"
    /\ UNCHANGED <<ctx, memVars, cause, initq, workerVars, watchdog, statVars,
                   writer, histVars, exitOnInactivity, crashed>>

InitJobReturns ==
    /\ main = "initjob"
    /\ initq' = Tail(initq) \o Children[Head(initq)]
    /\ main' = "init"
    /\ UNCHANGED <<ctx, memVars, cause, workerVars, watchdog, statVars, writer,
                   histVars, exitOnInactivity, crashed>>

InitJobFails ==
    /\ main = "initjob"
    /\ main' = "returned"
    /\ UNCHANGED <<ctx, memVars, cause, initq, workerVars, watchdog, statVars,
                   writer, histVars, exitOnInactivity, crashed>>

SpawnWorkers ==
    /\ main = "init" /\ (initq = <<>> \/ Done)
    /\ main' = "wait"
    /\ worker' = [w \in Worker |-> "start"]
    /\ watchdog' = "run"
    /\ UNCHANGED <<ctx, memVars, cause, initq, job, todo, statVars, writer,
                   histVars, exitOnInactivity, crashed>>

\* Mutant of StartReturns: it waits for the context but not for the workers.
StartReturns_NoWait ==
    /\ main = "wait"
    /\ Done
    /\ main' = "returned"
    /\ UNCHANGED <<ctx, memVars, cause, initq, workerVars, watchdog, statVars,
                   writer, histVars, exitOnInactivity, crashed>>

\* wg.Wait, then <-Done; the deferred function closes results and failedJobs.
StartReturns ==
    /\ main = "wait"
    /\ \A w \in Worker : worker[w] = "exit"
    /\ watchdog = "exit"
    /\ Done
    /\ main' = "returned"
    /\ UNCHANGED <<ctx, memVars, cause, initq, workerVars, watchdog, statVars,
                   writer, histVars, exitOnInactivity, crashed>>

(***************************************************************************)
(* startWorker.                                                            *)
(***************************************************************************)
Goto(w, l) == worker' = [worker EXCEPT ![w] = l]

engineRest == <<cause, main, initq, watchdog, writer, exitOnInactivity>>

\* The first call of Jobs, and the one after the pause that follows an error.
CallJobs(w) ==
    /\ worker[w] \in {"start", "sleep"}
    /\ Mem!Jobs(w)
    /\ Goto(w, "select")
    /\ UNCHANGED <<engineRest, job, todo, statVars, histVars, crashed>>

\* Mutant of WorkerDone: the worker's select has no case for the context.
WorkerDone_Missing(w) == FALSE /\ worker[w] = "select" /\ UNCHANGED vars

WorkerDone(w) ==
    /\ worker[w] = "select"
    /\ Done
    /\ Goto(w, "exit")
    /\ UNCHANGED <<ctx, memVars, engineRest, job, todo, statVars, histVars,
                   crashed>>

WorkerErr(w) ==
    /\ worker[w] = "select"
    /\ Mem!ReadErr(w)
    /\ Goto(w, IF ctx = "canceled" THEN "exit" ELSE "sleep")
    /\ UNCHANGED <<engineRest, job, todo, statVars, histVars, crashed>>

\* DoJob calls job.GetID() before it defers its recover: a nil job is fatal.
TakeJob(w) ==
    /\ worker[w] = "select"
    /\ Mem!Deliver(w)
    /\ job' = [job EXCEPT ![w] = holding[w]]
    /\ Goto(w, "do")
    /\ crashed' = (holding[w] = Nil)
    /\ UNCHANGED <<engineRest, todo, statVars, histVars>>

\* doFetch under StopScraping: the context is cancelled while the job runs.
PolicyStops(w) ==
    /\ worker[w] = "do"
    /\ job[w] \in StopPolicy
    /\ ~Done
    /\ CancelWith("policy")
    /\ UNCHANGED <<memVars, main, initq, workerVars, watchdog, statVars,
                   writer, histVars, exitOnInactivity, crashed>>

\* The worker is through with its job.
EndJob(w) ==
    /\ Goto(w, "select")
    /\ job' = [job EXCEPT ![w] = Nil]
    /\ ended' = [ended EXCEPT ![job[w]] = @ + 1]

\* pushToFailedJobs: the count comes first, then the send with its time limit.
PushToFailed(w) ==
    /\ failed' = failed + 1
    /\ stale' = FALSE
    /\ IF UseFailed
       THEN Goto(w, "fail") /\ UNCHANGED <<job, ended>>
       ELSE EndJob(w)

\* Mutant of DoJobFails: the job is counted as completed before the error is
\* looked at.
DoJobFails_CountedTwice(w) ==
    /\ worker[w] = "do"
    /\ PushToFailed(w)
    /\ completed' = completed + 1
    /\ UNCHANGED <<ctx, memVars, engineRest, todo, received, succeeded,
                   crashed>>

DoJobFails(w) ==
    /\ worker[w] = "do"
    /\ PushToFailed(w)
    /\ UNCHANGED <<ctx, memVars, engineRest, todo, completed, received,
                   succeeded, crashed>>

\* DoJob returned; finishJob counts the job as completed before anything else.
DoJobReturns(w) ==
    /\ worker[w] = "do"
    /\ completed' = completed + 1
    /\ stale' = FALSE
    /\ todo' = [todo EXCEPT ![w] = Children[job[w]]]
    /\ Goto(w, "push")
    /\ UNCHANGED <<ctx, memVars, engineRest, job, failed, histVars, crashed>>

PushChild(w) ==
    /\ worker[w] = "push" /\ todo[w] # <<>>
    /\ Mem!Push(Head(todo[w]))
    /\ todo' = [todo EXCEPT ![w] = Tail(@)]
    /\ UNCHANGED <<engineRest, worker, job, statVars, histVars, crashed>>

\* pushJobs stops at the first error; the job then counts as failed as well.
PushChildFails(w) ==
    /\ PushMayFail
    /\ worker[w] = "push" /\ todo[w] # <<>>
    /\ todo' = [todo EXCEPT ![w] = <<>>]
    /\ PushToFailed(w)
    /\ UNCHANGED <<ctx, memVars, engineRest, completed, received, succeeded,
                   crashed>>

\* Mutant of AllPushed: the result is sent before the children are pushed.
AllPushed_NotYet(w) ==
    /\ worker[w] = "push"
    /\ IF job[w] \in Emit
       THEN Goto(w, "results") /\ UNCHANGED <<job, ended, succeeded>>
       ELSE EndJob(w) /\ succeeded' = succeeded \cup {job[w]}
    /\ UNCHANGED <<ctx, memVars, engineRest, todo, statVars, received,
                   crashed>>

AllPushed(w) ==
    /\ worker[w] = "push" /\ todo[w] = <<>>
    /\ IF job[w] \in Emit
       THEN Goto(w, "results") /\ UNCHANGED <<job, ended, succeeded>>
       ELSE EndJob(w) /\ succeeded' = succeeded \cup {job[w]}
    /\ UNCHANGED <<ctx, memVars, engineRest, todo, statVars, received,
                   crashed>>

\* Mutants of SendResult: the result is sent again; the send gives up when the
\* context is done.
SendResult_Again(w) ==
    /\ worker[w] = "results"
    /\ writer = "run"
    /\ received' = [received EXCEPT ![job[w]] = @ + 1]
    /\ UNCHANGED <<ctx, memVars, engineRest, workerVars, statVars, succeeded,
                   ended, crashed>>

SendResult_OrDone(w) ==
    /\ worker[w] = "results"
    /\ \/ writer = "run" /\ received' = [received EXCEPT ![job[w]] = @ + 1]
       \/ Done /\ UNCHANGED received
    /\ succeeded' = succeeded \cup {job[w]}
    /\ EndJob(w)
    /\ UNCHANGED <<ctx, memVars, engineRest, todo, statVars, crashed>>

\* s.results <- Result{...}: an unbuffered send that nothing interrupts.
SendResult(w) ==
    /\ worker[w] = "results"
    /\ writer = "run"
    /\ received' = [received EXCEPT ![job[w]] = @ + 1]
    /\ succeeded' = succeeded \cup {job[w]}
    /\ EndJob(w)
    /\ UNCHANGED <<ctx, memVars, engineRest, todo, statVars, crashed>>

\* The failed job is received, or five seconds pass and it is dropped.
FailedSentOrDropped(w) ==
    /\ worker[w] = "fail"
    /\ EndJob(w)
    /\ UNCHANGED <<ctx, memVars, engineRest, todo, statVars, received,
                   succeeded, crashed>>

(***************************************************************************)
(* The statistics goroutine.                                               *)
(***************************************************************************)
WatchdogDone ==
    /\ watchdog = "run" /\ Done
    /\ watchdog' = "exit"
    /\ UNCHANGED <<ctx, memVars, cause, main, initq, workerVars, statVars,
                   writer, histVars, exitOnInactivity, crashed>>

WatchdogFires ==
    /\ watchdog = "run"
    /\ exitOnInactivity /\ stale
    /\ CancelWith("inactivity")
    /\ watchdog' = "exit"
    /\ UNCHANGED <<memVars, main, initq, workerVars, statVars, writer,
                   histVars, exitOnInactivity, crashed>>

(***************************************************************************)
(* The environment: time, jobs pushed from outside, cancellation by a      *)
(* signal (waitForSignal), by the caller's context or by a failing writer. *)
(***************************************************************************)
TimePasses ==
    /\ ~stale
    /\ stale' = TRUE
    /\ UNCHANGED <<ctx, memVars, cause, main, initq, workerVars, watchdog,
                   completed, failed, writer, histVars, exitOnInactivity,
                   crashed>>

PushSeed(j) ==
    /\ j \in Seed
    /\ Mem!Push(j)
    /\ UNCHANGED <<engineRest, workerVars, statVars, histVars, crashed>>

CancelledFromOutside(c) ==
    /\ ~Done
    /\ CancelWith(c)
    /\ UNCHANGED <<memVars, main, initq, workerVars, watchdog, statVars,
                   writer, histVars, exitOnInactivity, crashed>>

WriterFails ==
    /\ WriterMayFail /\ writer = "run"
    /\ writer' = "stopped"
    /\ CancelWith("writer")
    /\ UNCHANGED <<memVars, main, initq, workerVars, watchdog, statVars,
                   histVars, exitOnInactivity, crashed>>

PusherRuns(j) ==
    /\ Mem!PushStep(j)
    /\ UNCHANGED <<engineRest, workerVars, statVars, histVars, crashed>>

PumpRuns(w) ==
    /\ Mem!PumpStep(w)
    /\ UNCHANGED <<engineRest, workerVars, statVars, histVars, crashed>>

ProviderStep ==
    \/ \E j \in Job : PusherRuns(j)
    \/ \E w \in Worker : PumpRuns(w)

\* Every step of a worker but the send of a result, which needs a receiver.
WorkerAlone(w) ==
    \/ CallJobs(w)
    \/ WorkerDone(w) \/ WorkerErr(w) \/ TakeJob(w)
    \/ PolicyStops(w) \/ DoJobFails(w) \/ DoJobReturns(w)
    \/ PushChild(w) \/ PushChildFails(w) \/ AllPushed(w)
    \/ FailedSentOrDropped(w)

WorkerStep(w) == WorkerAlone(w) \/ SendResult(w)

MainStep ==
    \/ InitJobStarts \/ InitJobStops \/ InitJobReturns \/ InitJobFails
    \/ SpawnWorkers \/ StartReturns

WatchdogStep == WatchdogDone \/ WatchdogFires

Next ==
    /\ ~crashed
    /\ \/ MainStep
       \/ WatchdogStep
       \/ \E w \in Worker : WorkerStep(w)
       \/ ProviderStep
       \/ TimePasses
       \/ \E j \in Seed : PushSeed(j)
       \/ \E c \in Causes : CancelledFromOutside(c)
       \/ WriterFails

Spec == Init /\ [][Next]_vars

-----------------------------------------------------------------------------
(***************************************************************************)
(* Properties.                                                             *)
(***************************************************************************)
Busy(w) == worker[w] \in {"do", "push", "results", "fail"}

\* results and failedJobs are closed when Start returns: by then no worker is
\* left that could send on them (a send on a closed channel panics).
ClosedAfterLastSend ==
    main = "returned" => \A w \in Worker : worker[w] \in {"off", "exit"}

\* Every pushed job is in exactly one place: with its pusher, in a pump, with a
\* worker, or finished with.  None is run twice and, until the context is done,
\* none is lost.
JobAccounted ==
    \A j \in Job :
        (IF pusher[j] \in {"started", "parked"} THEN 1 ELSE 0)
        + Cardinality({w \in Worker : holding[w] = j})
        + Cardinality({w \in Worker : job[w] = j})
        + ended[j]
          = IF pusher[j] \in {"none", "quit"} THEN 0 ELSE 1

\* With a provider whose Push does not fail the statistics count each job that
\* was run exactly once.
StatsCountEachJobOnce ==
    completed + failed =
        Cardinality({j \in Job : ended[j] = 1})
        + Cardinality({w \in Worker : worker[w] \in {"push", "results", "fail"}})

\* The blocking send pays off: once Start has returned, the result of every
\* job that succeeded has reached the consumer, once, even if the context was
\* cancelled while the job was running.
NoResultLost ==
    main = "returned" =>
        \A j \in succeeded : received[j] = (IF j \in Emit THEN 1 ELSE 0)

\* No goroutine of the engine gives up, and no nil job ends the process, before
\* the context is done; when it is, there is a cause for it.
StaysWhileLive ==
    /\ Done => cause # "none"
    /\ ~Done => /\ cause = "none" /\ ~crashed /\ watchdog # "exit"
                /\ \A w \in Worker : worker[w] \notin {"sleep", "exit"}

\* When Start has returned, no goroutine that it waited for does anything more, nor
\* has one that it did not wait for been started: what the caller then reads of
\* the statistics, the results and the jobs is final.
QuietAfterReturn ==
    [][main = "returned" =>
         UNCHANGED <<main, workerVars, watchdog, completed, failed, histVars>>]_vars

\* A consumer that sees a result knows that the job's children were pushed.
ResultAfterChildren ==
    \A j \in Job : received[j] > 0 =>
        \A i \in DOMAIN Children[j] : pusher[Children[j][i]] # "none"

\* What Start does to the jobs is what Scraper promises: in particular each job
\* is run once and after it was pushed, its result comes once, with its success
\* and after its children, and no worker is at work when Start has returned.
Promise == INSTANCE Scraper WITH
    pushed <- {j \in Job : pusher[j] # "none"}, running <- job,
    finished <- {j \in Job : ended[j] # 0},
    results <- {j \in Job : received[j] # 0}, over <- main = "returned"
KeepsPromise == Promise!Spec
=============================================================================
