---------------------------- MODULE ScrapemateApp ----------------------------
(***************************************************************************)
(* The high-level application: ScrapemateApp.Start with getMate and Close  *)
(* (scrapemateapp/scrapemateapp.go), around the engine of ScrapeMate, whose *)
(* steps are part of this specification.                                   *)
(*                                                                         *)
(* Start builds the fetcher and the cache, then runs the writers, the      *)
(* engine and the pushing of the seeds as goroutines of one errgroup: the  *)
(* first error is kept and cancels the context of all of them.  When every *)
(* goroutine has returned, the fetcher is closed and then the cache.       *)
(*                                                                         *)
(* All writers receive from the one results channel.  The consumer of      *)
(* ScrapeMate ("writer") is here the group of writers: it receives as long *)
(* as one of them does.                                                    *)
(*                                                                         *)
(* The engine's context is a child of the application's and, when the run  *)
(* ends by inactivity, is done a little earlier: one variable stands for   *)
(* both.                                                                   *)
(***************************************************************************)
EXTENDS ScrapeMate, AppConfig

CONSTANTS
    SeedJobs        \* the seeds, in the order in which Start is given them

ASSUME AppAssumption ==
    /\ IsFiniteSet(Writer)
    /\ SeedJobs \in Seq(Seed)
    /\ InactivityOptions = BOOLEAN

VARIABLES
    app,        \* where ScrapemateApp.Start is
    fetcher,    \* the HTTPFetcher with its browsers
    cacher,     \* app.cacher
    writers,    \* each writer's Run
    got,        \* results that each writer has received (history)
    seeds,      \* seeds that have still to be pushed
    seeding,    \* the goroutine that pushes them
    engine,     \* the goroutine that runs mate.Start
    group       \* the first error that a goroutine returned to the errgroup

buildVars == <<configVars, fetcher, cacher>>
groupVars == <<writers, got, seeds, seeding, engine, group>>
appVars == <<app, buildVars, groupVars>>
allVars == <<vars, appVars>>

AppTypeOK ==
    /\ TypeOK
    /\ ConfigTypeOK
    /\ app \in {"fetcher", "cacher", "run", "closing", "closed", "returned"}
    /\ fetcher \in {"none", "open", "closed"}
    /\ cacher \in {"none", "open", "closed"}
    /\ writers \in [Writer -> {"off", "run", "ended", "failed"}]
    /\ got \in [Writer -> SUBSET Job]
    /\ seeds \in Seq(Seed)
    /\ {seeding, engine} \subseteq {"off", "run", "ended"}
    /\ group \in {"nil", "error"}

AppInit ==
    /\ Init /\ ~exitOnInactivity
    /\ ConfigInit
    /\ app = "fetcher"
    /\ fetcher = "none"
    /\ cacher = "none"
    /\ writers = [x \in Writer |-> "off"]
    /\ got = [x \in Writer |-> {}]
    /\ seeds = SeedJobs
    /\ seeding = "off"
    /\ engine = "off"
    /\ group = "nil"

(***************************************************************************)
(* getMate.  Start returns its error at once, before the deferred calls    *)
(* are set up: a fetcher that is open by then stays open.                  *)
(***************************************************************************)
BuildConfig ==
    /\ ConfigNext
    /\ UNCHANGED <<vars, app, fetcher, cacher, groupVars>>

\* Bound: only a configuration for as many workers as there are is started.
Startable == config = "accepted" /\ cfg.Concurrency = Cardinality(Worker)

GetFetcher ==
    /\ app = "fetcher" /\ Startable
    /\ \/ fetcher' = "open" /\ app' = "cacher" /\ UNCHANGED group
       \/ app' = "returned" /\ group' = "error" /\ UNCHANGED fetcher
    /\ UNCHANGED <<vars, configVars, cacher, writers, got, seeds, seeding, engine>>

\* The Config has been read: what it was does not matter from here on.
Forget == cfg' = DefaultConfig /\ given' = {} /\ UNCHANGED config

\* scrapemate.New is given the options, and Start goes on to launch the
\* goroutines of the errgroup.
GetCacher ==
    /\ app = "cacher"
    /\ cacher' = IF cfg.CacheType = "" THEN "none" ELSE "open"
    /\ exitOnInactivity' = cfg.ExitOnInactivity
    /\ app' = "run"
    /\ writers' = [x \in Writer |-> "run"]
    /\ seeding' = "run"
    /\ engine' = "run"
    /\ Forget
    /\ UNCHANGED <<ctx, memVars, cause, main, initq, workerVars, watchdog,
                   statVars, writer, histVars, crashed>>
    /\ UNCHANGED <<fetcher, got, seeds, group>>

GetCacherFails ==
    /\ app = "cacher"
    /\ cfg.CacheType # ""
    /\ app' = "returned"
    /\ group' = "error"
    /\ Forget
    /\ UNCHANGED <<vars, fetcher, cacher, writers, got, seeds, seeding, engine>>

(***************************************************************************)
(* The goroutines of the errgroup.                                         *)
(***************************************************************************)
\* cancel(err) by the goroutine itself or by the errgroup for it.
FailGroup(cause_) == CancelWith(cause_) /\ group' = "error"

engineVarsButCtx ==
    <<memVars, main, initq, workerVars, watchdog, statVars, histVars,
      exitOnInactivity, crashed>>

Receiving(x) == writers[x] = "run"

\* writer.Run receives a result, the send of a worker.
Receive(x, w) ==
    /\ app = "run" /\ Receiving(x)
    /\ SendResult(w)
    /\ got' = [got EXCEPT ![x] = @ \cup {job[w]}]
    /\ UNCHANGED <<app, buildVars, writers, seeds, seeding, engine, group>>

\* A writer cannot encode or write a result and returns; nobody receives any
\* more when it was the last one.
WriterErr(x) ==
    /\ WriterMayFail
    /\ app = "run" /\ Receiving(x) /\ got[x] # {}
    /\ writers' = [writers EXCEPT ![x] = "failed"]
    /\ writer' = IF \E y \in Writer \ {x} : Receiving(y) THEN "run" ELSE "stopped"
    /\ FailGroup("writer")
    /\ UNCHANGED <<engineVarsButCtx, app, buildVars, got, seeds, seeding, engine>>

\* Mutant of WriterEnds: the error of the last flush is not returned.
WriterEnds_NoError(x) ==
    /\ app = "run" /\ Receiving(x)
    /\ main = "returned"
    /\ \E end \in {"ended"} \cup (IF WriterMayFail THEN {"failed"} ELSE {}) :
         writers' = [writers EXCEPT ![x] = end]
    /\ UNCHANGED <<vars, app, buildVars, got, seeds, seeding, engine, group>>

\* The results channel is closed: the loop ends, and Run returns the error of
\* its last flush, if there was one.
WriterEnds(x) ==
    /\ app = "run" /\ Receiving(x)
    /\ main = "returned"
    /\ \/ /\ writers' = [writers EXCEPT ![x] = "ended"]
          /\ UNCHANGED <<vars, group>>
       \/ /\ WriterMayFail
          /\ writers' = [writers EXCEPT ![x] = "failed"]
          /\ FailGroup("writer")
          /\ UNCHANGED <<engineVarsButCtx, writer>>
    /\ UNCHANGED <<app, buildVars, got, seeds, seeding, engine>>

PushNextSeed ==
    /\ seeding = "run" /\ seeds # <<>>
    /\ PushSeed(Head(seeds))
    /\ seeds' = Tail(seeds)
    /\ UNCHANGED <<app, buildVars, writers, got, seeding, engine, group>>

SeedsPushed ==
    /\ seeding = "run" /\ seeds = <<>>
    /\ seeding' = "ended"
    /\ UNCHANGED <<vars, app, buildVars, writers, got, seeds, engine, group>>

PushSeedFails ==
    /\ PushMayFail
    /\ seeding = "run" /\ seeds # <<>>
    /\ seeding' = "ended"
    /\ FailGroup("seed")
    /\ UNCHANGED <<engineVarsButCtx, writer, app, buildVars, writers, got, seeds,
                   engine>>

\* mate.Start returns the error that ended an init job or the cause of the
\* cancellation, but nil after an exit because of inactivity (ScrapeMate.Err).
EngineReturns ==
    /\ engine = "run"
    /\ main = "returned"
    /\ engine' = "ended"
    /\ IF cause = "inactivity" THEN UNCHANGED <<ctx, cause, group>>
       ELSE FailGroup("engine")
    /\ UNCHANGED <<engineVarsButCtx, writer, app, buildVars, writers, got, seeds,
                   seeding>>

(***************************************************************************)
(* g.Wait, then the deferred mate.Close and app.Close, and cancel.         *)
(***************************************************************************)
Ended ==
    /\ engine = "ended" /\ seeding = "ended"
    /\ \A x \in Writer : writers[x] \in {"ended", "failed"}

\* Mutant of WaitReturns: the first error ends the waiting.
WaitReturns_FirstError ==
    /\ app = "run"
    /\ Ended \/ group = "error"
    /\ app' = "closing"
    /\ UNCHANGED <<vars, buildVars, groupVars>>

WaitReturns ==
    /\ app = "run"
    /\ Ended
    /\ app' = "closing"
    /\ UNCHANGED <<vars, buildVars, groupVars>>

CloseMate ==
    /\ app = "closing"
    /\ fetcher' = "closed"
    /\ app' = "closed"
    /\ UNCHANGED <<vars, configVars, cacher, groupVars>>

CloseApp ==
    /\ app = "closed"
    /\ cacher' = IF cacher = "open" THEN "closed" ELSE cacher
    /\ CancelWith("closing")
    /\ app' = "returned"
    /\ UNCHANGED <<engineVarsButCtx, writer, configVars, fetcher, groupVars>>

(***************************************************************************)
(* The engine's own steps.  Its goroutines exist once Start has launched   *)
(* it; pushers, pumps and the clock are there until the process ends.      *)
(***************************************************************************)
EngineStep ==
    /\ engine = "run"
    /\ \/ MainStep
       \/ WatchdogStep
       \/ \E w \in Worker : WorkerAlone(w)
       \/ TimePasses
       \/ \E c \in Causes : CancelledFromOutside(c)
    /\ UNCHANGED appVars

BackgroundStep == ProviderStep /\ UNCHANGED appVars

WriterStep(x) ==
    \/ \E w \in Worker : Receive(x, w)
    \/ WriterErr(x) \/ WriterEnds(x)

SeedStep == PushNextSeed \/ SeedsPushed \/ PushSeedFails

StartStep ==
    \/ BuildConfig \/ GetFetcher \/ GetCacher \/ GetCacherFails
    \/ EngineReturns \/ WaitReturns \/ CloseMate \/ CloseApp

AppNext ==
    /\ ~crashed
    /\ \/ StartStep
       \/ \E x \in Writer : WriterStep(x)
       \/ SeedStep
       \/ EngineStep
       \/ BackgroundStep

AppSpec == AppInit /\ [][AppNext]_allVars

(***************************************************************************)
(* Fairness.  Every goroutine runs, timers fire, time passes; DoJob ends.  *)
(* The select of a worker chooses at random among its ready cases, so a    *)
(* done context is eventually chosen even if the error channel is refilled *)
(* each time (strong fairness of WorkerDone).  Neither the failure of a    *)
(* writer nor a cancellation has to happen.                                *)
(***************************************************************************)
Run(A) == ~crashed /\ A

RunEngine(A) == Run(engine = "run" /\ A /\ UNCHANGED appVars)

RunWorker(w) ==
    \/ RunEngine(WorkerAlone(w))
    \/ Run(\E x \in Writer : Receive(x, w))

AppFairness ==
    /\ WF_allVars(RunEngine(MainStep))
    /\ WF_allVars(RunEngine(WatchdogStep))
    /\ \A w \in Worker :
         /\ WF_allVars(RunWorker(w))
         /\ SF_allVars(RunEngine(WorkerDone(w)))
         /\ WF_allVars(Run(PumpRuns(w) /\ UNCHANGED appVars))
    /\ \A j \in Job : WF_allVars(Run(PusherRuns(j) /\ UNCHANGED appVars))
    /\ WF_allVars(RunEngine(TimePasses))
    /\ WF_allVars(Run(StartStep))
    /\ WF_allVars(Run(SeedStep))
    /\ \A x \in Writer : WF_allVars(Run(WriterEnds(x)))

AppFairSpec == AppSpec /\ AppFairness

-----------------------------------------------------------------------------
(***************************************************************************)
(* Properties.                                                             *)
(***************************************************************************)
\* The fetcher and the cache are closed after the last goroutine that could use
\* them, and both are closed when Start returns from a run.
ClosedAfterLastUse ==
    /\ fetcher = "closed" \/ cacher = "closed" =>
         main = "returned" /\ \A w \in Worker : worker[w] \in {"off", "exit"}
    /\ app = "returned" /\ engine = "ended" =>
         fetcher = "closed" /\ cacher # "open"

\* A nil error of Start means that the run ended because of inactivity and that
\* no result is lost: every seed was handed to the provider, no writer failed, and
\* the result of every job that succeeded has reached a writer.  Which one, and
\* whether the others get it as well, is left open: src/README.md:17 promises multiple
\* sinks, but the writers share one channel, and each result reaches one of them.
NilMeansNothingLost ==
    app = "returned" /\ group = "nil" =>
        /\ cause = "inactivity" /\ seeds = <<>>
        /\ \A x \in Writer : writers[x] = "ended"
        /\ \A j \in Emit \cap succeeded : \E x \in Writer : j \in got[x]

\* Once the context is done, or an init job has ended the engine, Start
\* returns, unless every writer has failed: then nobody receives the results
\* that the workers hold.
ReturnsWhenCancelled ==
    Done \/ main = "returned" ~> app = "returned" \/ writer = "stopped" \/ crashed

\* With exitOnInactivity Start returns by itself, under the same condition.
ReturnsByItself ==
    exitOnInactivity ~> app = "returned" \/ writer = "stopped" \/ crashed

\* A job that is pushed is eventually run, unless the scraper stops first.
PushedJobsAreRun ==
    \A j \in Job :
        pusher[j] = "started" ~> ended[j] = 1 \/ Done \/ main = "returned"
=============================================================================
