------------------------- MODULE ScrapemateApp_proofs -------------------------
(***************************************************************************)
(* Proofs about ScrapemateApp, for any jobs, workers, writers and options. *)
(*                                                                         *)
(* To the engine every step of the application is a step of its own or one *)
(* of its environment (Outside), so that the invariant of the engine holds *)
(* here.  What is added relates the stages of Start to the goroutines of   *)
(* the errgroup and what the writers received to what the workers sent.    *)
(***************************************************************************)
EXTENDS ScrapemateApp, ScrapeMate_proofs

-----------------------------------------------------------------------------
(***************************************************************************)
(* The configuration.  Every rule reads one field, or the two that         *)
(* WithCache sets together, so that what an option leaves in a valid       *)
(* Config is valid if it is in the default one.  While options are applied *)
(* the Config stays valid (StaysValid): that is what makes the order       *)
(* irrelevant.                                                             *)
(***************************************************************************)
StaysValid ==
    /\ config = "building" /\ Writer # {} => Valid(cfg)
    /\ config = "accepted" => Writer # {}
    /\ config \in {"building", "accepted"} /\ Writer # {} => \A o \in given : ValidAlone(o)

\* A Config whose builder is done with is valid until the application forgets it.
AcceptedValid == config = "accepted" => Valid(cfg)

ConfigIInv == ConfigTypeOK /\ StaysValid /\ AcceptedValid /\ OrderDoesNotMatter

LEMMA Fields ==
    /\ Field = {"Concurrency", "BrowserPoolSize", "MaxPagesPerBrowser", "CacheType",
                "CachePath", "UseJS", "ExitOnInactivity"}
    /\ TypesOK(DefaultConfig)
    /\ Writer # {} => Valid(DefaultConfig)
<1>1. Field = {"Concurrency", "BrowserPoolSize", "MaxPagesPerBrowser", "CacheType",
                "CachePath", "UseJS", "ExitOnInactivity"}
  BY DEF Field, DefaultConfig
<1>2. TypesOK(DefaultConfig)
  <2>1. \A f \in {"Concurrency", "BrowserPoolSize", "MaxPagesPerBrowser"} :
          DefaultConfig[f] \in Int
    <3>1. /\ DefaultConfig["Concurrency"] = 1 /\ DefaultConfig["BrowserPoolSize"] = 0
          /\ DefaultConfig["MaxPagesPerBrowser"] = 1
      BY DEF DefaultConfig
    <3> QED
      BY <3>1
  <2>2. DefaultConfig["UseJS"] \in BOOLEAN /\ DefaultConfig["ExitOnInactivity"] \in BOOLEAN
    <3>1. DefaultConfig["UseJS"] = FALSE /\ DefaultConfig["ExitOnInactivity"] = FALSE
      BY DEF DefaultConfig
    <3> QED
      BY <3>1
  <2> QED
    BY <2>1, <2>2 DEF TypesOK
<1>3. Writer # {} => Valid(DefaultConfig)
  BY DEF Valid, DefaultConfig
<1> QED
  BY <1>1, <1>2, <1>3

\* An option leaves a valid Config valid exactly if it is valid by itself.
LEMMA ApplyValid ==
    ASSUME Writer # {}, NEW c, Valid(c), NEW o \in Option
    PROVE  Valid(Apply(c, o)) <=> ValidAlone(o)
<1>1. ASSUME NEW f \in Field
      PROVE  /\ Apply(c, o)[f] = IF f \in DOMAIN o THEN o[f] ELSE c[f]
             /\ Apply(DefaultConfig, o)[f] = IF f \in DOMAIN o THEN o[f] ELSE DefaultConfig[f]
  BY DEF Apply
<1>2. Valid(DefaultConfig)
  BY Fields
<1>3. "CacheType" \in DOMAIN o <=> "CachePath" \in DOMAIN o
  BY OptionsAssumption
<1> QED
  BY <1>1, <1>2, <1>3, Fields DEF Valid, ValidAlone

LEMMA ApplyTyped ==
    ASSUME NEW c, DOMAIN c = Field, TypesOK(c), NEW o \in Option
    PROVE  DOMAIN Apply(c, o) = Field /\ TypesOK(Apply(c, o))
<1>1. DOMAIN Apply(c, o) = Field
  BY DEF Apply
<1>2. ASSUME NEW f \in Field
      PROVE  Apply(c, o)[f] = IF f \in DOMAIN o THEN o[f] ELSE c[f]
  BY DEF Apply
<1>3. TypesOK(o)
  BY OptionsAssumption
<1> QED
  BY <1>1, <1>2, <1>3, Fields DEF TypesOK

\* An option that does not validate breaks no rule.
LEMMA NotValidated ==
    ASSUME NEW o \in Option, ~Validates(o), NEW c, Valid(c)
    PROVE  Valid(Apply(c, o))
<1>1. DOMAIN o = {"ExitOnInactivity"}
  BY DEF Validates
<1>2. ASSUME NEW f \in Field \ {"ExitOnInactivity"}
      PROVE  Apply(c, o)[f] = c[f]
  BY <1>1, <1>2 DEF Apply
<1> QED
  BY <1>2, Fields DEF Valid

LEMMA ConfigInitHolds == ConfigInit => ConfigIInv
<1>1. DOMAIN DefaultConfig = Field
  BY DEF Field
<1> QED
  BY <1>1, Fields DEF ConfigInit, ConfigIInv, ConfigTypeOK, StaysValid, AcceptedValid,
     OrderDoesNotMatter

LEMMA ConfigStep ==
    ASSUME ConfigIInv, ConfigNext
    PROVE  ConfigIInv'
<1> USE DEF ConfigIInv, ConfigTypeOK, StaysValid, AcceptedValid, OrderDoesNotMatter
<1>1. CASE NewConfigReturns
  <2>1. Valid(cfg) => Writer # {}
    BY DEF Valid
  <2> QED
    BY <1>1, <2>1 DEF NewConfigReturns
<1>2. ASSUME NEW o \in Option, ApplyOption(o) PROVE ConfigIInv'
  <2>1. /\ cfg' = Apply(cfg, o) /\ given' = given \cup {o} /\ config = "building"
        /\ config' \in {"building", "rejected"}
        /\ config' = "rejected" <=> Validates(o) /\ ~Valid(cfg')
    BY <1>2 DEF ApplyOption
  <2>2. ConfigTypeOK'
    BY <2>1, ApplyTyped
  <2>3. Writer # {} => (Valid(cfg') <=> ValidAlone(o))
    BY <2>1, ApplyValid
  <2>4. Writer # {} /\ ~Validates(o) => Valid(cfg')
    BY <2>1, NotValidated
  <2> QED
    BY <2>1, <2>2, <2>3, <2>4
<1> QED
  BY <1>1, <1>2 DEF ConfigNext

\* The quotient that is rounded up.
LEMMA RoundedUp ==
    ASSUME NEW c \in Int, NEW m \in Int, c >= 1, m >= 1
    PROVE  LET size == (c + m - 1) \div m IN
             size * m >= c /\ (size - 1) * m < c
  OBVIOUS

\* Until the application has read the Config it may also be set back.
LEMMA ConfigForgotten ==
    ASSUME ConfigIInv, config # "rejected",
           cfg' = DefaultConfig, given' = {}, UNCHANGED config
    PROVE  ConfigIInv'
<1>1. DOMAIN DefaultConfig = Field
  BY DEF Field
<1> QED
  BY <1>1, Fields DEF ConfigIInv, ConfigTypeOK, StaysValid, AcceptedValid,
     OrderDoesNotMatter

LEMMA ConfigStutters == ConfigIInv /\ UNCHANGED configVars => ConfigIInv'
  BY DEF configVars, ConfigIInv, ConfigTypeOK, StaysValid, AcceptedValid,
         OrderDoesNotMatter

LEMMA PagesEnough == ConfigIInv => PageForEveryWorker
<1> SUFFICES ASSUME ConfigIInv, config = "accepted", cfg.BrowserPoolSize = 0
             PROVE  LET size == DerivedBrowserPoolSize(cfg) IN
                      /\ size * cfg.MaxPagesPerBrowser >= cfg.Concurrency
                      /\ (size - 1) * cfg.MaxPagesPerBrowser < cfg.Concurrency
  BY DEF PageForEveryWorker
<1>1. /\ cfg.Concurrency \in Int /\ cfg.Concurrency >= 1
      /\ cfg.MaxPagesPerBrowser \in Int /\ cfg.MaxPagesPerBrowser >= 1
  BY Fields DEF ConfigIInv, ConfigTypeOK, TypesOK, AcceptedValid, Valid
<1>2. DerivedBrowserPoolSize(cfg)
        = (cfg.Concurrency + cfg.MaxPagesPerBrowser - 1) \div cfg.MaxPagesPerBrowser
  BY DEF DerivedBrowserPoolSize
<1> QED
  BY <1>1, <1>2, RoundedUp

\* The inductive invariant: the Config is valid while options are applied.
THEOREM ConfigInvariance == ConfigSpec => []ConfigIInv
<1>1. ConfigIInv /\ [ConfigNext]_configVars => ConfigIInv'
  BY ConfigStutters, ConfigStep
<1> QED
  BY ConfigInitHolds, <1>1, PTL DEF ConfigSpec

\* For any set of options, whether NewConfig accepts them does not depend on the
\* order in which they are given.
THEOREM OrderDoesNotMatterAlways == ConfigSpec => []OrderDoesNotMatter
<1>1. ConfigIInv => OrderDoesNotMatter
  BY DEF ConfigIInv
<1> QED
  BY ConfigInvariance, <1>1, PTL

\* Whatever sizes the options ask for, the pages of a pool whose size is derived
\* are enough for all workers, and those of one browser less are not.
THEOREM PageForEveryWorkerAlways == ConfigSpec => []PageForEveryWorker
  BY ConfigInvariance, PagesEnough, PTL

-----------------------------------------------------------------------------
(***************************************************************************)
(* The application.                                                        *)
(***************************************************************************)
AppTyped ==
    /\ app \in {"fetcher", "cacher", "run", "closing", "closed", "returned"}
    /\ fetcher \in {"none", "open", "closed"}
    /\ cacher \in {"none", "open", "closed"}
    /\ writers \in [Writer -> {"off", "run", "ended", "failed"}]
    /\ got \in [Writer -> SUBSET Job]
    /\ seeds \in Seq(Seed)
    /\ {seeding, engine} \subseteq {"off", "run", "ended"}
    /\ group \in {"nil", "error"}

\* Where Start is, against what is open and which goroutines have returned.
Stages ==
    /\ app \in {"fetcher", "cacher"} =>
         engine = "off" /\ cacher = "none" /\ fetcher # "closed"
    /\ app = "cacher" => config = "accepted"
    /\ app = "run" => cacher # "closed" /\ fetcher # "closed"
    /\ app \in {"closing", "closed"} => Ended
    /\ app = "closed" => fetcher = "closed"
    /\ app = "returned" =>
         \/ engine = "off" /\ cacher # "closed" /\ fetcher # "closed" /\ group = "error"
         \/ Ended /\ fetcher = "closed" /\ cacher # "open"
    /\ fetcher = "closed" \/ cacher = "closed" => engine = "ended"
    /\ engine = "ended" => main = "returned"

\* Whoever returns an error leaves it in the group; the first cause stays.
ErrorsKept ==
    /\ cause # "none" => Done
    /\ engine = "ended" /\ group = "nil" => cause = "inactivity"
    /\ seeding = "ended" /\ group = "nil" => seeds = <<>>
    /\ \A x \in Writer : writers[x] = "failed" => group = "error"

\* Each result that was received was received by one writer.
GotCounted == \A j \in Job : Cardinality({x \in Writer : j \in got[x]}) = received[j]

AppIInv ==
    /\ IInv /\ ConfigIInv /\ AppTyped
    /\ Stages /\ ErrorsKept /\ GotCounted

-----------------------------------------------------------------------------
LEMMA AppInitHolds == AppInit => AppIInv
<1> SUFFICES ASSUME AppInit PROVE AppIInv
  OBVIOUS
<1>1. IInv /\ ConfigIInv
  BY InitHolds, ConfigInitHolds DEF AppInit
<1>2. AppTyped
  BY AppAssumption DEF AppInit, AppTyped
<1>3. Stages
  BY DEF AppInit, Stages
<1>4. ErrorsKept
  BY DEF AppInit, Init, ErrorsKept
<1>5. GotCounted
  <2> SUFFICES ASSUME NEW j \in Job
               PROVE  Cardinality({x \in Writer : j \in got[x]}) = received[j]
    BY DEF GotCounted
  <2>1. {x \in Writer : j \in got[x]} = {} /\ received[j] = 0
    BY DEF AppInit, Init
  <2> QED
    BY <2>1, FS_EmptySet
<1> QED
  BY <1>1, <1>2, <1>3, <1>4, <1>5 DEF AppIInv

\* To the engine it is a step, perhaps of its environment.
LEMMA AppIsStep ==
    ASSUME Typed, ConfigIInv, AppTyped, AppNext
    PROVE  Step
<1>0. UNCHANGED vars => Outside
  BY DEF vars, memVars, workerVars, statVars, histVars, engineRest,
     engineVarsButCtx, appVars, buildVars, groupVars, configVars, Typed, Outside
<1> USE DEF Step
<1>1. CASE BuildConfig
  BY <1>1, <1>0 DEF BuildConfig
<1>2. CASE GetFetcher
  BY <1>2, <1>0 DEF GetFetcher
<1>3. CASE GetCacher
  <2>1. cfg.ExitOnInactivity \in BOOLEAN
    BY Fields DEF ConfigIInv, ConfigTypeOK, TypesOK
  <2>2. exitOnInactivity' \in InactivityOptions
    BY <1>3, <2>1, AppAssumption DEF GetCacher
  <2> QED
    BY <1>3, <2>2 DEF GetCacher, Outside, Typed, vars, memVars, workerVars,
       statVars, histVars, engineRest, engineVarsButCtx, appVars, buildVars,
       groupVars, configVars
<1>4. CASE GetCacherFails
  BY <1>4, <1>0 DEF GetCacherFails
<1>5. ASSUME NEW x \in Writer, NEW w \in Worker, Receive(x, w) PROVE Step
  BY <1>5 DEF Receive
<1>6. ASSUME NEW x \in Writer, WriterErr(x) PROVE Step
  BY <1>6 DEF WriterErr, Outside, FailGroup, Typed, Cause, vars, memVars,
     workerVars, statVars, histVars, engineRest, engineVarsButCtx, appVars,
     buildVars, groupVars, configVars
<1>7. ASSUME NEW x \in Writer, WriterEnds(x) PROVE Step
  BY <1>7, <1>0 DEF WriterEnds, Outside, FailGroup, Typed, Cause, vars, memVars,
     workerVars, statVars, histVars, engineRest, engineVarsButCtx, appVars,
     buildVars, groupVars, configVars
<1>8. CASE PushNextSeed
  <2>1. Head(seeds) \in Job
    BY <1>8, TreeAssumption DEF PushNextSeed, AppTyped
  <2> QED
    BY <1>8, <2>1 DEF PushNextSeed
<1>9. CASE SeedsPushed
  BY <1>9, <1>0 DEF SeedsPushed
<1>10. CASE PushSeedFails
  BY <1>10 DEF PushSeedFails, Outside, FailGroup, Typed, Cause, vars, memVars,
     workerVars, statVars, histVars, engineRest, engineVarsButCtx, appVars,
     buildVars, groupVars, configVars
<1>11. CASE EngineReturns
  BY <1>11 DEF EngineReturns, Outside, FailGroup, Typed, Cause, vars, memVars,
     workerVars, statVars, histVars, engineRest, engineVarsButCtx, appVars,
     buildVars, groupVars, configVars
<1>12. CASE WaitReturns
  BY <1>12, <1>0 DEF WaitReturns
<1>13. CASE CloseMate
  BY <1>13, <1>0 DEF CloseMate
<1>14. CASE CloseApp
  BY <1>14 DEF CloseApp, Outside, FailGroup, Typed, Cause, vars, memVars,
     workerVars, statVars, histVars, engineRest, engineVarsButCtx, appVars,
     buildVars, groupVars, configVars
<1>15. CASE EngineStep
  BY <1>15, IsStep DEF EngineStep, WorkerStep
<1>16. CASE BackgroundStep
  BY <1>16, IsStep DEF BackgroundStep
<1> QED
  BY <1>1, <1>2, <1>3, <1>4, <1>5, <1>6, <1>7, <1>8, <1>9, <1>10, <1>11,
     <1>12, <1>13, <1>14, <1>15, <1>16 DEF AppNext, StartStep, WriterStep,
     SeedStep

LEMMA AppTypedStep ==
    ASSUME AppIInv, AppNext
    PROVE  AppTyped'
<1> USE DEF AppIInv, AppTyped, vars, memVars, workerVars, statVars, histVars,
    engineRest, engineVarsButCtx, appVars, buildVars, groupVars, configVars
<1>1. CASE BuildConfig
  BY <1>1 DEF BuildConfig
<1>2. CASE GetFetcher
  BY <1>2 DEF GetFetcher
<1>3. CASE GetCacher
  BY <1>3 DEF GetCacher
<1>4. CASE GetCacherFails
  BY <1>4 DEF GetCacherFails
<1>5. ASSUME NEW x \in Writer, NEW w \in Worker, Receive(x, w) PROVE AppTyped'
  <2>1. job[w] \in Job
    BY <1>5 DEF Receive, SendResult, IInv, ResultsCounted, HasJob, Busy, AppNext
  <2> QED
    BY <1>5, <2>1 DEF Receive
<1>6. ASSUME NEW x \in Writer, WriterErr(x) PROVE AppTyped'
  BY <1>6 DEF WriterErr, FailGroup
<1>7. ASSUME NEW x \in Writer, WriterEnds(x) PROVE AppTyped'
  BY <1>7 DEF WriterEnds, FailGroup
<1>8. CASE PushNextSeed
  BY <1>8 DEF PushNextSeed
<1>9. CASE SeedsPushed
  BY <1>9 DEF SeedsPushed
<1>10. CASE PushSeedFails
  BY <1>10 DEF PushSeedFails, FailGroup
<1>11. CASE EngineReturns
  BY <1>11 DEF EngineReturns, FailGroup
<1>12. CASE WaitReturns
  BY <1>12 DEF WaitReturns
<1>13. CASE CloseMate
  BY <1>13 DEF CloseMate
<1>14. CASE CloseApp
  BY <1>14 DEF CloseApp
<1>15. CASE EngineStep
  BY <1>15 DEF EngineStep
<1>16. CASE BackgroundStep
  BY <1>16 DEF BackgroundStep
<1> QED
  BY <1>1, <1>2, <1>3, <1>4, <1>5, <1>6, <1>7, <1>8, <1>9, <1>10, <1>11,
     <1>12, <1>13, <1>14, <1>15, <1>16 DEF AppNext, StartStep, WriterStep,
     SeedStep

LEMMA StagesStep ==
    ASSUME AppIInv, AppNext
    PROVE  Stages'
<1> USE DEF AppIInv, AppTyped, Stages, Ended, vars, memVars, workerVars,
    statVars, histVars, engineRest, engineVarsButCtx, appVars, buildVars,
    groupVars, configVars
<1>1. CASE BuildConfig
  BY <1>1 DEF BuildConfig, ConfigNext, ApplyOption, NewConfigReturns
<1>2. CASE GetFetcher
  BY <1>2 DEF GetFetcher, Startable
<1>3. CASE GetCacher
  BY <1>3 DEF GetCacher, Forget
<1>4. CASE GetCacherFails
  BY <1>4 DEF GetCacherFails, Forget
<1>5. ASSUME NEW x \in Writer, NEW w \in Worker, Receive(x, w) PROVE Stages'
  BY <1>5 DEF Receive, SendResult
<1>6. ASSUME NEW x \in Writer, WriterErr(x) PROVE Stages'
  BY <1>6 DEF WriterErr, Receiving, FailGroup
<1>7. ASSUME NEW x \in Writer, WriterEnds(x) PROVE Stages'
  BY <1>7 DEF WriterEnds, Receiving, FailGroup
<1>8. CASE PushNextSeed
  BY <1>8 DEF PushNextSeed, PushSeed
<1>9. CASE SeedsPushed
  BY <1>9 DEF SeedsPushed
<1>10. CASE PushSeedFails
  BY <1>10 DEF PushSeedFails, FailGroup
<1>11. CASE EngineReturns
  BY <1>11 DEF EngineReturns, FailGroup
<1>12. CASE WaitReturns
  BY <1>12 DEF WaitReturns
<1>13. CASE CloseMate
  BY <1>13 DEF CloseMate
<1>14. CASE CloseApp
  BY <1>14 DEF CloseApp
<1>15. CASE EngineStep
  BY <1>15 DEF EngineStep
<1>16. CASE BackgroundStep
  BY <1>16 DEF BackgroundStep, ProviderStep, PusherRuns, PumpRuns
<1> QED
  BY <1>1, <1>2, <1>3, <1>4, <1>5, <1>6, <1>7, <1>8, <1>9, <1>10, <1>11,
     <1>12, <1>13, <1>14, <1>15, <1>16 DEF AppNext, StartStep, WriterStep,
     SeedStep

\* The context and the cause change together.
LEMMA CauseEffect ==
    ASSUME AppIInv, AppNext
    PROVE  UNCHANGED <<ctx, cause>> \/ (~Done /\ Done' /\ cause' # "none")
<1> DEFINE Goal == UNCHANGED <<ctx, cause>> \/ (~Done /\ Done' /\ cause' # "none")
<1>0. MemP!Typed /\ Typed
  BY DEF AppIInv, IInv, MemP!IInv
<1>1. ASSUME NEW c \in Cause \ {"none"}, CancelWith(c) PROVE Goal
  BY <1>1 DEF CancelWith, Done
<1>2. Step
  BY AppIsStep DEF AppIInv, IInv
<1>3. CASE Outside
  BY <1>1, <1>3 DEF Outside
<1>4. CASE WatchdogFires
  BY <1>1, <1>4 DEF WatchdogFires, Cause
<1>5. CASE \/ InitJobStarts \/ InitJobReturns \/ InitJobFails
           \/ SpawnWorkers \/ StartReturns \/ WatchdogDone \/ TimePasses
  BY <1>5 DEF InitJobStarts, InitJobReturns, InitJobFails, SpawnWorkers,
     StartReturns, WatchdogDone, TimePasses
<1>6. ASSUME NEW w \in Worker,
             CallJobs(w) \/ WorkerErr(w) \/ PumpRuns(w)
      PROVE  Goal
  BY <1>0, <1>6, BackgroundEffect DEF CallJobs, WorkerErr, PumpRuns, engineRest
<1>7. ASSUME NEW w \in Worker,
             \/ WorkerDone(w) \/ DoJobFails(w) \/ DoJobReturns(w)
             \/ PushChildFails(w) \/ AllPushed(w)
             \/ FailedSentOrDropped(w) \/ SendResult(w)
      PROVE  Goal
  BY <1>7 DEF WorkerDone, DoJobFails, DoJobReturns, PushChildFails, AllPushed,
     FailedSentOrDropped, SendResult, engineRest
<1>8. ASSUME NEW w \in Worker, TakeJob(w) PROVE Goal
  BY <1>8, DeliverEffect DEF TakeJob, engineRest
<1>9. ASSUME NEW w \in Worker, PushChild(w) PROVE Goal
  <2>1. Head(todo[w]) \in Job
    BY <1>0, <1>9 DEF PushChild, Typed
  <2> QED
    BY <1>0, <1>9, <2>1, PushEffect DEF PushChild, engineRest
<1>10. ASSUME NEW j \in Job, PusherRuns(j) \/ PushSeed(j) PROVE Goal
  BY <1>0, <1>10, BackgroundEffect, PushEffect DEF PusherRuns, PushSeed, engineRest
<1> QED
  BY <1>2, <1>3, <1>4, <1>5, <1>6, <1>7, <1>8, <1>9, <1>10 DEF Step

LEMMA ErrorsKeptStep ==
    ASSUME AppIInv, AppNext
    PROVE  ErrorsKept'
<1>1. /\ cause' # "none" => Done'
      /\ cause = "inactivity" => cause' = "inactivity"
  BY CauseEffect DEF AppIInv, ErrorsKept, Done
<1> DEFINE Rest == /\ engine' = "ended" /\ group' = "nil" => cause' = "inactivity"
                   /\ seeding' = "ended" /\ group' = "nil" => seeds' = <<>>
                   /\ \A x \in Writer : writers'[x] = "failed" => group' = "error"
<1>2. Rest
  <2> USE DEF AppIInv, AppTyped, ErrorsKept, Ended, FailGroup, vars, memVars,
      workerVars, statVars, histVars, engineRest, engineVarsButCtx, appVars,
      buildVars, groupVars, configVars
  <2>1. CASE BuildConfig
    BY <2>1, <2>1 DEF BuildConfig
  <2>2. CASE GetFetcher
    BY <2>2, <1>1 DEF GetFetcher
  <2>3. CASE GetCacher
    BY <2>3, <1>1 DEF GetCacher
  <2>4. CASE GetCacherFails
    BY <2>4, <1>1 DEF GetCacherFails
  <2>5. ASSUME NEW x \in Writer, NEW w \in Worker, Receive(x, w) PROVE Rest
    BY <2>5, <1>1 DEF Receive
  <2>6. ASSUME NEW x \in Writer, WriterErr(x) PROVE Rest
    BY <2>6, <1>1 DEF WriterErr
  <2>7. ASSUME NEW x \in Writer, WriterEnds(x) PROVE Rest
    BY <2>7, <1>1 DEF WriterEnds
  <2>8. CASE PushNextSeed
    BY <2>8, <1>1 DEF PushNextSeed
  <2>9. CASE SeedsPushed
    BY <2>9, <1>1 DEF SeedsPushed
  <2>10. CASE PushSeedFails
    BY <2>10, <1>1 DEF PushSeedFails
  <2>11. CASE EngineReturns
    BY <2>11, <1>1 DEF EngineReturns
  <2>12. CASE WaitReturns
    BY <2>12, <1>1 DEF WaitReturns
  <2>13. CASE CloseMate
    BY <2>13, <1>1 DEF CloseMate
  <2>14. CASE CloseApp
    BY <2>14, <1>1 DEF CloseApp
  <2>15. CASE EngineStep
    BY <2>15, <1>1 DEF EngineStep
  <2>16. CASE BackgroundStep
    BY <2>16, <1>1 DEF BackgroundStep
  <2> QED
    BY <2>1, <2>2, <2>3, <2>4, <2>5, <2>6, <2>7, <2>8, <2>9, <2>10, <2>11,
       <2>12, <2>13, <2>14, <2>15, <2>16 DEF AppNext, StartStep, WriterStep,
       SeedStep
<1> QED
  BY <1>1, <1>2 DEF ErrorsKept

\* Only a writer receives results.
LEMMA ReceivedEffect ==
    ASSUME AppIInv, AppNext
    PROVE  \/ UNCHANGED <<received, got>>
           \/ \E x \in Writer, w \in Worker : Receive(x, w)
<1> DEFINE Goal == \/ UNCHANGED <<received, got>>
                   \/ \E x \in Writer, w \in Worker : Receive(x, w)
<1>0. /\ WatchdogStep => UNCHANGED received
      /\ MainStep => UNCHANGED received
  BY DEF WatchdogStep, WatchdogDone, WatchdogFires, MainStep, InitJobStarts,
     InitJobStops, InitJobReturns, InitJobFails, SpawnWorkers, StartReturns,
     histVars
<1>alone. ASSUME NEW v \in Worker, WorkerAlone(v) PROVE UNCHANGED received
  BY <1>alone DEF WorkerAlone, CallJobs, WorkerDone, WorkerErr, TakeJob,
     PolicyStops,
     DoJobFails, DoJobReturns, PushChild, PushChildFails, AllPushed,
     FailedSentOrDropped, EndJob, PushToFailed, histVars
<1> USE DEF vars, memVars, workerVars, statVars, histVars, engineRest,
    engineVarsButCtx, appVars, buildVars, groupVars, configVars
<1>1. CASE BuildConfig
  BY <1>1 DEF BuildConfig
<1>2. CASE GetFetcher
  BY <1>2 DEF GetFetcher
<1>3. CASE GetCacher
  BY <1>3 DEF GetCacher
<1>4. CASE GetCacherFails
  BY <1>4 DEF GetCacherFails
<1>5. ASSUME NEW x \in Writer, NEW w \in Worker, Receive(x, w) PROVE Goal
  BY <1>5
<1>6. ASSUME NEW x \in Writer, WriterErr(x) PROVE Goal
  BY <1>6 DEF WriterErr
<1>7. ASSUME NEW x \in Writer, WriterEnds(x) PROVE Goal
  BY <1>7 DEF WriterEnds
<1>8. CASE PushNextSeed
  BY <1>8 DEF PushNextSeed, PushSeed
<1>9. CASE SeedsPushed
  BY <1>9 DEF SeedsPushed
<1>10. CASE PushSeedFails
  BY <1>10 DEF PushSeedFails
<1>11. CASE EngineReturns
  BY <1>11 DEF EngineReturns
<1>12. CASE WaitReturns
  BY <1>12 DEF WaitReturns
<1>13. CASE CloseMate
  BY <1>13 DEF CloseMate
<1>14. CASE CloseApp
  BY <1>14 DEF CloseApp
<1>15. CASE EngineStep
  BY <1>15, <1>0, <1>alone DEF EngineStep, TimePasses, CancelledFromOutside
<1>16. CASE BackgroundStep
  BY <1>16 DEF BackgroundStep, ProviderStep, PusherRuns, PumpRuns
<1> QED
  BY <1>1, <1>2, <1>3, <1>4, <1>5, <1>6, <1>7, <1>8, <1>9, <1>10, <1>11,
     <1>12, <1>13, <1>14, <1>15, <1>16 DEF AppNext, StartStep, WriterStep,
     SeedStep

LEMMA GotCountedStep ==
    ASSUME AppIInv, AppNext
    PROVE  GotCounted'
<1> SUFFICES ASSUME NEW j \in Job
             PROVE  Cardinality({y \in Writer : j \in got'[y]}) = received'[j]
  BY DEF GotCounted
<1>1. Cardinality({y \in Writer : j \in got[y]}) = received[j]
  BY DEF AppIInv, GotCounted
<1>2. CASE UNCHANGED <<received, got>>
  BY <1>1, <1>2
<1>3. ASSUME NEW x \in Writer, NEW w \in Worker, Receive(x, w)
      PROVE  Cardinality({y \in Writer : j \in got'[y]}) = received'[j]
  <2>1. /\ job[w] \in Job /\ job[w] \in Emit
        /\ received \in [Job -> Nat] /\ got \in [Writer -> SUBSET Job]
    BY <1>3 DEF Receive, SendResult, AppNext, AppIInv, AppTyped, IInv, Typed,
       HasJob, Busy
  <2>2. received[job[w]] = 0
    <3>1. ended[job[w]] = 0
      BY <2>1, HeldNotEnded DEF AppIInv
    <3> QED
      BY <2>1, <3>1 DEF AppIInv, IInv, ResultsCounted
  <2>3. /\ received' = [received EXCEPT ![job[w]] = @ + 1]
        /\ got' = [got EXCEPT ![x] = @ \cup {job[w]}]
    BY <1>3 DEF Receive, SendResult
  <2>4. CASE j # job[w]
    <3>1. {y \in Writer : j \in got'[y]} = {y \in Writer : j \in got[y]}
      BY <2>1, <2>3, <2>4
    <3> QED
      BY <1>1, <2>1, <2>3, <2>4, <3>1
  <2>5. CASE j = job[w]
    <3>1. /\ IsFiniteSet({y \in Writer : j \in got[y]})
          /\ Cardinality({y \in Writer : j \in got[y]}) = 0
      BY <1>1, <2>2, <2>5, AppAssumption, FS_Subset
    <3>2. {y \in Writer : j \in got[y]} = {}
      BY <3>1, FS_EmptySet
    <3>3. {y \in Writer : j \in got'[y]} = {x}
      BY <2>1, <2>3, <2>5, <3>2
    <3>4. received'[j] = 1
      BY <2>1, <2>2, <2>3, <2>5
    <3>5. Cardinality({x}) = 1
      BY FS_Singleton
    <3> QED
      BY <3>3, <3>4, <3>5
  <2> QED
    BY <2>4, <2>5
<1> QED
  BY <1>2, <1>3, ReceivedEffect

LEMMA ConfigKept ==
    ASSUME AppIInv, AppNext
    PROVE  ConfigIInv'
<1>1. CASE BuildConfig
  BY <1>1, ConfigStep DEF BuildConfig, AppIInv
<1>2. CASE GetCacher \/ GetCacherFails
  BY <1>2, ConfigForgotten DEF GetCacher, GetCacherFails, Forget, AppIInv, Stages
<1>3. UNCHANGED configVars \/ BuildConfig \/ GetCacher \/ GetCacherFails
  BY DEF AppNext, StartStep, WriterStep, SeedStep, GetFetcher, Receive, WriterErr,
     WriterEnds, PushNextSeed, SeedsPushed, PushSeedFails, EngineReturns,
     WaitReturns, CloseMate, CloseApp, EngineStep, BackgroundStep, vars,
     memVars, workerVars, statVars, histVars, engineRest, engineVarsButCtx,
     appVars, buildVars, groupVars, configVars
<1> QED
  BY <1>1, <1>2, <1>3, ConfigStutters DEF AppIInv

LEMMA AppStutters == AppIInv /\ UNCHANGED allVars => AppIInv'
<1> SUFFICES ASSUME AppIInv, UNCHANGED allVars PROVE AppIInv'
  OBVIOUS
<1>1. UNCHANGED vars /\ UNCHANGED appVars /\ UNCHANGED configVars
  BY DEF allVars, appVars, buildVars
<1>2. IInv' /\ ConfigIInv'
  BY <1>1, IInvStutter, ConfigStutters DEF AppIInv
<1> QED
  BY <1>1, <1>2 DEF AppIInv, AppTyped, Stages, Ended, ErrorsKept, Done, GotCounted,
     vars, memVars, workerVars, statVars, histVars, engineRest,
     engineVarsButCtx, appVars, buildVars, groupVars, configVars

-----------------------------------------------------------------------------
\* The inductive invariant.
THEOREM AppInvariance == AppSpec => []AppIInv
<1>1. ASSUME AppIInv, AppNext PROVE AppIInv'
  <2>1. IInv'
    BY <1>1, AppIsStep, IInvStep DEF AppNext, AppIInv, IInv
  <2> QED
    BY <1>1, <2>1, ConfigKept, AppTypedStep, StagesStep, ErrorsKeptStep,
       GotCountedStep DEF AppIInv
<1>2. AppIInv /\ [AppNext]_allVars => AppIInv'
  BY <1>1, AppStutters
<1> QED
  BY AppInitHolds, <1>2, PTL DEF AppSpec

\* Every variable of the application and of the engine in it has its type.
THEOREM AppTypeCorrect == AppSpec => []AppTypeOK
<1>1. AppIInv => AppTypeOK
  BY IInvTypeOK DEF AppIInv, AppTyped, ConfigIInv, AppTypeOK
<1> QED
  BY AppInvariance, <1>1, PTL

\* In the application, too, each job that is pushed is in one place, no worker is
\* left to send on a closed channel, no result is lost or comes before the
\* children of its job, and nobody stops before the context is done.
THEOREM EngineInApp ==
    AppSpec => [](/\ JobAccounted /\ ClosedAfterLastSend /\ NoResultLost
                  /\ ResultAfterChildren /\ StaysWhileLive)
<1>1. IInv => /\ JobAccounted /\ ClosedAfterLastSend /\ NoResultLost
              /\ ResultAfterChildren /\ StaysWhileLive
  BY IInvAccounted DEF IInv, Typed, Phases, ClosedAfterLastSend, ResultsCounted,
     NoResultLost, ChildrenFirst
<1>2. AppIInv => IInv
  BY DEF AppIInv
<1> QED
  BY AppInvariance, <1>1, <1>2, PTL

\* The application leaves the jobs to the engine: seeds, writers and the stages of
\* Start around it change nothing of what Scraper promises.
THEOREM AppKeepsPromise == AppSpec => KeepsPromise
<1>1. AppIInv /\ AppNext => Promise!Next \/ UNCHANGED Promise!vars
  BY AppIsStep, PromiseStep DEF AppIInv, IInv, AppNext
<1>2. AppIInv /\ UNCHANGED allVars => UNCHANGED Promise!vars
  BY PromiseStutters DEF allVars
<1>3. AppIInv /\ [AppNext]_allVars => [Promise!Next]_(Promise!vars)
  BY <1>1, <1>2
<1>4. AppInit => Promise!Init
  BY PromiseInit DEF AppInit
<1> QED
  BY <1>3, <1>4, AppInvariance, PTL DEF AppSpec, KeepsPromise, Promise!Spec

\* Nor does it make the engine work on when its Start has returned.
THEOREM AppQuietAfterReturn ==
    AppSpec => [][main = "returned" =>
                    UNCHANGED <<main, workerVars, watchdog, completed, failed,
                                histVars>>]_allVars
<1>1. AppIInv /\ [AppNext]_allVars =>
        [main = "returned" =>
           UNCHANGED <<main, workerVars, watchdog, completed, failed, histVars>>]_allVars
  BY Quiet, AppIsStep DEF AppIInv, IInv, AppNext
<1> QED
  BY <1>1, AppInvariance, PTL DEF AppSpec

\* For any number of workers and writers, the fetcher and the cache are closed
\* after the last goroutine that could use them.
THEOREM ClosedAfterLastUseAlways == AppSpec => []ClosedAfterLastUse
<1>1. AppIInv => ClosedAfterLastUse
  BY DEF AppIInv, AppTyped, Stages, IInv, Phases, ClosedAfterLastUse
<1> QED
  BY AppInvariance, <1>1, PTL

\* For any number of writers, a nil error of Start means that no result is lost.
THEOREM NilMeansNothingLostAlways == AppSpec => []NilMeansNothingLost
<1>1. AppIInv => NilMeansNothingLost
  <2> SUFFICES ASSUME AppIInv, app = "returned", group = "nil"
               PROVE  /\ cause = "inactivity" /\ seeds = <<>>
                      /\ \A x \in Writer : writers[x] = "ended"
                      /\ \A j \in Emit \cap succeeded : \E x \in Writer : j \in got[x]
    BY DEF NilMeansNothingLost
  <2>1. Ended
    BY DEF AppIInv, Stages
  <2>2. \A x \in Writer : writers[x] = "ended"
    BY <2>1 DEF Ended, AppIInv, ErrorsKept
  <2>3. \A j \in Emit \cap succeeded : j \in Job /\ received[j] = 1
    BY TreeAssumption DEF AppIInv, IInv, ResultsCounted
  <2>4. \A j \in Emit \cap succeeded : \E x \in Writer : j \in got[x]
    <3> SUFFICES ASSUME NEW j \in Emit \cap succeeded,
                        {x \in Writer : j \in got[x]} = {}
                 PROVE  FALSE
      OBVIOUS
    <3>1. Cardinality({x \in Writer : j \in got[x]}) = 1
      BY <2>3 DEF AppIInv, GotCounted
    <3>2. Cardinality({x \in Writer : j \in got[x]}) = Cardinality({})
      OBVIOUS
    <3> QED
      BY <3>1, <3>2, FS_EmptySet
  <2> QED
    BY <2>1, <2>2, <2>4 DEF Ended, AppIInv, ErrorsKept
<1> QED
  BY AppInvariance, <1>1, PTL

\* In the application as by itself the configuration does not depend on the order
\* of the options, and the pages are enough for the workers.
THEOREM ConfigInApp == AppSpec => [](OrderDoesNotMatter /\ PageForEveryWorker)
<1>1. AppIInv => OrderDoesNotMatter /\ PageForEveryWorker
  BY PagesEnough DEF AppIInv, ConfigIInv
<1> QED
  BY AppInvariance, <1>1, PTL
=============================================================================
