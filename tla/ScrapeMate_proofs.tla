-------------------------- MODULE ScrapeMate_proofs --------------------------
(***************************************************************************)
(* Proofs about ScrapeMate, for any jobs, any number of workers and any    *)
(* options.                                                                *)
(*                                                                         *)
(* The engine uses the provider through its operations only, so that the   *)
(* inductive invariant of MemoryProvider_proofs holds in it; what is added *)
(* here relates what the workers do to what the provider delivered.        *)
(*                                                                         *)
(* The steps of the environment are widened to Outside, so that the same   *)
(* lemmas serve the application around the engine.                         *)
(***************************************************************************)
EXTENDS ScrapeMate, FiniteSetTheorems, TLAPS

MemP == INSTANCE MemoryProvider_proofs

Cause == {"none", "signal", "user", "deadline", "policy", "inactivity",
          "writer", "seed", "engine", "closing"}

\* The context is cancelled, the consumer stops, the option is set.
Outside ==
    /\ UNCHANGED <<ctx, cause>> \/ \E c \in Cause \ {"none"} : CancelWith(c)
    /\ writer' \in {"run", "stopped"}
    /\ exitOnInactivity' \in InactivityOptions
    /\ UNCHANGED <<memVars, main, initq, workerVars, watchdog, statVars,
                   histVars, crashed>>

Step ==
    \/ Outside
    \/ InitJobStarts \/ InitJobReturns \/ InitJobFails
    \/ SpawnWorkers \/ StartReturns
    \/ WatchdogDone \/ WatchdogFires
    \/ TimePasses
    \/ \E w \in Worker :
         \/ CallJobs(w) \/ WorkerDone(w) \/ WorkerErr(w) \/ TakeJob(w)
         \/ DoJobFails(w) \/ DoJobReturns(w)
         \/ PushChild(w) \/ PushChildFails(w) \/ AllPushed(w)
         \/ FailedSentOrDropped(w) \/ SendResult(w)
         \/ PumpRuns(w)
    \/ \E j \in Job : PusherRuns(j) \/ PushSeed(j)

-----------------------------------------------------------------------------
(***************************************************************************)
(* The inductive invariant.                                                *)
(***************************************************************************)
\* TypeOK, but for the provider and the counts that Accounted bounds.
Typed ==
    /\ cause \in Cause
    /\ exitOnInactivity \in InactivityOptions
    /\ main \in {"init", "initjob", "wait", "returned"}
    /\ initq \in Seq(Job)
    /\ worker \in [Worker -> {"off", "start", "select", "sleep", "do", "push",
                              "results", "fail", "exit"}]
    /\ job \in [Worker -> Job \cup {Nil}]
    /\ todo \in [Worker -> Seq(Job)]
    /\ watchdog \in {"off", "run", "exit"}
    /\ stale \in BOOLEAN /\ completed \in Nat /\ failed \in Nat
    /\ writer \in {"run", "stopped"}
    /\ received \in [Job -> Nat]
    /\ succeeded \subseteq Job
    /\ ended \in [Job -> Nat]
    /\ crashed \in BOOLEAN

\* Which states the goroutines can be in while Start is where it is.
Phases ==
    /\ main \in {"init", "initjob"} =>
         watchdog = "off" /\ \A w \in Worker : worker[w] = "off"
    /\ main = "initjob" => initq # <<>>
    /\ main = "returned" =>
         watchdog # "run" /\ \A w \in Worker : worker[w] \in {"off", "exit"}

\* A worker has a job exactly where the code has one in a local variable.
HasJob ==
    \A w \in Worker :
        /\ ~Busy(w) => job[w] = Nil
        /\ Busy(w) /\ ~crashed => job[w] \in Job
        /\ worker[w] = "results" => job[w] \in Emit

\* What the provider delivered is with a worker or finished with.
Accounted ==
    \A j \in Job : Cardinality({w \in Worker : job[w] = j}) + ended[j] = delivered[j]

\* A result is received with the step that makes its job succeed.
ResultsCounted ==
    \A j \in Job :
        /\ received[j] = (IF j \in succeeded /\ j \in Emit THEN 1 ELSE 0)
        /\ j \in succeeded => ended[j] # 0

\* The children that pushJobs has dealt with are those before todo.
Pushed(j) == pusher[j] # "none"
ChildrenPushed(j) == \A i \in DOMAIN Children[j] : Pushed(Children[j][i])
PushedUpTo(j, rest) ==
    /\ Len(rest) <= Len(Children[j])
    /\ \A i \in DOMAIN Children[j] :
         IF i <= Len(Children[j]) - Len(rest)
         THEN Pushed(Children[j][i])
         ELSE Children[j][i] = rest[i - (Len(Children[j]) - Len(rest))]

ChildrenFirst ==
    /\ \A w \in Worker : worker[w] = "push" => PushedUpTo(job[w], todo[w])
    /\ \A w \in Worker : worker[w] = "results" => ChildrenPushed(job[w])
    /\ ResultAfterChildren

StatsCounted == PushMayFail \/ StatsCountEachJobOnce

IInv ==
    /\ MemP!IInv
    /\ Typed
    /\ Phases
    /\ StaysWhileLive
    /\ HasJob
    /\ Accounted
    /\ ResultsCounted
    /\ ChildrenFirst
    /\ StatsCounted

-----------------------------------------------------------------------------
(***************************************************************************)
(* The provider inside the engine.                                         *)
(***************************************************************************)
LEMMA SameFinite == ASSUME NEW S PROVE MemP!IsFiniteSet(S) <=> IsFiniteSet(S)
  BY DEF IsFiniteSet, MemP!IsFiniteSet

LEMMA SameCardinality == ASSUME NEW S PROVE MemP!Cardinality(S) = Cardinality(S)
  BY DEF Cardinality, MemP!Cardinality, IsFiniteSet, MemP!IsFiniteSet

\* The assumptions of MemoryProvider are among the engine's.
LEMMA ProviderAssumptions ==
    MemP!JobAssumption /\ MemP!PumpAssumption /\ MemP!PriorityAssumption
  BY SameFinite, ProviderAssumption
     DEF MemP!JobAssumption, MemP!PumpAssumption, MemP!PriorityAssumption

\* Both instances of the provider are the same specification.
LEMMA SameProvider ==
    /\ Mem!Init => MemP!Init
    /\ [Mem!Next]_(Mem!vars) => [MemP!Next]_(MemP!vars)
<1>1. Mem!Init => MemP!Init
  BY DEF Mem!Init, MemP!Init
<1>2. UNCHANGED Mem!vars => UNCHANGED MemP!vars
  BY DEF Mem!vars, MemP!vars
<1>3. ASSUME NEW j \in Job
      PROVE  /\ Mem!Push(j) => MemP!Push(j)
             /\ Mem!PushStep(j) => MemP!PushStep(j)
  BY DEF Mem!Push, MemP!Push, Mem!PushStep, MemP!PushStep, Mem!Park, MemP!Park,
         Mem!PushQuits, MemP!PushQuits, Mem!Done, MemP!Done
<1>4. ASSUME NEW w \in Worker
      PROVE  /\ Mem!Jobs(w) => MemP!Jobs(w)
             /\ Mem!Deliver(w) => MemP!Deliver(w)
             /\ Mem!ReadErr(w) => MemP!ReadErr(w)
  BY DEF Mem!Jobs, MemP!Jobs, Mem!Deliver, MemP!Deliver, Mem!ReadErr, MemP!ReadErr
<1>5. ASSUME NEW w \in Worker, NEW j \in Job
      PROVE  /\ Mem!Take(w, j) => MemP!Take(w, j)
             /\ \A S : Mem!Parked(S) = MemP!Parked(S)
  BY DEF Mem!Take, MemP!Take, Mem!Parked, MemP!Parked
<1>6. ASSUME NEW w \in Worker
      PROVE  Mem!PumpStep(w) => MemP!PumpStep(w)
  <2>1. ASSUME NEW S PROVE Mem!Parked(S) = MemP!Parked(S) /\ MemP!Parked(S) \subseteq Job
    BY DEF Mem!Parked, MemP!Parked
  <2>2. ASSUME Mem!OuterTake(w) \/ Mem!OuterDefault(w) PROVE MemP!PumpStep(w)
    BY <1>5, <2>1, <2>2 DEF Mem!OuterTake, Mem!OuterDefault, MemP!OuterTake,
       MemP!OuterDefault, MemP!PumpStep, Mem!Done, MemP!Done
  <2>3. ASSUME Mem!MiddleTake(w) \/ Mem!MiddleDone(w) \/ Mem!MiddleDefault(w)
        PROVE  MemP!PumpStep(w)
    BY <1>5, <2>1, <2>3 DEF Mem!MiddleTake, Mem!MiddleDone, Mem!MiddleDefault,
       MemP!MiddleTake, MemP!MiddleDone, MemP!MiddleDefault, MemP!PumpStep,
       Mem!Done, MemP!Done
  <2>4. ASSUME Mem!InnerTake(w) \/ Mem!PumpExits(w) PROVE MemP!PumpStep(w)
    BY <1>5, <2>4 DEF Mem!InnerTake, Mem!PumpExits, MemP!InnerTake,
       MemP!PumpExits, MemP!PumpStep, Mem!Done, MemP!Done
  <2> QED
    BY <2>2, <2>3, <2>4 DEF Mem!PumpStep
<1>7. ASSUME NEW c PROVE Mem!Cancel(c) => MemP!Cancel(c)
  BY DEF Mem!Cancel, MemP!Cancel
<1>8. Mem!Next => MemP!Next
  BY <1>3, <1>4, <1>6, <1>7 DEF Mem!Next, MemP!Next
<1> QED
  BY <1>1, <1>2, <1>8

\* What the provider's steps do to the variables that the invariant reads.
LEMMA PushEffect ==
    ASSUME NEW j \in Job, Mem!Push(j), MemP!Typed
    PROVE  /\ UNCHANGED <<ctx, delivered>>
           /\ \A k \in Job : Pushed(k)' <=> (Pushed(k) \/ k = j)
  BY DEF Mem!Push, MemP!Typed, Pushed

LEMMA BackgroundEffect ==
    ASSUME MemP!Typed,
           \/ \E j \in Job : Mem!PushStep(j)
           \/ \E w \in Worker : Mem!PumpStep(w) \/ Mem!Jobs(w) \/ Mem!ReadErr(w)
    PROVE  /\ UNCHANGED <<ctx, delivered>>
           /\ \A k \in Job : Pushed(k)' <=> Pushed(k)
<1>1. ASSUME NEW j \in Job, Mem!PushStep(j)
      PROVE  UNCHANGED <<ctx, delivered>> /\ \A k \in Job : Pushed(k)' <=> Pushed(k)
  BY <1>1 DEF Mem!PushStep, Mem!Park, Mem!PushQuits, MemP!Typed, Pushed
<1>2. ASSUME NEW w \in Worker, Mem!PumpStep(w)
      PROVE  UNCHANGED <<ctx, delivered>> /\ \A k \in Job : Pushed(k)' <=> Pushed(k)
  <2>1. ASSUME NEW j \in Job, pusher[j] \in {"started", "parked"}, Mem!Take(w, j)
        PROVE  UNCHANGED <<ctx, delivered>> /\ \A k \in Job : Pushed(k)' <=> Pushed(k)
    BY <2>1 DEF Mem!Take, MemP!Typed, Pushed
  <2> QED
    BY <1>2, <2>1 DEF Mem!PumpStep, Mem!OuterTake, Mem!OuterDefault, Mem!MiddleTake,
       Mem!MiddleDone, Mem!MiddleDefault, Mem!InnerTake, Mem!PumpExits,
       Mem!Parked, Pushed
<1>3. ASSUME NEW w \in Worker, Mem!Jobs(w) \/ Mem!ReadErr(w)
      PROVE  UNCHANGED <<ctx, delivered>> /\ \A k \in Job : Pushed(k)' <=> Pushed(k)
  BY <1>3 DEF Mem!Jobs, Mem!ReadErr, Pushed
<1> QED
  BY <1>1, <1>2, <1>3

LEMMA DeliverEffect ==
    ASSUME NEW w \in Worker, Mem!Deliver(w)
    PROVE  /\ delivered' = [j \in Job |-> delivered[j] + IF j = holding[w] THEN 1 ELSE 0]
           /\ UNCHANGED <<ctx, pusher>>
  BY DEF Mem!Deliver

-----------------------------------------------------------------------------
(***************************************************************************)
(* Initial states, and the steps of the engine as Steps.                   *)
(***************************************************************************)
LEMMA InitHolds == Init => IInv
<1> SUFFICES ASSUME Init PROVE IInv
  OBVIOUS
<1>1. MemP!IInv
  BY ProviderAssumptions, SameProvider, MemP!InitHolds DEF Init
<1>2. /\ worker = [w \in Worker |-> "off"]
      /\ job = [w \in Worker |-> Nil]
      /\ todo = [w \in Worker |-> <<>>]
      /\ received = [j \in Job |-> 0] /\ ended = [j \in Job |-> 0]
      /\ succeeded = {} /\ completed = 0 /\ failed = 0
      /\ delivered = [j \in Job |-> 0]
      /\ main = "init" /\ watchdog = "off" /\ Nil \notin Job
  BY ProviderAssumption DEF Init, Mem!Init
<1>3. initq \in Seq(Job)
  <2>1. ASSUME NEW j \in {InitJob} \ {Nil} PROVE <<j>> \in Seq(Job)
    BY <2>1, TreeAssumption
  <2>2. <<>> \in Seq(Job)
    OBVIOUS
  <2> QED
    BY <2>1, <2>2 DEF Init
<1>4. Typed
  <2>1. stale \in BOOLEAN /\ crashed \in BOOLEAN /\ exitOnInactivity \in InactivityOptions
    BY DEF Init
  <2>2. todo \in [Worker -> Seq(Job)] /\ job \in [Worker -> Job \cup {Nil}]
    BY <1>2
  <2>3. received \in [Job -> Nat] /\ ended \in [Job -> Nat]
    BY <1>2
  <2> QED
    BY <1>2, <1>3, <2>1, <2>2, <2>3 DEF Init, Typed, Cause
<1>5. \A j \in Job : Cardinality({w \in Worker : job[w] = j}) = 0
  <2> TAKE j \in Job
  <2>1. {w \in Worker : job[w] = j} = {}
    BY <1>2
  <2> QED
    BY <2>1, FS_EmptySet
<1>6. Phases /\ HasJob /\ Accounted /\ ResultsCounted
  BY <1>2, <1>5 DEF Phases, HasJob, Busy, Accounted, ResultsCounted
<1>7. ChildrenFirst
  BY <1>2 DEF ChildrenFirst, ResultAfterChildren
<1>8. StatsCounted
  <2>1. /\ {j \in Job : ended[j] = 1} = {}
        /\ {w \in Worker : worker[w] \in {"push", "results", "fail"}} = {}
    BY <1>2
  <2> QED
    BY <1>2, <2>1, FS_EmptySet DEF StatsCounted, StatsCountEachJobOnce
<1>9. StaysWhileLive
  BY <1>2 DEF Init, Mem!Init, StaysWhileLive, Done
<1> QED
  BY <1>1, <1>4, <1>6, <1>7, <1>8, <1>9 DEF IInv

LEMMA IsStep ==
    ASSUME Typed,
           \/ MainStep \/ WatchdogStep \/ ProviderStep \/ TimePasses \/ WriterFails
           \/ \E w \in Worker : WorkerStep(w)
           \/ \E j \in Seed : PushSeed(j)
           \/ \E c \in Causes : CancelledFromOutside(c)
    PROVE  Step
<1> USE DEF memVars, workerVars, statVars, histVars, engineRest, Goto
<1>1. InitJobStops => Outside
  BY DEF InitJobStops, Outside, Typed, Cause
<1>2. ASSUME NEW w \in Worker, PolicyStops(w) PROVE Outside
  BY <1>2 DEF PolicyStops, Outside, Typed, Cause
<1>3. ASSUME NEW c \in Causes, CancelledFromOutside(c) PROVE Outside
  BY <1>3, OptionAssumption DEF CancelledFromOutside, Outside, Typed, Cause
<1>4. WriterFails => Outside
  BY DEF WriterFails, Outside, Typed, Cause
<1>5. ASSUME NEW j \in Seed PROVE j \in Job
  BY TreeAssumption
<1> QED
  BY <1>1, <1>2, <1>3, <1>4, <1>5
     DEF Step, MainStep, WatchdogStep, WorkerStep, WorkerAlone, ProviderStep

LEMMA NextIsStep == Typed /\ Next => ~crashed /\ Step
  BY IsStep DEF Next

-----------------------------------------------------------------------------
(***************************************************************************)
(* Every step preserves each part of the invariant.                        *)
(***************************************************************************)
\* A cancellation of the context is one of the provider's context.
LEMMA CancelEffect ==
    ASSUME NEW c \in Cause, CancelWith(c), UNCHANGED memVars
    PROVE  [Mem!Next]_(Mem!vars)
<1>1. ASSUME Done PROVE UNCHANGED Mem!vars
  BY <1>1 DEF CancelWith, Mem!vars, memVars
<1>2. ASSUME ~Done
      PROVE  Mem!Cancel(IF c = "deadline" THEN "deadline" ELSE "canceled")
  BY <1>2 DEF CancelWith, Mem!Cancel, memVars, Done
<1> QED
  BY <1>1, <1>2 DEF Mem!Next

LEMMA ProviderMoves ==
    ASSUME Typed, Step
    PROVE  [Mem!Next]_(Mem!vars)
<1> USE DEF Mem!vars
<1>1. CASE Outside
  <2>1. CASE UNCHANGED <<ctx, cause>>
    BY <1>1, <2>1 DEF Outside, memVars
  <2>2. ASSUME NEW c \in Cause, CancelWith(c) PROVE [Mem!Next]_(Mem!vars)
    BY <1>1, <2>2, CancelEffect DEF Outside
  <2> QED
    BY <1>1, <2>1, <2>2 DEF Outside
<1>2. CASE InitJobStarts
  BY <1>2 DEF InitJobStarts, memVars
<1>3. CASE InitJobReturns
  BY <1>3 DEF InitJobReturns, memVars
<1>4. CASE InitJobFails
  BY <1>4 DEF InitJobFails, memVars
<1>5. CASE SpawnWorkers
  BY <1>5 DEF SpawnWorkers, memVars
<1>6. CASE StartReturns
  BY <1>6 DEF StartReturns, memVars
<1>7. CASE WatchdogDone
  BY <1>7 DEF WatchdogDone, memVars
<1>8. CASE WatchdogFires
  BY <1>8, CancelEffect DEF WatchdogFires, Cause
<1>9. CASE TimePasses
  BY <1>9 DEF TimePasses, memVars
<1>10. ASSUME NEW w \in Worker, CallJobs(w) PROVE [Mem!Next]_(Mem!vars)
  BY <1>10 DEF CallJobs, Mem!Next
<1>11. ASSUME NEW w \in Worker, WorkerDone(w) PROVE [Mem!Next]_(Mem!vars)
  BY <1>11 DEF WorkerDone, memVars
<1>12. ASSUME NEW w \in Worker, WorkerErr(w) PROVE [Mem!Next]_(Mem!vars)
  BY <1>12 DEF WorkerErr, Mem!Next
<1>13. ASSUME NEW w \in Worker, TakeJob(w) PROVE [Mem!Next]_(Mem!vars)
  BY <1>13 DEF TakeJob, Mem!Next
<1>14. ASSUME NEW w \in Worker, DoJobFails(w) PROVE [Mem!Next]_(Mem!vars)
  BY <1>14 DEF DoJobFails, memVars
<1>15. ASSUME NEW w \in Worker, DoJobReturns(w) PROVE [Mem!Next]_(Mem!vars)
  BY <1>15 DEF DoJobReturns, memVars
<1>16. ASSUME NEW w \in Worker, PushChild(w) PROVE [Mem!Next]_(Mem!vars)
  <2>1. Head(todo[w]) \in Job
    BY <1>16 DEF PushChild, Typed
  <2> QED
    BY <1>16, <2>1 DEF PushChild, Mem!Next
<1>17. ASSUME NEW w \in Worker, PushChildFails(w) PROVE [Mem!Next]_(Mem!vars)
  BY <1>17 DEF PushChildFails, memVars
<1>18. ASSUME NEW w \in Worker, AllPushed(w) PROVE [Mem!Next]_(Mem!vars)
  BY <1>18 DEF AllPushed, memVars
<1>19. ASSUME NEW w \in Worker, FailedSentOrDropped(w) PROVE [Mem!Next]_(Mem!vars)
  BY <1>19 DEF FailedSentOrDropped, memVars
<1>20. ASSUME NEW w \in Worker, SendResult(w) PROVE [Mem!Next]_(Mem!vars)
  BY <1>20 DEF SendResult, memVars
<1>21. ASSUME NEW w \in Worker, PumpRuns(w) PROVE [Mem!Next]_(Mem!vars)
  BY <1>21 DEF PumpRuns, Mem!Next
<1>22. ASSUME NEW j \in Job, PusherRuns(j) PROVE [Mem!Next]_(Mem!vars)
  BY <1>22 DEF PusherRuns, Mem!Next
<1>23. ASSUME NEW j \in Job, PushSeed(j) PROVE [Mem!Next]_(Mem!vars)
  BY <1>23 DEF PushSeed, Mem!Next
<1> QED
  BY <1>1, <1>2, <1>3, <1>4, <1>5, <1>6, <1>7, <1>8, <1>9, <1>10, <1>11,
     <1>12, <1>13, <1>14, <1>15, <1>16, <1>17, <1>18, <1>19, <1>20, <1>21,
     <1>22, <1>23 DEF Step

LEMMA ProviderStepKeeps == IInv /\ Step => MemP!IInv'
  BY ProviderMoves, SameProvider, ProviderAssumptions, MemP!IInvStep DEF IInv

LEMMA FailTyped ==
    ASSUME Typed, NEW w \in Worker, job[w] \in Job, PushToFailed(w)
    PROVE  /\ failed' \in Nat /\ stale' \in BOOLEAN
           /\ worker' \in [Worker -> {"off", "start", "select", "sleep", "do", "push",
                                      "results", "fail", "exit"}]
           /\ job' \in [Worker -> Job \cup {Nil}]
           /\ ended' \in [Job -> Nat]
<1>1. failed' \in Nat
  BY DEF Typed, PushToFailed
<1>2. stale' \in BOOLEAN
  BY Zenon DEF PushToFailed
<1>3. CASE UseFailed
  BY <1>1, <1>2, <1>3 DEF Typed, PushToFailed, Goto
<1>4. CASE ~UseFailed
  <2>1. EndJob(w)
    BY <1>4 DEF PushToFailed
  <2> QED
    BY <1>1, <1>2, <2>1 DEF Typed, EndJob, Goto
<1> QED
  BY <1>3, <1>4

LEMMA TypedStep ==
    ASSUME IInv, ~crashed, Step
    PROVE  Typed'
<1> USE TreeAssumption DEF IInv, Typed, memVars, workerVars, statVars, histVars,
    engineRest, Goto
<1>1. CASE Outside
  BY <1>1 DEF Outside, CancelWith
<1>2. CASE InitJobStarts
  BY <1>2 DEF InitJobStarts
<1>3. CASE InitJobReturns
  <2>1. initq # <<>> /\ Head(initq) \in Job /\ Tail(initq) \in Seq(Job)
    BY <1>3 DEF InitJobReturns, Phases
  <2>2. initq' \in Seq(Job)
    BY <1>3, <2>1 DEF InitJobReturns
  <2> QED
    BY <1>3, <2>2 DEF InitJobReturns
<1>4. CASE InitJobFails
  BY <1>4 DEF InitJobFails
<1>5. CASE SpawnWorkers
  BY <1>5 DEF SpawnWorkers
<1>6. CASE StartReturns
  BY <1>6 DEF StartReturns
<1>7. CASE WatchdogDone
  BY <1>7 DEF WatchdogDone
<1>8. CASE WatchdogFires
  BY <1>8 DEF WatchdogFires, CancelWith, Cause
<1>9. CASE TimePasses
  BY <1>9 DEF TimePasses
<1>10. ASSUME NEW w \in Worker, CallJobs(w) PROVE Typed'
  BY <1>10 DEF CallJobs
<1>11. ASSUME NEW w \in Worker, WorkerDone(w) PROVE Typed'
  BY <1>11 DEF WorkerDone
<1>12. ASSUME NEW w \in Worker, WorkerErr(w) PROVE Typed'
  BY <1>12 DEF WorkerErr
<1>13. ASSUME NEW w \in Worker, TakeJob(w) PROVE Typed'
  <2>1. holding[w] \in Job \cup {Nil}
    BY <1>13 DEF MemP!IInv, MemP!Typed
  <2>2. crashed' \in BOOLEAN
    BY <1>13 DEF TakeJob
  <2> QED
    BY <1>13, <2>1, <2>2 DEF TakeJob
<1>14. ASSUME NEW w \in Worker, DoJobFails(w) PROVE Typed'
  <2>1. job[w] \in Job
    BY <1>14 DEF DoJobFails, HasJob, Busy
  <2> QED
    BY <1>14, <2>1, FailTyped DEF DoJobFails
<1>15. ASSUME NEW w \in Worker, DoJobReturns(w) PROVE Typed'
  <2>1. Children[job[w]] \in Seq(Job)
    BY <1>15 DEF DoJobReturns, HasJob, Busy
  <2>2. todo' \in [Worker -> Seq(Job)]
    BY <1>15, <2>1 DEF DoJobReturns
  <2>3. completed' \in Nat /\ worker' = [worker EXCEPT ![w] = "push"]
    BY <1>15 DEF DoJobReturns
  <2>4. stale' \in BOOLEAN
    BY <1>15, Zenon DEF DoJobReturns
  <2> QED
    BY <1>15, <2>2, <2>3, <2>4 DEF DoJobReturns
<1>16. ASSUME NEW w \in Worker, PushChild(w) PROVE Typed'
  <2>1. Tail(todo[w]) \in Seq(Job)
    BY <1>16 DEF PushChild
  <2> QED
    BY <1>16, <2>1 DEF PushChild
<1>17. ASSUME NEW w \in Worker, PushChildFails(w) PROVE Typed'
  <2>1. job[w] \in Job
    BY <1>17 DEF PushChildFails, HasJob, Busy
  <2>2. todo' \in [Worker -> Seq(Job)]
    BY <1>17 DEF PushChildFails
  <2> QED
    BY <1>17, <2>1, <2>2, FailTyped DEF PushChildFails
<1>18. ASSUME NEW w \in Worker, AllPushed(w) PROVE Typed'
  <2>1. job[w] \in Job
    BY <1>18 DEF AllPushed, HasJob, Busy
  <2>2. CASE job[w] \in Emit
    BY <1>18, <2>2 DEF AllPushed
  <2>3. CASE job[w] \notin Emit
    <3>1. EndJob(w) /\ succeeded' = succeeded \cup {job[w]}
      BY <1>18, <2>3 DEF AllPushed
    <3> QED
      BY <1>18, <2>1, <3>1 DEF AllPushed, EndJob
  <2> QED
    BY <2>2, <2>3
<1>19. ASSUME NEW w \in Worker, FailedSentOrDropped(w) PROVE Typed'
  BY <1>19 DEF FailedSentOrDropped, EndJob, HasJob, Busy
<1>20. ASSUME NEW w \in Worker, SendResult(w) PROVE Typed'
  <2>1. job[w] \in Job
    BY <1>20 DEF SendResult, HasJob, Busy
  <2>2. /\ received' \in [Job -> Nat] /\ ended' \in [Job -> Nat] /\ succeeded' \subseteq Job
        /\ worker' = [worker EXCEPT ![w] = "select"] /\ job' = [job EXCEPT ![w] = Nil]
    BY <1>20, <2>1 DEF SendResult, EndJob
  <2> QED
    BY <1>20, <2>2 DEF SendResult
<1>21. ASSUME NEW w \in Worker, PumpRuns(w) PROVE Typed'
  BY <1>21 DEF PumpRuns
<1>22. ASSUME NEW j \in Job, PusherRuns(j) PROVE Typed'
  BY <1>22 DEF PusherRuns
<1>23. ASSUME NEW j \in Job, PushSeed(j) PROVE Typed'
  BY <1>23 DEF PushSeed
<1> QED
  BY <1>1, <1>2, <1>3, <1>4, <1>5, <1>6, <1>7, <1>8, <1>9, <1>10, <1>11,
     <1>12, <1>13, <1>14, <1>15, <1>16, <1>17, <1>18, <1>19, <1>20, <1>21,
     <1>22, <1>23 DEF Step

LEMMA PhasesStep ==
    ASSUME IInv, ~crashed, Step
    PROVE  Phases'
<1> USE DEF IInv, Typed, Phases, memVars, workerVars, statVars, histVars,
    engineRest, Goto
<1>1. CASE Outside
  BY <1>1 DEF Outside
<1>2. CASE InitJobStarts
  BY <1>2 DEF InitJobStarts
<1>3. CASE InitJobReturns
  BY <1>3 DEF InitJobReturns
<1>4. CASE InitJobFails
  BY <1>4 DEF InitJobFails
<1>5. CASE SpawnWorkers
  BY <1>5 DEF SpawnWorkers
<1>6. CASE StartReturns
  BY <1>6 DEF StartReturns
<1>7. CASE WatchdogDone
  BY <1>7 DEF WatchdogDone
<1>8. CASE WatchdogFires
  BY <1>8 DEF WatchdogFires
<1>9. CASE TimePasses
  BY <1>9 DEF TimePasses
<1>10. ASSUME NEW w \in Worker, CallJobs(w) PROVE Phases'
  BY <1>10 DEF CallJobs
<1>11. ASSUME NEW w \in Worker, WorkerDone(w) PROVE Phases'
  BY <1>11 DEF WorkerDone
<1>12. ASSUME NEW w \in Worker, WorkerErr(w) PROVE Phases'
  BY <1>12 DEF WorkerErr
<1>13. ASSUME NEW w \in Worker, TakeJob(w) PROVE Phases'
  BY <1>13 DEF TakeJob
<1>14. ASSUME NEW w \in Worker, DoJobFails(w) PROVE Phases'
  BY <1>14 DEF DoJobFails, PushToFailed, EndJob
<1>15. ASSUME NEW w \in Worker, DoJobReturns(w) PROVE Phases'
  BY <1>15 DEF DoJobReturns
<1>16. ASSUME NEW w \in Worker, PushChild(w) PROVE Phases'
  BY <1>16 DEF PushChild
<1>17. ASSUME NEW w \in Worker, PushChildFails(w) PROVE Phases'
  BY <1>17 DEF PushChildFails, PushToFailed, EndJob
<1>18. ASSUME NEW w \in Worker, AllPushed(w) PROVE Phases'
  BY <1>18 DEF AllPushed, EndJob
<1>19. ASSUME NEW w \in Worker, FailedSentOrDropped(w) PROVE Phases'
  BY <1>19 DEF FailedSentOrDropped, EndJob
<1>20. ASSUME NEW w \in Worker, SendResult(w) PROVE Phases'
  BY <1>20 DEF SendResult, EndJob
<1>21. ASSUME NEW w \in Worker, PumpRuns(w) PROVE Phases'
  BY <1>21 DEF PumpRuns
<1>22. ASSUME NEW j \in Job, PusherRuns(j) PROVE Phases'
  BY <1>22 DEF PusherRuns
<1>23. ASSUME NEW j \in Job, PushSeed(j) PROVE Phases'
  BY <1>23 DEF PushSeed
<1> QED
  BY <1>1, <1>2, <1>3, <1>4, <1>5, <1>6, <1>7, <1>8, <1>9, <1>10, <1>11,
     <1>12, <1>13, <1>14, <1>15, <1>16, <1>17, <1>18, <1>19, <1>20, <1>21,
     <1>22, <1>23 DEF Step

LEMMA StaysStep ==
    ASSUME IInv, ~crashed, Step
    PROVE  StaysWhileLive'
<1> USE DEF memVars, workerVars, statVars, histVars, engineRest, Goto, Done
<1>0. MemP!Typed /\ Typed /\ StaysWhileLive /\ MemP!LosesNothingWhileLive
  BY DEF IInv, MemP!IInv
<1>1. ASSUME UNCHANGED <<ctx, cause, crashed, watchdog>>,
             \A w \in Worker : worker'[w] \in {"sleep", "exit"} =>
               worker[w] \in {"sleep", "exit"} \/ Done
      PROVE  StaysWhileLive'
  BY <1>0, <1>1 DEF StaysWhileLive
<1>2. CASE Outside
  BY <1>0, <1>2 DEF Outside, CancelWith, StaysWhileLive
<1>3. CASE WatchdogDone \/ WatchdogFires
  BY <1>0, <1>3 DEF WatchdogDone, WatchdogFires, CancelWith, StaysWhileLive
<1>4. CASE SpawnWorkers
  BY <1>0, <1>4 DEF SpawnWorkers, StaysWhileLive
<1>5. CASE InitJobStarts \/ InitJobReturns \/ InitJobFails \/ StartReturns \/ TimePasses
  BY <1>1, <1>5 DEF InitJobStarts, InitJobReturns, InitJobFails, StartReturns, TimePasses
<1>6. ASSUME NEW w \in Worker, CallJobs(w) PROVE StaysWhileLive'
  <2>1. ctx' = ctx
    BY <1>0, <1>6, BackgroundEffect DEF CallJobs
  <2> QED
    BY <1>0, <1>1, <1>6, <2>1 DEF CallJobs, Typed
<1>7. ASSUME NEW w \in Worker, WorkerDone(w) PROVE StaysWhileLive'
  BY <1>0, <1>1, <1>7 DEF WorkerDone, Typed
<1>8. ASSUME NEW w \in Worker, WorkerErr(w) PROVE StaysWhileLive'
  <2>1. ctx' = ctx
    BY <1>0, <1>8, BackgroundEffect DEF WorkerErr
  <2>2. errc[w]
    BY <1>8 DEF WorkerErr, Mem!ReadErr
  <2>3. Done
    BY <1>0, <2>2, Zenon DEF MemP!LosesNothingWhileLive, MemP!Done
  <2> QED
    BY <1>0, <1>1, <1>8, <2>1, <2>3 DEF WorkerErr, Typed
<1>9. ASSUME NEW w \in Worker, TakeJob(w) PROVE StaysWhileLive'
  <2>1. ctx' = ctx /\ pump[w] = "send"
    BY <1>9 DEF TakeJob, Mem!Deliver
  <2>2. holding[w] = Nil => Done
    BY <1>0, <2>1, ProviderAssumption DEF MemP!LosesNothingWhileLive, MemP!Done
  <2> QED
    BY <1>0, <1>9, <2>1, <2>2 DEF TakeJob, Typed, StaysWhileLive
<1>10. ASSUME NEW w \in Worker,
              \/ DoJobFails(w) \/ DoJobReturns(w) \/ PushChildFails(w) \/ AllPushed(w)
              \/ FailedSentOrDropped(w) \/ SendResult(w)
       PROVE  StaysWhileLive'
  BY <1>0, <1>1, <1>10 DEF DoJobFails, DoJobReturns, PushChildFails, AllPushed,
     FailedSentOrDropped, SendResult, PushToFailed, EndJob, Typed
<1>11. ASSUME NEW w \in Worker, PushChild(w) PROVE StaysWhileLive'
  BY <1>1, <1>11 DEF PushChild, Mem!Push
<1>12. ASSUME NEW w \in Worker, PumpRuns(w) PROVE StaysWhileLive'
  <2>1. ctx' = ctx
    BY <1>0, <1>12, BackgroundEffect DEF PumpRuns
  <2> QED
    BY <1>1, <1>12, <2>1 DEF PumpRuns
<1>13. ASSUME NEW j \in Job, PusherRuns(j) \/ PushSeed(j) PROVE StaysWhileLive'
  <2>1. ctx' = ctx
    BY <1>0, <1>13, BackgroundEffect DEF PusherRuns, PushSeed, Mem!Push
  <2> QED
    BY <1>1, <1>13, <2>1 DEF PusherRuns, PushSeed
<1> QED
  BY <1>2, <1>3, <1>4, <1>5, <1>6, <1>7, <1>8, <1>9, <1>10, <1>11, <1>12, <1>13 DEF Step

LEMMA HasJobStep ==
    ASSUME IInv, ~crashed, Step
    PROVE  HasJob'
<1> USE DEF IInv, Typed, HasJob, Busy, memVars, workerVars, statVars, histVars,
    engineRest, Goto
<1>1. CASE Outside
  BY <1>1 DEF Outside
<1>2. CASE InitJobStarts
  BY <1>2 DEF InitJobStarts
<1>3. CASE InitJobReturns
  BY <1>3 DEF InitJobReturns
<1>4. CASE InitJobFails
  BY <1>4 DEF InitJobFails
<1>5. CASE SpawnWorkers
  BY <1>5 DEF SpawnWorkers, Phases
<1>6. CASE StartReturns
  BY <1>6 DEF StartReturns
<1>7. CASE WatchdogDone
  BY <1>7 DEF WatchdogDone
<1>8. CASE WatchdogFires
  BY <1>8 DEF WatchdogFires
<1>9. CASE TimePasses
  BY <1>9 DEF TimePasses
<1>10. ASSUME NEW w \in Worker, CallJobs(w) PROVE HasJob'
  BY <1>10 DEF CallJobs
<1>11. ASSUME NEW w \in Worker, WorkerDone(w) PROVE HasJob'
  BY <1>11 DEF WorkerDone
<1>12. ASSUME NEW w \in Worker, WorkerErr(w) PROVE HasJob'
  BY <1>12 DEF WorkerErr
<1>13. ASSUME NEW w \in Worker, TakeJob(w) PROVE HasJob'
  <2>1. holding[w] \in Job \cup {Nil}
    BY <1>13 DEF MemP!IInv, MemP!Typed
  <2> QED
    BY <1>13, <2>1 DEF TakeJob
<1>14. ASSUME NEW w \in Worker, DoJobFails(w) PROVE HasJob'
  BY <1>14 DEF DoJobFails, PushToFailed, EndJob
<1>15. ASSUME NEW w \in Worker, DoJobReturns(w) PROVE HasJob'
  BY <1>15 DEF DoJobReturns
<1>16. ASSUME NEW w \in Worker, PushChild(w) PROVE HasJob'
  BY <1>16 DEF PushChild
<1>17. ASSUME NEW w \in Worker, PushChildFails(w) PROVE HasJob'
  BY <1>17 DEF PushChildFails, PushToFailed, EndJob
<1>18. ASSUME NEW w \in Worker, AllPushed(w) PROVE HasJob'
  BY <1>18 DEF AllPushed, EndJob
<1>19. ASSUME NEW w \in Worker, FailedSentOrDropped(w) PROVE HasJob'
  BY <1>19 DEF FailedSentOrDropped, EndJob
<1>20. ASSUME NEW w \in Worker, SendResult(w) PROVE HasJob'
  BY <1>20 DEF SendResult, EndJob
<1>21. ASSUME NEW w \in Worker, PumpRuns(w) PROVE HasJob'
  BY <1>21 DEF PumpRuns
<1>22. ASSUME NEW j \in Job, PusherRuns(j) PROVE HasJob'
  BY <1>22 DEF PusherRuns
<1>23. ASSUME NEW j \in Job, PushSeed(j) PROVE HasJob'
  BY <1>23 DEF PushSeed
<1> QED
  BY <1>1, <1>2, <1>3, <1>4, <1>5, <1>6, <1>7, <1>8, <1>9, <1>10, <1>11,
     <1>12, <1>13, <1>14, <1>15, <1>16, <1>17, <1>18, <1>19, <1>20, <1>21,
     <1>22, <1>23 DEF Step

-----------------------------------------------------------------------------
(***************************************************************************)
(* Counting.                                                               *)
(***************************************************************************)
\* Q has the members of P, but perhaps for x.
LEMMA SetUpdate ==
    ASSUME NEW S, IsFiniteSet(S), NEW P \in SUBSET S, NEW Q \in SUBSET S, NEW x \in S,
           \A y \in S \ {x} : y \in P <=> y \in Q
    PROVE  /\ Cardinality(P) \in Nat /\ Cardinality(Q) \in Nat
           /\ Cardinality(Q) + (IF x \in P THEN 1 ELSE 0)
                = Cardinality(P) + (IF x \in Q THEN 1 ELSE 0)
           /\ x \in P => Cardinality(P) # 0
<1> DEFINE R == P \ {x}
<1>1. /\ IsFiniteSet(P) /\ IsFiniteSet(R)
      /\ Cardinality(R) = IF x \in P THEN Cardinality(P) - 1 ELSE Cardinality(P)
  BY FS_Subset, FS_RemoveElement
<1>2. Q = IF x \in Q THEN R \cup {x} ELSE R
  OBVIOUS
<1>3. Cardinality(R \cup {x}) = Cardinality(R) + 1
  BY <1>1, FS_AddElement
<1>4. Cardinality(P) \in Nat /\ Cardinality(R) \in Nat
  BY <1>1, FS_CardinalityType
<1> QED
  BY <1>1, <1>2, <1>3, <1>4

LEMMA JobCountUpdate ==
    ASSUME NEW w \in Worker, NEW j \in Job,
           \A v \in Worker \ {w} : job'[v] = job[v]
    PROVE  LET before == Cardinality({v \in Worker : job[v] = j})
               after  == Cardinality({v \in Worker : job'[v] = j})
           IN  /\ before \in Nat /\ after \in Nat
               /\ after + (IF job[w] = j THEN 1 ELSE 0)
                    = before + (IF job'[w] = j THEN 1 ELSE 0)
               /\ job[w] = j => before # 0
<1> DEFINE P == {v \in Worker : job[v] = j}
           Q == {v \in Worker : job'[v] = j}
<1>1. /\ P \in SUBSET Worker /\ Q \in SUBSET Worker /\ IsFiniteSet(Worker)
      /\ \A y \in Worker \ {w} : y \in P <=> y \in Q
      /\ w \in P <=> job[w] = j
      /\ w \in Q <=> job'[w] = j
  BY ProviderAssumption
<1> HIDE DEF P, Q
<1>2. /\ Cardinality(P) \in Nat /\ Cardinality(Q) \in Nat
      /\ Cardinality(Q) + (IF w \in P THEN 1 ELSE 0)
           = Cardinality(P) + (IF w \in Q THEN 1 ELSE 0)
      /\ w \in P => Cardinality(P) # 0
  BY <1>1, SetUpdate
<1> QED
  BY <1>1, <1>2 DEF P, Q

\* A job is delivered at most once (MemoryProvider), so one that a worker still
\* has is not finished with.
LEMMA HeldNotEnded ==
    ASSUME IInv, NEW w \in Worker, job[w] \in Job
    PROVE  ended[job[w]] = 0
<1>1. delivered[job[w]] \in Nat /\ delivered[job[w]] <= 1
  <2>1. /\ delivered[job[w]] \in Nat
        /\ MemP!Cardinality({v \in Worker : holding[v] = job[w]}) + delivered[job[w]]
             = IF pusher[job[w]] = "sent" THEN 1 ELSE 0
    BY DEF IInv, MemP!IInv, MemP!Typed, MemP!JobInOnePlace
  <2>2. Cardinality({v \in Worker : holding[v] = job[w]}) \in Nat
    BY ProviderAssumption, FS_Subset, FS_CardinalityType
  <2> QED
    BY <2>1, <2>2, SameCardinality
<1>2. {v \in Worker : job[v] = job[w]} # {} /\ IsFiniteSet({v \in Worker : job[v] = job[w]})
  BY ProviderAssumption, FS_Subset
<1>3. /\ Cardinality({v \in Worker : job[v] = job[w]}) \in Nat
      /\ Cardinality({v \in Worker : job[v] = job[w]}) # 0
  BY <1>2, FS_EmptySet, FS_CardinalityType
<1>4. /\ ended[job[w]] \in Nat
      /\ Cardinality({v \in Worker : job[v] = job[w]}) + ended[job[w]] = delivered[job[w]]
  BY DEF IInv, Typed, Accounted
<1> QED
  BY <1>1, <1>3, <1>4

\* What a step does to the jobs that workers have: nothing, one is received, or
\* one is finished with.
Idle == UNCHANGED <<job, ended, delivered, received, succeeded>>

Receives(w) ==
    /\ job[w] = Nil
    /\ job' = [job EXCEPT ![w] = holding[w]]
    /\ delivered' = [j \in Job |-> delivered[j] + IF j = holding[w] THEN 1 ELSE 0]
    /\ UNCHANGED <<ended, received, succeeded>>

Ends(w) ==
    /\ EndJob(w)
    /\ UNCHANGED delivered
    /\ \/ UNCHANGED <<received, succeeded>>
       \/ /\ succeeded' = succeeded \cup {job[w]}
          /\ received' = IF job[w] \in Emit THEN [received EXCEPT ![job[w]] = @ + 1]
                         ELSE received

LEMMA Outcome ==
    ASSUME IInv, ~crashed, Step
    PROVE  Idle \/ \E w \in Worker : Receives(w) \/ (job[w] \in Job /\ Ends(w))
<1> DEFINE Goal == Idle \/ \E w \in Worker : Receives(w) \/ (job[w] \in Job /\ Ends(w))
<1>0. MemP!Typed
  BY DEF IInv, MemP!IInv
<1> USE DEF memVars, workerVars, statVars, histVars, engineRest
<1>1. CASE Outside
  BY <1>1 DEF Outside, Idle
<1>2. CASE InitJobStarts
  BY <1>2 DEF InitJobStarts, Idle
<1>3. CASE InitJobReturns
  BY <1>3 DEF InitJobReturns, Idle
<1>4. CASE InitJobFails
  BY <1>4 DEF InitJobFails, Idle
<1>5. CASE SpawnWorkers
  BY <1>5 DEF SpawnWorkers, Idle
<1>6. CASE StartReturns
  BY <1>6 DEF StartReturns, Idle
<1>7. CASE WatchdogDone
  BY <1>7 DEF WatchdogDone, Idle
<1>8. CASE WatchdogFires
  BY <1>8 DEF WatchdogFires, Idle
<1>9. CASE TimePasses
  BY <1>9 DEF TimePasses, Idle
<1>10. ASSUME NEW w \in Worker, CallJobs(w) PROVE Goal
  BY <1>10, <1>0, BackgroundEffect DEF CallJobs, Idle
<1>11. ASSUME NEW w \in Worker, WorkerDone(w) PROVE Goal
  BY <1>11 DEF WorkerDone, Idle
<1>12. ASSUME NEW w \in Worker, WorkerErr(w) PROVE Goal
  BY <1>12, <1>0, BackgroundEffect DEF WorkerErr, Idle
<1>13. ASSUME NEW w \in Worker, TakeJob(w) PROVE Goal
  <2>1. job[w] = Nil
    BY <1>13 DEF TakeJob, IInv, HasJob, Busy
  <2>2. /\ delivered' = [j \in Job |-> delivered[j] + IF j = holding[w] THEN 1 ELSE 0]
        /\ job' = [job EXCEPT ![w] = holding[w]]
        /\ UNCHANGED <<ended, received, succeeded>>
    BY <1>13, DeliverEffect DEF TakeJob
  <2>3. Receives(w)
    BY <2>1, <2>2 DEF Receives
  <2> QED
    BY <1>13, <2>3
<1>14. ASSUME NEW w \in Worker, DoJobFails(w) PROVE Goal
  BY <1>14 DEF DoJobFails, PushToFailed, Idle, Ends, IInv, HasJob, Busy
<1>15. ASSUME NEW w \in Worker, DoJobReturns(w) PROVE Goal
  BY <1>15 DEF DoJobReturns, Idle
<1>16. ASSUME NEW w \in Worker, PushChild(w) PROVE Goal
  <2>1. Head(todo[w]) \in Job
    BY <1>16 DEF PushChild, IInv, Typed
  <2> QED
    BY <1>16, <1>0, <2>1, PushEffect DEF PushChild, Idle
<1>17. ASSUME NEW w \in Worker, PushChildFails(w) PROVE Goal
  BY <1>17 DEF PushChildFails, PushToFailed, Idle, Ends, IInv, HasJob, Busy
<1>18. ASSUME NEW w \in Worker, AllPushed(w) PROVE Goal
  BY <1>18 DEF AllPushed, Idle, Ends, IInv, HasJob, Busy
<1>19. ASSUME NEW w \in Worker, FailedSentOrDropped(w) PROVE Goal
  BY <1>19 DEF FailedSentOrDropped, Ends, IInv, HasJob, Busy
<1>20. ASSUME NEW w \in Worker, SendResult(w) PROVE Goal
  BY <1>20 DEF SendResult, Ends, IInv, HasJob, Busy
<1>21. ASSUME NEW w \in Worker, PumpRuns(w) PROVE Goal
  BY <1>21, <1>0, BackgroundEffect DEF PumpRuns, Idle
<1>22. ASSUME NEW j \in Job, PusherRuns(j) PROVE Goal
  BY <1>22, <1>0, BackgroundEffect DEF PusherRuns, Idle
<1>23. ASSUME NEW j \in Job, PushSeed(j) PROVE Goal
  BY <1>23, <1>0, PushEffect DEF PushSeed, Idle
<1> QED
  BY <1>1, <1>2, <1>3, <1>4, <1>5, <1>6, <1>7, <1>8, <1>9, <1>10, <1>11,
     <1>12, <1>13, <1>14, <1>15, <1>16, <1>17, <1>18, <1>19, <1>20, <1>21,
     <1>22, <1>23 DEF Step

LEMMA AccountedStep ==
    ASSUME IInv, ~crashed, Step
    PROVE  Accounted'
<1> SUFFICES ASSUME NEW j \in Job
             PROVE  Cardinality({w \in Worker : job'[w] = j}) + ended'[j] = delivered'[j]
  BY DEF Accounted
<1>0. /\ Cardinality({w \in Worker : job[w] = j}) + ended[j] = delivered[j]
      /\ ended \in [Job -> Nat] /\ job \in [Worker -> Job \cup {Nil}]
      /\ delivered[j] \in Nat /\ Nil # j
  BY ProviderAssumption DEF IInv, Accounted, Typed, MemP!IInv, MemP!Typed
<1>1. CASE Idle
  BY <1>0, <1>1 DEF Idle
<1>2. ASSUME NEW w \in Worker, Receives(w)
      PROVE  Cardinality({v \in Worker : job'[v] = j}) + ended'[j] = delivered'[j]
  <2>1. /\ \A v \in Worker \ {w} : job'[v] = job[v]
        /\ job[w] = Nil /\ job'[w] = holding[w]
        /\ ended'[j] = ended[j]
        /\ delivered'[j] = delivered[j] + IF j = holding[w] THEN 1 ELSE 0
    BY <1>0, <1>2 DEF Receives
  <2> QED
    BY <1>0, <2>1, JobCountUpdate
<1>3. ASSUME NEW w \in Worker, job[w] \in Job, Ends(w)
      PROVE  Cardinality({v \in Worker : job'[v] = j}) + ended'[j] = delivered'[j]
  <2>1. /\ \A v \in Worker \ {w} : job'[v] = job[v]
        /\ job'[w] = Nil
        /\ ended'[j] = ended[j] + IF j = job[w] THEN 1 ELSE 0
        /\ delivered'[j] = delivered[j]
    BY <1>0, <1>3 DEF Ends, EndJob
  <2> QED
    BY <1>0, <2>1, JobCountUpdate
<1> QED
  BY <1>1, <1>2, <1>3, Outcome

LEMMA ResultsCountedStep ==
    ASSUME IInv, ~crashed, Step
    PROVE  ResultsCounted'
<1> USE DEF IInv, Typed, ResultsCounted
<1>1. CASE Idle
  BY <1>1 DEF Idle
<1>2. ASSUME NEW w \in Worker, Receives(w) PROVE ResultsCounted'
  BY <1>2 DEF Receives
<1>3. ASSUME NEW w \in Worker, job[w] \in Job, Ends(w) PROVE ResultsCounted'
  <2>1. ended[job[w]] = 0 /\ job[w] \notin succeeded
    BY <1>3, HeldNotEnded
  <2>2. \A j \in Job : ended'[j] = IF j = job[w] THEN 1 ELSE ended[j]
    BY <1>3, <2>1 DEF Ends, EndJob
  <2>3. CASE UNCHANGED <<received, succeeded>>
    BY <2>1, <2>2, <2>3
  <2>4. CASE /\ succeeded' = succeeded \cup {job[w]}
             /\ received' = IF job[w] \in Emit THEN [received EXCEPT ![job[w]] = @ + 1]
                            ELSE received
    BY <1>3, <2>1, <2>2, <2>4
  <2> QED
    BY <1>3, <2>3, <2>4 DEF Ends
<1> QED
  BY <1>1, <1>2, <1>3, Outcome

-----------------------------------------------------------------------------
(***************************************************************************)
(* Children before results.                                                *)
(***************************************************************************)
LEMMA PushedStays ==
    ASSUME IInv, Step, NEW k \in Job, Pushed(k)
    PROVE  Pushed(k)'
<1>1. MemP!Typed
  BY DEF IInv, MemP!IInv
<1>2. [Mem!Next]_(Mem!vars)
  BY ProviderMoves DEF IInv
<1>3. ASSUME NEW w \in Worker, Mem!Deliver(w) PROVE Pushed(k)'
  BY <1>3, DeliverEffect DEF Pushed
<1>4. ASSUME NEW c, Mem!Cancel(c) PROVE Pushed(k)'
  BY <1>4 DEF Mem!Cancel, Pushed
<1>5. CASE UNCHANGED Mem!vars
  BY <1>5 DEF Mem!vars, Pushed
<1>6. ASSUME NEW j \in Job, Mem!Push(j) PROVE Pushed(k)'
  BY <1>1, <1>6, PushEffect
<1>7. ASSUME \/ \E j \in Job : Mem!PushStep(j)
             \/ \E w \in Worker : Mem!PumpStep(w) \/ Mem!Jobs(w) \/ Mem!ReadErr(w)
      PROVE  Pushed(k)'
  BY <1>1, <1>7, BackgroundEffect
<1> QED
  BY <1>2, <1>3, <1>4, <1>5, <1>6, <1>7 DEF Mem!Next

\* How worker v comes to be where it pushes children or sends a result.
Unmoved(v) == worker'[v] = worker[v] /\ job'[v] = job[v] /\ todo'[v] = todo[v]
Elsewhere(v) == worker'[v] \notin {"push", "results"}
Advances(v) == DoJobReturns(v) \/ PushChild(v) \/ (AllPushed(v) /\ job[v] \in Emit)

LEMMA WorkerMoves ==
    ASSUME IInv, ~crashed, Step, NEW v \in Worker
    PROVE  Unmoved(v) \/ Elsewhere(v) \/ Advances(v)
<1> DEFINE Goal == Unmoved(v) \/ Elsewhere(v) \/ Advances(v)
<1> USE DEF IInv, Typed, Unmoved, Elsewhere, Advances, memVars, workerVars,
    statVars, histVars, engineRest, Goto
<1>1. CASE Outside
  BY <1>1 DEF Outside
<1>2. CASE InitJobStarts
  BY <1>2 DEF InitJobStarts
<1>3. CASE InitJobReturns
  BY <1>3 DEF InitJobReturns
<1>4. CASE InitJobFails
  BY <1>4 DEF InitJobFails
<1>5. CASE SpawnWorkers
  BY <1>5 DEF SpawnWorkers
<1>6. CASE StartReturns
  BY <1>6 DEF StartReturns
<1>7. CASE WatchdogDone
  BY <1>7 DEF WatchdogDone
<1>8. CASE WatchdogFires
  BY <1>8 DEF WatchdogFires
<1>9. CASE TimePasses
  BY <1>9 DEF TimePasses
<1>10. ASSUME NEW w \in Worker, CallJobs(w) PROVE Goal
  BY <1>10 DEF CallJobs
<1>11. ASSUME NEW w \in Worker, WorkerDone(w) PROVE Goal
  BY <1>11 DEF WorkerDone
<1>12. ASSUME NEW w \in Worker, WorkerErr(w) PROVE Goal
  BY <1>12 DEF WorkerErr
<1>13. ASSUME NEW w \in Worker, TakeJob(w) PROVE Goal
  BY <1>13 DEF TakeJob
<1>14. ASSUME NEW w \in Worker, DoJobFails(w) PROVE Goal
  BY <1>14 DEF DoJobFails, PushToFailed, EndJob
<1>15. ASSUME NEW w \in Worker, DoJobReturns(w) PROVE Goal
  <2>1. CASE w = v
    BY <1>15, <2>1 DEF DoJobReturns, Mem!Push
  <2>2. CASE w # v
    BY <1>15, <2>2 DEF DoJobReturns
  <2> QED
    BY <2>1, <2>2
<1>16. ASSUME NEW w \in Worker, PushChild(w) PROVE Goal
  <2>1. CASE w = v
    BY <1>16, <2>1 DEF PushChild, Mem!Push
  <2>2. CASE w # v
    BY <1>16, <2>2 DEF PushChild
  <2> QED
    BY <2>1, <2>2
<1>17. ASSUME NEW w \in Worker, PushChildFails(w) PROVE Goal
  BY <1>17 DEF PushChildFails, PushToFailed, EndJob
<1>18. ASSUME NEW w \in Worker, AllPushed(w) PROVE Goal
  BY <1>18 DEF AllPushed, EndJob
<1>19. ASSUME NEW w \in Worker, FailedSentOrDropped(w) PROVE Goal
  BY <1>19 DEF FailedSentOrDropped, EndJob
<1>20. ASSUME NEW w \in Worker, SendResult(w) PROVE Goal
  BY <1>20 DEF SendResult, EndJob
<1>21. ASSUME NEW w \in Worker, PumpRuns(w) PROVE Goal
  BY <1>21 DEF PumpRuns
<1>22. ASSUME NEW j \in Job, PusherRuns(j) PROVE Goal
  BY <1>22 DEF PusherRuns
<1>23. ASSUME NEW j \in Job, PushSeed(j) PROVE Goal
  BY <1>23 DEF PushSeed
<1> QED
  BY <1>1, <1>2, <1>3, <1>4, <1>5, <1>6, <1>7, <1>8, <1>9, <1>10, <1>11,
     <1>12, <1>13, <1>14, <1>15, <1>16, <1>17, <1>18, <1>19, <1>20, <1>21,
     <1>22, <1>23 DEF Step

LEMMA ResultReceived ==
    ASSUME IInv, ~crashed, Step, NEW r \in Job, received'[r] # received[r]
    PROVE  \E w \in Worker : worker[w] = "results" /\ job[w] = r
<1> DEFINE Goal == \E w \in Worker : worker[w] = "results" /\ job[w] = r
<1> USE DEF IInv, Typed, memVars, workerVars, statVars, histVars, engineRest, Goto
<1>1. CASE Outside
  BY <1>1 DEF Outside
<1>2. CASE InitJobStarts
  BY <1>2 DEF InitJobStarts
<1>3. CASE InitJobReturns
  BY <1>3 DEF InitJobReturns
<1>4. CASE InitJobFails
  BY <1>4 DEF InitJobFails
<1>5. CASE SpawnWorkers
  BY <1>5 DEF SpawnWorkers
<1>6. CASE StartReturns
  BY <1>6 DEF StartReturns
<1>7. CASE WatchdogDone
  BY <1>7 DEF WatchdogDone
<1>8. CASE WatchdogFires
  BY <1>8 DEF WatchdogFires
<1>9. CASE TimePasses
  BY <1>9 DEF TimePasses
<1>10. ASSUME NEW w \in Worker, CallJobs(w) PROVE Goal
  BY <1>10 DEF CallJobs
<1>11. ASSUME NEW w \in Worker, WorkerDone(w) PROVE Goal
  BY <1>11 DEF WorkerDone
<1>12. ASSUME NEW w \in Worker, WorkerErr(w) PROVE Goal
  BY <1>12 DEF WorkerErr
<1>13. ASSUME NEW w \in Worker, TakeJob(w) PROVE Goal
  BY <1>13 DEF TakeJob
<1>14. ASSUME NEW w \in Worker, DoJobFails(w) PROVE Goal
  BY <1>14 DEF DoJobFails, PushToFailed, EndJob
<1>15. ASSUME NEW w \in Worker, DoJobReturns(w) PROVE Goal
  BY <1>15 DEF DoJobReturns
<1>16. ASSUME NEW w \in Worker, PushChild(w) PROVE Goal
  BY <1>16 DEF PushChild
<1>17. ASSUME NEW w \in Worker, PushChildFails(w) PROVE Goal
  BY <1>17 DEF PushChildFails
<1>18. ASSUME NEW w \in Worker, AllPushed(w) PROVE Goal
  BY <1>18 DEF AllPushed
<1>19. ASSUME NEW w \in Worker, FailedSentOrDropped(w) PROVE Goal
  BY <1>19 DEF FailedSentOrDropped
<1>20. ASSUME NEW w \in Worker, SendResult(w) PROVE Goal
  BY <1>20 DEF SendResult
<1>21. ASSUME NEW w \in Worker, PumpRuns(w) PROVE Goal
  BY <1>21 DEF PumpRuns
<1>22. ASSUME NEW j \in Job, PusherRuns(j) PROVE Goal
  BY <1>22 DEF PusherRuns
<1>23. ASSUME NEW j \in Job, PushSeed(j) PROVE Goal
  BY <1>23 DEF PushSeed
<1> QED
  BY <1>1, <1>2, <1>3, <1>4, <1>5, <1>6, <1>7, <1>8, <1>9, <1>10, <1>11,
     <1>12, <1>13, <1>14, <1>15, <1>16, <1>17, <1>18, <1>19, <1>20, <1>21,
     <1>22, <1>23 DEF Step

\* One more child is pushed: the rest is shorter by one.
LEMMA TailFits ==
    ASSUME NEW C \in Seq(Job), NEW T \in Seq(Job), T # <<>>, Len(T) <= Len(C),
           \A i \in DOMAIN C :
             i <= Len(C) - Len(T) \/ C[i] = T[i - (Len(C) - Len(T))]
    PROVE  /\ Len(Tail(T)) = Len(T) - 1 /\ Len(T) \in Nat /\ Len(C) \in Nat
           /\ \A i \in DOMAIN C :
                IF i <= Len(C) - Len(Tail(T))
                THEN i <= Len(C) - Len(T) \/ C[i] = Head(T)
                ELSE C[i] = Tail(T)[i - (Len(C) - Len(Tail(T)))]
<1>1. /\ Len(Tail(T)) = Len(T) - 1 /\ Len(T) \in Nat /\ Len(C) \in Nat
      /\ Head(T) = T[1] /\ DOMAIN C = 1..Len(C)
      /\ \A k \in 1..(Len(T) - 1) : Tail(T)[k] = T[k + 1]
  OBVIOUS
<1> SUFFICES ASSUME NEW i \in 1..Len(C)
             PROVE  IF i <= Len(C) - Len(Tail(T))
                    THEN i <= Len(C) - Len(T) \/ C[i] = Head(T)
                    ELSE C[i] = Tail(T)[i - (Len(C) - Len(Tail(T)))]
  BY <1>1
<1> DEFINE k == i - (Len(C) - Len(T))
<1>2. k \in Int /\ k <= Len(T) /\ (i <= Len(C) - Len(T) <=> k <= 0)
      /\ (i <= Len(C) - Len(Tail(T)) <=> k <= 1)
      /\ i - (Len(C) - Len(Tail(T))) = k - 1
  BY <1>1
<1>3. k <= 0 \/ C[i] = T[k]
  BY <1>1, <1>2
<1> HIDE DEF k
<1>4. CASE k <= 1
  BY <1>1, <1>2, <1>3, <1>4
<1>5. CASE ~(k <= 1)
  <2>1. k - 1 \in 1..(Len(T) - 1)
    BY <1>1, <1>2, <1>5
  <2>2. Tail(T)[k - 1] = T[k]
    BY <1>1, <1>2, <2>1
  <2> QED
    BY <1>2, <1>3, <1>5, <2>2
<1> QED
  BY <1>4, <1>5

LEMMA ChildrenFirstStep ==
    ASSUME IInv, ~crashed, Step
    PROVE  ChildrenFirst'
<1> USE DEF Pushed, ChildrenPushed, PushedUpTo
<1>1. ASSUME NEW j \in Job
      PROVE  /\ Children[j] \in Seq(Job)
             /\ \A i \in DOMAIN Children[j] :
                  Pushed(Children[j][i]) => pusher'[Children[j][i]] # "none"
  BY TreeAssumption, PushedStays
<1>2. ASSUME NEW v \in Worker
      PROVE  /\ worker'[v] = "push" => PushedUpTo(job[v], todo[v])'
             /\ worker'[v] = "results" => ChildrenPushed(job[v])'
  <2>0. /\ worker[v] \in {"do", "push", "results"} => job[v] \in Job
        /\ worker[v] = "push" => PushedUpTo(job[v], todo[v])
        /\ worker[v] = "results" => ChildrenPushed(job[v])
        /\ worker \in [Worker -> {"off", "start", "select", "sleep", "do", "push",
                                  "results", "fail", "exit"}]
        /\ todo \in [Worker -> Seq(Job)]
    BY DEF IInv, Typed, HasJob, Busy, ChildrenFirst
  <2>1. CASE Elsewhere(v)
    BY <2>1 DEF Elsewhere
  <2>2. CASE Unmoved(v)
    BY <1>1, <2>0, <2>2 DEF Unmoved
  <2>3. CASE DoJobReturns(v)
    <3>1. /\ worker'[v] = "push" /\ job'[v] = job[v] /\ job[v] \in Job
          /\ todo'[v] = Children[job[v]]
      BY <2>0, <2>3 DEF DoJobReturns, Goto
    <3>2. Children[job[v]] \in Seq(Job)
      BY <1>1, <3>1
    <3> QED
      BY <3>1, <3>2
  <2>4. CASE PushChild(v)
    <3>1. /\ worker'[v] = "push" /\ job'[v] = job[v] /\ job[v] \in Job
          /\ todo[v] \in Seq(Job) /\ todo[v] # <<>>
          /\ todo'[v] = Tail(todo[v])
          /\ Head(todo[v]) \in Job
          /\ PushedUpTo(job[v], todo[v])
      BY <2>0, <2>4 DEF PushChild
    <3>2. pusher'[Head(todo[v])] # "none"
      BY <2>4, <3>1, PushEffect DEF PushChild, IInv, MemP!IInv
    <3>3. /\ Len(Tail(todo[v])) = Len(todo[v]) - 1 /\ Len(todo[v]) \in Nat
          /\ Len(Children[job[v]]) \in Nat
          /\ \A i \in DOMAIN Children[job[v]] :
               IF i <= Len(Children[job[v]]) - Len(Tail(todo[v]))
               THEN \/ i <= Len(Children[job[v]]) - Len(todo[v])
                    \/ Children[job[v]][i] = Head(todo[v])
               ELSE Children[job[v]][i]
                      = Tail(todo[v])[i - (Len(Children[job[v]]) - Len(Tail(todo[v])))]
      <4>1. Children[job[v]] \in Seq(Job)
        BY <1>1, <3>1
      <4>2. /\ Len(todo[v]) <= Len(Children[job[v]])
            /\ \A i \in DOMAIN Children[job[v]] :
                 i <= Len(Children[job[v]]) - Len(todo[v])
                 \/ Children[job[v]][i] = todo[v][i - (Len(Children[job[v]]) - Len(todo[v]))]
        BY <3>1
      <4> QED
        BY <3>1, <4>1, <4>2, TailFits
    <3>4. \A i \in DOMAIN Children[job[v]] :
            i <= Len(Children[job[v]]) - Len(todo[v]) => pusher'[Children[job[v]][i]] # "none"
      BY <1>1, <3>1
    <3>5. Len(Tail(todo[v])) <= Len(Children[job[v]])
      BY <3>1, <3>3
    <3> QED
      BY <3>1, <3>2, <3>3, <3>4, <3>5
  <2>5. CASE AllPushed(v) /\ job[v] \in Emit
    <3>1. /\ worker[v] = "push" /\ worker'[v] = "results" /\ job'[v] = job[v]
          /\ job[v] \in Job /\ todo[v] = <<>> /\ PushedUpTo(job[v], todo[v])
      BY <2>0, <2>5 DEF AllPushed, Goto
    <3> QED
      BY <1>1, <3>1
  <2> QED
    BY <2>1, <2>2, <2>3, <2>4, <2>5, WorkerMoves DEF Advances
<1>3. ASSUME NEW j \in Job, received'[j] > 0
      PROVE  \A i \in DOMAIN Children[j] : pusher'[Children[j][i]] # "none"
  <2>1. CASE received'[j] = received[j]
    BY <1>1, <1>3, <2>1 DEF IInv, ChildrenFirst, ResultAfterChildren
  <2>2. CASE received'[j] # received[j]
    <3>1. PICK w \in Worker : worker[w] = "results" /\ job[w] = j
      BY <2>2, ResultReceived
    <3>2. \A i \in DOMAIN Children[j] : pusher[Children[j][i]] # "none"
      BY <3>1 DEF IInv, ChildrenFirst
    <3> QED
      BY <1>1, <3>2
  <2> QED
    BY <2>1, <2>2
<1> QED
  BY <1>2, <1>3 DEF ChildrenFirst, ResultAfterChildren

-----------------------------------------------------------------------------
(***************************************************************************)
(* The statistics.                                                         *)
(***************************************************************************)
Counted == {"push", "results", "fail"}

\* What a step does to them: nothing, or it counts a job, or it is through with
\* a job that was counted; or both at once.
SameStats ==
    /\ completed' + failed' = completed + failed
    /\ UNCHANGED ended
    /\ \A v \in Worker : worker'[v] \in Counted <=> worker[v] \in Counted

Counts(w) ==
    /\ completed' + failed' = completed + failed + 1
    /\ worker[w] \notin Counted
    /\ \/ UNCHANGED ended /\ \E x \in Counted : worker' = [worker EXCEPT ![w] = x]
       \/ job[w] \in Job /\ EndJob(w)

Leaves(w) ==
    /\ completed' + failed' = completed + failed
    /\ worker[w] \in Counted
    /\ job[w] \in Job /\ EndJob(w)

LEMMA StatsMove ==
    ASSUME IInv, ~crashed, Step, ~PushMayFail
    PROVE  SameStats \/ \E w \in Worker : Counts(w) \/ Leaves(w)
<1> DEFINE Goal == SameStats \/ \E w \in Worker : Counts(w) \/ Leaves(w)
<1> USE DEF IInv, Typed, Counted, memVars, workerVars, statVars, histVars,
    engineRest, Goto
<1>1. CASE Outside
  BY <1>1 DEF Outside, SameStats
<1>2. CASE InitJobStarts
  BY <1>2 DEF InitJobStarts, SameStats
<1>3. CASE InitJobReturns
  BY <1>3 DEF InitJobReturns, SameStats
<1>4. CASE InitJobFails
  BY <1>4 DEF InitJobFails, SameStats
<1>5. CASE SpawnWorkers
  BY <1>5 DEF SpawnWorkers, SameStats, Phases
<1>6. CASE StartReturns
  BY <1>6 DEF StartReturns, SameStats
<1>7. CASE WatchdogDone
  BY <1>7 DEF WatchdogDone, SameStats
<1>8. CASE WatchdogFires
  BY <1>8 DEF WatchdogFires, SameStats
<1>9. CASE TimePasses
  BY <1>9 DEF TimePasses, SameStats
<1>10. ASSUME NEW w \in Worker, CallJobs(w) PROVE Goal
  BY <1>10 DEF CallJobs, SameStats
<1>11. ASSUME NEW w \in Worker, WorkerDone(w) PROVE Goal
  BY <1>11 DEF WorkerDone, SameStats
<1>12. ASSUME NEW w \in Worker, WorkerErr(w) PROVE Goal
  BY <1>12 DEF WorkerErr, SameStats
<1>13. ASSUME NEW w \in Worker, TakeJob(w) PROVE Goal
  BY <1>13 DEF TakeJob, SameStats
<1>14. ASSUME NEW w \in Worker, DoJobFails(w) PROVE Goal
  <2>1. failed' = failed + 1 /\ completed' = completed /\ job[w] \in Job
    BY <1>14 DEF DoJobFails, PushToFailed, HasJob, Busy
  <2>2. \/ UNCHANGED ended /\ worker' = [worker EXCEPT ![w] = "fail"]
        \/ EndJob(w)
    BY <1>14 DEF DoJobFails, PushToFailed
  <2>3. worker[w] \notin Counted
    BY <1>14 DEF DoJobFails
  <2>4. Counts(w)
    BY <2>1, <2>2, <2>3 DEF Counts
  <2> QED
    BY <2>4
<1>15. ASSUME NEW w \in Worker, DoJobReturns(w) PROVE Goal
  <2>1. completed' = completed + 1 /\ failed' = failed /\ UNCHANGED ended
    BY <1>15 DEF DoJobReturns
  <2>2. worker[w] \notin Counted /\ worker' = [worker EXCEPT ![w] = "push"]
    BY <1>15 DEF DoJobReturns
  <2>3. Counts(w)
    BY <2>1, <2>2 DEF Counts
  <2> QED
    BY <2>3
<1>16. ASSUME NEW w \in Worker, PushChild(w) PROVE Goal
  BY <1>16 DEF PushChild, SameStats
<1>17. ASSUME NEW w \in Worker, PushChildFails(w) PROVE Goal
  BY <1>17 DEF PushChildFails, SameStats
<1>18. ASSUME NEW w \in Worker, AllPushed(w) PROVE Goal
  BY <1>18 DEF AllPushed, SameStats, Leaves, HasJob, Busy
<1>19. ASSUME NEW w \in Worker, FailedSentOrDropped(w) PROVE Goal
  BY <1>19 DEF FailedSentOrDropped, Leaves, HasJob, Busy
<1>20. ASSUME NEW w \in Worker, SendResult(w) PROVE Goal
  BY <1>20 DEF SendResult, Leaves, HasJob, Busy
<1>21. ASSUME NEW w \in Worker, PumpRuns(w) PROVE Goal
  BY <1>21 DEF PumpRuns, SameStats
<1>22. ASSUME NEW j \in Job, PusherRuns(j) PROVE Goal
  BY <1>22 DEF PusherRuns, SameStats
<1>23. ASSUME NEW j \in Job, PushSeed(j) PROVE Goal
  BY <1>23 DEF PushSeed, SameStats
<1> QED
  BY <1>1, <1>2, <1>3, <1>4, <1>5, <1>6, <1>7, <1>8, <1>9, <1>10, <1>11,
     <1>12, <1>13, <1>14, <1>15, <1>16, <1>17, <1>18, <1>19, <1>20, <1>21,
     <1>22, <1>23 DEF Step

LEMMA StatsCountedStep ==
    ASSUME IInv, ~crashed, Step
    PROVE  StatsCounted'
<1> DEFINE B  == {w \in Worker : worker[w] \in {"push", "results", "fail"}}
           BB == {w \in Worker : worker'[w] \in {"push", "results", "fail"}}
           D  == {j \in Job : ended[j] = 1}
           DD == {j \in Job : ended'[j] = 1}
<1> SUFFICES ASSUME ~PushMayFail
             PROVE  completed' + failed' = Cardinality(DD) + Cardinality(BB)
  BY DEF StatsCounted, StatsCountEachJobOnce
<1>0. /\ completed + failed = Cardinality(D) + Cardinality(B)
      /\ completed \in Nat /\ failed \in Nat
      /\ worker \in [Worker -> {"off", "start", "select", "sleep", "do", "push",
                                "results", "fail", "exit"}]
      /\ ended \in [Job -> Nat]
      /\ IsFiniteSet(Worker) /\ IsFiniteSet(Job)
  BY ProviderAssumption DEF IInv, Typed, StatsCounted, StatsCountEachJobOnce
<1>1. /\ B \in SUBSET Worker /\ BB \in SUBSET Worker
      /\ D \in SUBSET Job /\ DD \in SUBSET Job
      /\ \A v \in Worker : v \in B <=> worker[v] \in Counted
      /\ \A v \in Worker : v \in BB <=> worker'[v] \in Counted
      /\ \A j \in Job : j \in D <=> ended[j] = 1
      /\ \A j \in Job : j \in DD <=> ended'[j] = 1
  BY DEF Counted
<1> HIDE DEF B, BB, D, DD
<1>2. Cardinality(B) \in Nat /\ Cardinality(D) \in Nat
  BY <1>0, <1>1, FS_Subset, FS_CardinalityType
<1>3. CASE SameStats
  <2>1. BB = B /\ DD = D
    BY <1>1, <1>3 DEF SameStats
  <2> QED
    BY <1>0, <1>3, <2>1 DEF SameStats
<1>4. ASSUME NEW w \in Worker, \A v \in Worker \ {w} : worker'[v] = worker[v]
      PROVE  /\ Cardinality(BB) \in Nat
             /\ Cardinality(BB) + (IF w \in B THEN 1 ELSE 0)
                  = Cardinality(B) + (IF w \in BB THEN 1 ELSE 0)
  <2>1. \A v \in Worker \ {w} : v \in B <=> v \in BB
    BY <1>1, <1>4
  <2> QED
    BY <1>0, <1>1, <2>1, SetUpdate
<1>5. ASSUME NEW w \in Worker, job[w] \in Job, EndJob(w)
      PROVE  /\ Cardinality(DD) = Cardinality(D) + 1
             /\ w \notin BB /\ \A v \in Worker \ {w} : worker'[v] = worker[v]
  <2>1. ended[job[w]] = 0
    BY <1>5, HeldNotEnded
  <2>2. /\ ended' = [ended EXCEPT ![job[w]] = @ + 1]
        /\ worker' = [worker EXCEPT ![w] = "select"]
    BY <1>5 DEF EndJob, Goto
  <2>3. job[w] \in DD /\ job[w] \notin D
    BY <1>0, <1>1, <1>5, <2>1, <2>2
  <2>4. \A j \in Job \ {job[w]} : j \in D <=> j \in DD
    BY <1>0, <1>1, <1>5, <2>2
  <2>5. Cardinality(DD) \in Nat /\ Cardinality(DD) + 0 = Cardinality(D) + 1
    BY <1>0, <1>1, <1>5, <2>3, <2>4, SetUpdate
  <2>6. worker'[w] = "select"
    BY <1>0, <2>2
  <2>7. w \notin BB
    BY <1>1, <2>6 DEF Counted
  <2> QED
    BY <1>0, <1>2, <2>2, <2>5, <2>7
<1>6. ASSUME NEW w \in Worker, Counts(w)
      PROVE  completed' + failed' = Cardinality(DD) + Cardinality(BB)
  <2>1. w \notin B
    BY <1>1, <1>6 DEF Counts
  <2>2. ASSUME UNCHANGED ended, NEW x \in Counted, worker' = [worker EXCEPT ![w] = x]
        PROVE  completed' + failed' = Cardinality(DD) + Cardinality(BB)
    <3>1. worker'[w] = x /\ \A v \in Worker \ {w} : worker'[v] = worker[v]
      BY <1>0, <2>2
    <3>2. w \in BB /\ DD = D
      BY <1>1, <2>2, <3>1
    <3>3. Cardinality(BB) \in Nat /\ Cardinality(BB) = Cardinality(B) + 1
      BY <1>2, <1>4, <2>1, <3>1, <3>2
    <3> QED
      BY <1>0, <1>2, <1>6, <3>2, <3>3 DEF Counts
  <2>3. CASE job[w] \in Job /\ EndJob(w)
    BY <1>0, <1>2, <1>4, <1>5, <1>6, <2>1, <2>3 DEF Counts
  <2> QED
    BY <1>6, <2>2, <2>3 DEF Counts
<1>7. ASSUME NEW w \in Worker, Leaves(w)
      PROVE  completed' + failed' = Cardinality(DD) + Cardinality(BB)
  <2>1. w \in B
    BY <1>1, <1>7 DEF Leaves
  <2> QED
    BY <1>0, <1>2, <1>4, <1>5, <1>7, <2>1 DEF Leaves
<1> QED
  BY <1>3, <1>6, <1>7, StatsMove

-----------------------------------------------------------------------------
LEMMA IInvStep ==
    ASSUME IInv, ~crashed, Step
    PROVE  IInv'
  BY ProviderStepKeeps, TypedStep, PhasesStep, StaysStep, HasJobStep, AccountedStep,
     ResultsCountedStep, ChildrenFirstStep, StatsCountedStep DEF IInv

LEMMA IInvStutter == IInv /\ UNCHANGED vars => IInv'
<1> SUFFICES ASSUME IInv, UNCHANGED vars PROVE IInv'
  OBVIOUS
<1>1. UNCHANGED Mem!vars
  BY DEF vars, memVars, Mem!vars
<1>2. MemP!IInv'
  BY <1>1, SameProvider, ProviderAssumptions, MemP!IInvStep DEF IInv
<1> QED
  BY <1>2 DEF IInv, vars, memVars, workerVars, statVars, histVars, engineRest,
     Goto, Typed, Phases, StaysWhileLive, Done, HasJob, Busy, Accounted,
     ResultsCounted, ChildrenFirst, ResultAfterChildren, PushedUpTo,
     ChildrenPushed, Pushed, StatsCounted, StatsCountEachJobOnce

\* The inductive invariant.
THEOREM Invariance == Spec => []IInv
<1>1. IInv /\ [Next]_vars => IInv'
  BY IInvStep, IInvStutter, NextIsStep DEF IInv
<1> QED
  BY InitHolds, <1>1, PTL DEF Spec

-----------------------------------------------------------------------------
\* The engine uses the provider as its interface allows: what its goroutines do
\* to the provider's state are steps of MemoryProvider.
THEOREM RunsOnProvider == Spec => Mem!Init /\ [][Mem!Next]_(Mem!vars)
<1>1. Init => Mem!Init
  BY DEF Init
<1>2. IInv /\ [Next]_vars => [Mem!Next]_(Mem!vars)
  <2>1. UNCHANGED vars => UNCHANGED Mem!vars
    BY DEF vars, memVars, Mem!vars
  <2> QED
    BY <2>1, ProviderMoves, NextIsStep DEF IInv
<1> QED
  BY Invariance, <1>1, <1>2, PTL DEF Spec

\* A job ends at most once.
LEMMA EndsOnce ==
    ASSUME IInv, NEW j \in Job
    PROVE  /\ Cardinality({w \in Worker : job[w] = j}) \in Nat
           /\ Cardinality({w \in Worker : holding[w] = j}) \in Nat
           /\ ended[j] \in Nat /\ delivered[j] \in Nat
           /\ Cardinality({w \in Worker : holding[w] = j}) + delivered[j]
                = IF pusher[j] = "sent" THEN 1 ELSE 0
           /\ Cardinality({w \in Worker : job[w] = j}) + ended[j] = delivered[j]
<1>1. /\ Cardinality({w \in Worker : job[w] = j}) \in Nat
      /\ Cardinality({w \in Worker : holding[w] = j}) \in Nat
  BY ProviderAssumption, FS_Subset, FS_CardinalityType
<1> QED
  BY <1>1, SameCardinality
     DEF IInv, Typed, Accounted, MemP!IInv, MemP!Typed, MemP!JobInOnePlace

LEMMA IInvTypeOK == IInv => TypeOK
<1> SUFFICES ASSUME IInv PROVE TypeOK
  OBVIOUS
<1>0. \A j \in Job : delivered[j] \in {0, 1} /\ ended[j] \in {0, 1}
  <2> TAKE j \in Job
  <2>1. /\ \E h \in Nat : delivered[j] \in Nat /\ h + delivered[j] \in {0, 1}
        /\ \E h \in Nat : ended[j] \in Nat /\ h + ended[j] = delivered[j]
    BY EndsOnce
  <2> QED
    BY <2>1
<1>1. Mem!TypeOK
  <2>1. delivered \in [Job -> {0, 1}]
    BY <1>0 DEF IInv, MemP!IInv, MemP!Typed
  <2> QED
    BY <2>1 DEF IInv, MemP!IInv, MemP!Typed, Mem!TypeOK
<1>3. \A j \in Job : received[j] \in {0, 1}
  BY DEF IInv, ResultsCounted
<1>4. ended \in [Job -> {0, 1}] /\ received \in [Job -> {0, 1}]
  BY <1>0, <1>3 DEF IInv, Typed
<1> QED
  BY <1>1, <1>4 DEF IInv, Typed, TypeOK, Cause

LEMMA IInvAccounted == IInv => JobAccounted
<1> SUFFICES ASSUME IInv, NEW j \in Job
             PROVE  (IF pusher[j] \in {"started", "parked"} THEN 1 ELSE 0)
                    + Cardinality({w \in Worker : holding[w] = j})
                    + Cardinality({w \in Worker : job[w] = j})
                    + ended[j]
                      = IF pusher[j] \in {"none", "quit"} THEN 0 ELSE 1
  BY DEF JobAccounted
<1>1. pusher[j] \in {"none", "started", "parked", "sent", "quit"}
  BY DEF IInv, MemP!IInv, MemP!Typed
<1> DEFINE H == Cardinality({w \in Worker : holding[w] = j})
           W == Cardinality({w \in Worker : job[w] = j})
<1>0. /\ W \in Nat /\ H \in Nat /\ ended[j] \in Nat /\ delivered[j] \in Nat
      /\ H + delivered[j] = (IF pusher[j] = "sent" THEN 1 ELSE 0)
      /\ W + ended[j] = delivered[j]
  BY EndsOnce, Zenon
<1> HIDE DEF H, W
<1>2. CASE pusher[j] = "sent"
  BY <1>0, <1>2 DEF H, W
<1>3. CASE pusher[j] # "sent"
  <2>1. H + delivered[j] = 0
    BY <1>0, <1>3
  <2>2. H = 0 /\ delivered[j] = 0
    BY <1>0, <2>1
  <2>3. W = 0 /\ ended[j] = 0
    BY <1>0, <2>2
  <2> QED
    BY <1>1, <1>3, <2>2, <2>3 DEF H, W
<1> QED
  BY <1>2, <1>3

\* Every variable has its type: each job is run and its result is received at
\* most once.
THEOREM TypeCorrect == Spec => []TypeOK
  BY Invariance, IInvTypeOK, PTL

\* For any number of workers, no worker is left that could send on a channel
\* that Start has closed.
THEOREM ClosedAfterLastSendAlways == Spec => []ClosedAfterLastSend
<1>1. IInv => ClosedAfterLastSend
  BY DEF IInv, Phases, ClosedAfterLastSend
<1> QED
  BY Invariance, <1>1, PTL

\* For any jobs and workers, a pushed job is with its pusher, a pump or a worker,
\* or finished with: none is run twice, and none is lost while the context lives.
THEOREM JobAccountedAlways == Spec => []JobAccounted
  BY Invariance, IInvAccounted, PTL

\* With a provider whose Push does not fail, the counters of the statistics add
\* up to the jobs that were run.
THEOREM StatsCountEachJobOnceAlways ==
    ASSUME ~PushMayFail
    PROVE  Spec => []StatsCountEachJobOnce
<1>1. IInv => StatsCountEachJobOnce
  BY DEF IInv, StatsCounted
<1> QED
  BY Invariance, <1>1, PTL

\* The result of a job that succeeded is received, once.
THEOREM NoResultLostAlways == Spec => []NoResultLost
<1>1. IInv => NoResultLost
  BY DEF IInv, Typed, ResultsCounted, NoResultLost
<1> QED
  BY Invariance, <1>1, PTL

\* When a result is received, the children of its job have been pushed.
THEOREM ResultAfterChildrenAlways == Spec => []ResultAfterChildren
<1>1. IInv => ResultAfterChildren
  BY DEF IInv, ChildrenFirst
<1> QED
  BY Invariance, <1>1, PTL

\* No goroutine gives up and no nil job arrives before the context is done.
THEOREM StaysWhileLiveAlways == Spec => []StaysWhileLive
<1>1. IInv => StaysWhileLive
  BY DEF IInv
<1> QED
  BY Invariance, <1>1, PTL

-----------------------------------------------------------------------------
(***************************************************************************)
(* The engine keeps the promise of Scraper.                                *)
(***************************************************************************)
\* Steps that leave the jobs where they are.
LEMMA PromiseFrame ==
    ASSUME UNCHANGED <<job, ended, succeeded, received>>,
           (main' = "returned") = (main = "returned"),
           \A k \in Job : Pushed(k)' <=> Pushed(k)
    PROVE  UNCHANGED Promise!vars
<1>1. {k \in Job : pusher[k] # "none"}' = {k \in Job : pusher[k] # "none"}
  BY DEF Pushed
<1>2. UNCHANGED <<{k \in Job : ended[k] # 0}, {k \in Job : received[k] # 0}>>
  OBVIOUS
<1> QED
  BY <1>1, <1>2 DEF Promise!vars

\* A worker that ends its job ends it in the abstract engine, too.
LEMMA PromiseEnd ==
    ASSUME IInv, NEW w \in Worker, Busy(w), ~crashed, EndJob(w),
           UNCHANGED <<pusher, main>>
    PROVE  Promise!End(w)
<1>1. job[w] \in Job /\ job[w] # Nil
  BY ProviderAssumption DEF IInv, HasJob
<1>2. {j \in Job : ended[j] # 0}' = {j \in Job : ended[j] # 0} \cup {job[w]}
  BY <1>1 DEF EndJob, IInv, Typed
<1> QED
  BY <1>1, <1>2 DEF EndJob, Promise!End

LEMMA PromiseSucceed ==
    ASSUME IInv, NEW w \in Worker, Busy(w), ~crashed, EndJob(w),
           UNCHANGED <<pusher, main>>,
           ChildrenPushed(job[w]), succeeded' = succeeded \cup {job[w]},
           received' = IF job[w] \in Emit THEN [received EXCEPT ![job[w]] = @ + 1] ELSE received
    PROVE  Promise!Next
<1>1. job[w] \in Job
  BY DEF IInv, HasJob
<1>2. {j \in Job : received[j] # 0}'
        = {j \in Job : received[j] # 0} \cup ({job[w]} \cap Emit)
  BY <1>1 DEF IInv, Typed
<1>3. Promise!ChildrenOf(job[w]) \subseteq {j \in Job : pusher[j] # "none"}
  <2>1. \A i \in DOMAIN Children[job[w]] : Children[job[w]][i] \in Job
    BY <1>1, TreeAssumption
  <2> QED
    BY <2>1 DEF ChildrenPushed, Pushed, Promise!ChildrenOf
<1>4. Promise!Succeed(w)
  BY <1>2, <1>3, PromiseEnd DEF Promise!Succeed
<1> QED
  BY <1>4 DEF Promise!Next

LEMMA PromiseFail ==
    ASSUME IInv, NEW w \in Worker, Busy(w), ~crashed, EndJob(w),
           UNCHANGED <<pusher, main, succeeded, received>>
    PROVE  Promise!Next
<1>1. Promise!End(w)
  BY PromiseEnd
<1>2. Promise!Fail(w)
  BY <1>1 DEF Promise!Fail
<1> QED
  BY <1>2 DEF Promise!Next

\* What a pump holds was pushed, and no worker has run it or is running it.
LEMMA HeldIsNew ==
    ASSUME IInv, NEW w \in Worker, holding[w] \in Job
    PROVE  /\ Pushed(holding[w]) /\ ended[holding[w]] = 0
           /\ \A v \in Worker : job[v] # holding[w]
<1> DEFINE j == holding[w]
           H == {v \in Worker : holding[v] = j}
           R == {v \in Worker : job[v] = j}
<1>1. IsFiniteSet(H) /\ IsFiniteSet(R) /\ Cardinality(H) \in Nat /\ Cardinality(R) \in Nat
  BY ProviderAssumption, FS_Subset, FS_CardinalityType
<1>2. Cardinality(H) # 0
  <2>1. w \in H
    OBVIOUS
  <2> QED
    BY <1>1, <2>1, FS_EmptySet
<1>3. /\ Cardinality(H) + delivered[j] = IF pusher[j] = "sent" THEN 1 ELSE 0
      /\ Cardinality(R) + ended[j] = delivered[j]
      /\ ended[j] \in Nat /\ delivered[j] \in Nat
  BY EndsOnce
<1> HIDE DEF j, H, R
<1>4. pusher[j] = "sent" /\ Cardinality(R) = 0 /\ ended[j] = 0
  BY <1>1, <1>2, <1>3
<1>5. R = {}
  BY <1>1, <1>4, FS_EmptySet
<1> QED
  BY <1>4, <1>5 DEF Pushed, j, R

LEMMA PromiseTake ==
    ASSUME IInv, NEW w \in Worker, TakeJob(w)
    PROVE  Promise!Next \/ UNCHANGED Promise!vars
<1>1. /\ worker[w] = "select" /\ job' = [job EXCEPT ![w] = holding[w]]
      /\ UNCHANGED <<pusher, main, ended, succeeded, received>>
  BY DEF TakeJob, Mem!Deliver, engineRest, histVars
<1>2. job[w] = Nil /\ main # "returned" /\ job \in [Worker -> Job \cup {Nil}]
  BY <1>1 DEF IInv, HasJob, Busy, Phases, Typed
<1>3. CASE holding[w] = Nil
  <2>1. job' = job
    BY <1>1, <1>2, <1>3
  <2> QED
    BY <1>1, <2>1, PromiseFrame DEF Pushed
<1>4. CASE holding[w] \in Job
  <2>1. /\ Pushed(holding[w]) /\ ended[holding[w]] = 0
        /\ \A v \in Worker : job[v] # holding[w]
    BY <1>4, HeldIsNew
  <2>2. Promise!Begin(w, holding[w])
    BY <1>1, <1>2, <1>4, <2>1 DEF Promise!Begin, Pushed
  <2> QED
    BY <1>4, <2>2 DEF Promise!Next
<1> QED
  BY <1>3, <1>4 DEF IInv, MemP!IInv, MemP!Typed

LEMMA PromisePush ==
    ASSUME IInv, NEW j \in Job, Mem!Push(j),
           UNCHANGED <<job, ended, succeeded, received, main>>,
           j \in Seed \/ \E w \in Worker : job[w] # Nil /\ j \in Promise!ChildrenOf(job[w])
    PROVE  Promise!Next
<1>1. {k \in Job : pusher[k] # "none"}' = {k \in Job : pusher[k] # "none"} \cup {j}
  BY DEF Mem!Push, IInv, MemP!IInv, MemP!Typed
<1>2. pusher[j] = "none"
  BY DEF Mem!Push
<1>3. Promise!Push(j)
  BY <1>1, <1>2 DEF Promise!Push
<1> QED
  BY <1>3 DEF Promise!Next

LEMMA PromiseStep ==
    ASSUME IInv, ~crashed, Step
    PROVE  Promise!Next \/ UNCHANGED Promise!vars
<1> USE DEF memVars, workerVars, statVars, histVars, engineRest
<1>0. MemP!Typed /\ Typed
  BY DEF IInv, MemP!IInv
<1>1. CASE \/ Outside \/ InitJobStarts \/ InitJobReturns \/ SpawnWorkers
           \/ WatchdogDone \/ WatchdogFires \/ TimePasses
  BY <1>1, PromiseFrame DEF Outside, InitJobStarts, InitJobReturns, SpawnWorkers,
     WatchdogDone, WatchdogFires, TimePasses, Pushed
<1>2. CASE InitJobFails \/ StartReturns
  <2>1. \A w \in Worker : job[w] = Nil
    BY <1>2 DEF InitJobFails, StartReturns, IInv, Phases, HasJob, Busy
  <2>2. /\ main # "returned" /\ main' = "returned"
        /\ UNCHANGED <<pusher, job, ended, succeeded, received>>
    BY <1>2 DEF InitJobFails, StartReturns
  <2>3. Promise!Return
    BY <2>1, <2>2 DEF Promise!Return
  <2> QED
    BY <2>3 DEF Promise!Next
<1>3. ASSUME NEW w \in Worker, CallJobs(w) \/ WorkerErr(w) \/ PumpRuns(w)
      PROVE  UNCHANGED Promise!vars
  <2>1. \A k \in Job : Pushed(k)' <=> Pushed(k)
    BY <1>0, <1>3, BackgroundEffect DEF CallJobs, WorkerErr, PumpRuns
  <2> QED
    BY <1>3, <2>1, PromiseFrame DEF CallJobs, WorkerErr, PumpRuns
<1>4. ASSUME NEW j \in Job, PusherRuns(j)
      PROVE  UNCHANGED Promise!vars
  <2>1. \A k \in Job : Pushed(k)' <=> Pushed(k)
    BY <1>0, <1>4, BackgroundEffect DEF PusherRuns
  <2> QED
    BY <1>4, <2>1, PromiseFrame DEF PusherRuns
<1>5. ASSUME NEW w \in Worker, WorkerDone(w) \/ DoJobReturns(w)
      PROVE  UNCHANGED Promise!vars
  BY <1>5, PromiseFrame DEF WorkerDone, DoJobReturns, Pushed
<1>6. ASSUME NEW w \in Worker, DoJobFails(w) \/ PushChildFails(w)
      PROVE  Promise!Next \/ UNCHANGED Promise!vars
  <2>1. CASE UseFailed
    BY <1>6, <2>1, PromiseFrame DEF DoJobFails, PushChildFails, PushToFailed, Pushed
  <2>2. CASE ~UseFailed
    <3>1. /\ Busy(w) /\ EndJob(w)
          /\ UNCHANGED <<pusher, main, succeeded, received>>
      BY <1>6, <2>2 DEF DoJobFails, PushChildFails, PushToFailed, Busy
    <3> QED
      BY <3>1, PromiseFail
  <2> QED
    BY <2>1, <2>2
<1>7. ASSUME NEW w \in Worker, FailedSentOrDropped(w)
      PROVE  Promise!Next
  BY <1>7, PromiseFail DEF FailedSentOrDropped, Busy
<1>8. ASSUME NEW w \in Worker, AllPushed(w)
      PROVE  Promise!Next \/ UNCHANGED Promise!vars
  <2>1. CASE job[w] \in Emit
    BY <1>8, <2>1, PromiseFrame DEF AllPushed, Pushed
  <2>2. CASE job[w] \notin Emit
    <3>1. /\ Busy(w) /\ EndJob(w) /\ succeeded' = succeeded \cup {job[w]}
          /\ UNCHANGED <<pusher, main, received>>
      BY <1>8, <2>2 DEF AllPushed, Busy
    <3>2. ChildrenPushed(job[w])
      <4>1. job[w] \in Job /\ PushedUpTo(job[w], <<>>)
        BY <1>8, <3>1 DEF AllPushed, IInv, ChildrenFirst, HasJob
      <4>2. \A i \in DOMAIN Children[job[w]] : i <= Len(Children[job[w]]) - Len(<<>>)
        BY <4>1, TreeAssumption
      <4> QED
        BY <4>1, <4>2 DEF PushedUpTo, ChildrenPushed
    <3> QED
      BY <2>2, <3>1, <3>2, PromiseSucceed
  <2> QED
    BY <2>1, <2>2
<1>9. ASSUME NEW w \in Worker, SendResult(w)
      PROVE  Promise!Next
  <2>1. /\ Busy(w) /\ EndJob(w) /\ succeeded' = succeeded \cup {job[w]}
        /\ received' = [received EXCEPT ![job[w]] = @ + 1]
        /\ UNCHANGED <<pusher, main>>
    BY <1>9 DEF SendResult, Busy
  <2>2. job[w] \in Emit /\ ChildrenPushed(job[w])
    BY <1>9 DEF SendResult, IInv, HasJob, ChildrenFirst
  <2> QED
    BY <2>1, <2>2, PromiseSucceed
<1>10. ASSUME NEW w \in Worker, PushChild(w)
       PROVE  Promise!Next
  <2>1. /\ worker[w] = "push" /\ todo[w] # <<>> /\ Mem!Push(Head(todo[w]))
        /\ UNCHANGED <<job, ended, succeeded, received, main>>
    BY <1>10 DEF PushChild
  <2>2. job[w] \in Job /\ job[w] # Nil /\ PushedUpTo(job[w], todo[w]) /\ todo[w] \in Seq(Job)
    BY <1>0, <2>1, ProviderAssumption DEF IInv, HasJob, Busy, ChildrenFirst, Typed
  <2>3. Head(todo[w]) \in Promise!ChildrenOf(job[w])
    <3> DEFINE n == Len(Children[job[w]])  left == Len(todo[w])
    <3>1. /\ DOMAIN Children[job[w]] = 1..n /\ n \in Nat /\ left \in Nat
          /\ left > 0 /\ left <= n /\ Head(todo[w]) = todo[w][1]
      BY <2>1, <2>2, TreeAssumption DEF PushedUpTo
    <3>2. \A i \in DOMAIN Children[job[w]] :
            ~(i <= n - left) => Children[job[w]][i] = todo[w][i - (n - left)]
      BY <2>2 DEF PushedUpTo
    <3> HIDE DEF n, left
    <3>3. /\ n - left + 1 \in 1..n /\ ~(n - left + 1 <= n - left)
          /\ (n - left + 1) - (n - left) = 1
      BY <3>1
    <3>4. Children[job[w]][n - left + 1] = todo[w][1]
      BY <3>1, <3>2, <3>3
    <3> QED
      BY <3>1, <3>3, <3>4 DEF Promise!ChildrenOf
  <2>4. Head(todo[w]) \in Job
    BY <2>1, <2>2
  <2> QED
    BY <2>1, <2>2, <2>3, <2>4, PromisePush
<1>11. ASSUME NEW j \in Job, PushSeed(j)
       PROVE  Promise!Next
  BY <1>11, PromisePush DEF PushSeed
<1> QED
  BY <1>1, <1>2, <1>3, <1>4, <1>5, <1>6, <1>7, <1>8, <1>9, <1>10, <1>11, PromiseTake DEF Step

LEMMA PromiseInit == Init => Promise!Init
<1> SUFFICES ASSUME Init PROVE Promise!Init
  OBVIOUS
<1>1. /\ pusher = [j \in Job |-> "none"] /\ ended = [j \in Job |-> 0]
      /\ received = [j \in Job |-> 0] /\ job = [w \in Worker |-> Nil]
      /\ succeeded = {} /\ main = "init"
  BY DEF Init, Mem!Init
<1> QED
  BY <1>1 DEF Promise!Init

LEMMA PromiseStutters == UNCHANGED vars => UNCHANGED Promise!vars
  BY PromiseFrame DEF vars, memVars, workerVars, histVars, Pushed

\* For any tree of jobs, any workers and all options every step of the engine is
\* a step of the abstract Scraper or leaves the jobs where they are.
THEOREM KeepsPromiseAlways == Spec => KeepsPromise
<1>1. IInv /\ [Next]_vars => [Promise!Next]_(Promise!vars)
  BY PromiseStep, PromiseStutters, NextIsStep DEF IInv
<1> QED
  BY PromiseInit, <1>1, Invariance, PTL DEF Spec, KeepsPromise, Promise!Spec

\* After Start only the environment and the provider's goroutines take steps.
LEMMA Quiet ==
    ASSUME IInv, ~crashed, Step, main = "returned"
    PROVE  UNCHANGED <<main, workerVars, watchdog, completed, failed, histVars>>
<1> USE DEF workerVars, statVars, histVars, engineRest
<1>1. watchdog # "run" /\ \A w \in Worker : worker[w] \in {"off", "exit"}
  BY DEF IInv, Phases
<1>2. CASE Outside \/ TimePasses \/ \E j \in Job : PusherRuns(j) \/ PushSeed(j)
  BY <1>2 DEF Outside, TimePasses, PusherRuns, PushSeed
<1>3. CASE \E w \in Worker : PumpRuns(w)
  BY <1>3 DEF PumpRuns
<1>4. ~\/ InitJobStarts \/ InitJobReturns \/ InitJobFails \/ SpawnWorkers
       \/ StartReturns \/ WatchdogDone \/ WatchdogFires
  BY <1>1 DEF InitJobStarts, InitJobReturns, InitJobFails, SpawnWorkers,
     StartReturns, WatchdogDone, WatchdogFires
<1>5. ASSUME NEW w \in Worker
      PROVE  ~\/ CallJobs(w) \/ WorkerDone(w) \/ WorkerErr(w) \/ TakeJob(w)
              \/ DoJobFails(w) \/ DoJobReturns(w)
              \/ PushChild(w) \/ PushChildFails(w) \/ AllPushed(w)
              \/ FailedSentOrDropped(w) \/ SendResult(w)
  BY <1>1 DEF CallJobs, WorkerDone, WorkerErr, TakeJob, DoJobFails, DoJobReturns,
     PushChild, PushChildFails, AllPushed, FailedSentOrDropped, SendResult
<1> QED
  BY <1>2, <1>3, <1>4, <1>5 DEF Step

\* For any workers and any tree of jobs, what Start has done is final when it has
\* returned.
THEOREM QuietAfterReturnAlways == Spec => QuietAfterReturn
<1>1. IInv /\ [Next]_vars =>
        [main = "returned" =>
           UNCHANGED <<main, workerVars, watchdog, completed, failed, histVars>>]_vars
  BY Quiet, NextIsStep DEF IInv
<1> QED
  BY <1>1, Invariance, PTL DEF Spec, QuietAfterReturn
=============================================================================
