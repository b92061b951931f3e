---------------------------- MODULE MemoryProvider ----------------------------
(***************************************************************************)
(* The in-memory job provider: adapters/providers/memory/memory.go.        *)
(*                                                                         *)
(* Push starts a goroutine that offers the job on the unbuffered channel   *)
(* of its priority and returns at once.  Jobs starts a goroutine, here the *)
(* pump of the worker that called it, which polls the three channels in    *)
(* the order of their priority with three nested selects and sends what it *)
(* takes on the worker's own unbuffered channel.                           *)
(*                                                                         *)
(* A select with a default clause only sees senders that are parked on the *)
(* channel, so a sender is "started" until it parks.  The done channel of  *)
(* the pusher's context may close before or after that of the pump's: a    *)
(* seed is pushed under the application's context, a child under the       *)
(* engine's.  A parked sender may therefore still be received after ctx is *)
(* done, and may quit only then.                                           *)
(***************************************************************************)
EXTENDS Naturals, FiniteSets

CONSTANTS
    Job,        \* jobs
    Worker,     \* callers of Jobs, one pump each
    Priority,   \* channel of each job: 0, 1 or 2 for p0, p1, p2
    Nil         \* the nil IJob

ASSUME JobAssumption == IsFiniteSet(Job) /\ Nil \notin Job
ASSUME PumpAssumption == IsFiniteSet(Worker)
ASSUME PriorityAssumption == Priority \in [Job -> 0..2]

VARIABLES
    ctx,        \* the context: live, canceled or past its deadline
    pusher,     \* the goroutine of Push(job)
    pump,       \* the goroutine of Jobs, by the select it is at
    holding,    \* the pump's local variable job
    errc,       \* contents of the error channel of Jobs (capacity 1)
    delivered,  \* how often each job was received by a worker (history)
    overtaken   \* lower-priority jobs taken while this one was parked (history)

vars == <<ctx, pusher, pump, holding, errc, delivered, overtaken>>

TypeOK ==
    /\ ctx \in {"live", "canceled", "deadline"}
    /\ pusher \in [Job -> {"none", "started", "parked", "sent", "quit"}]
    /\ pump \in [Worker -> {"none", "outer", "middle", "inner", "send", "exit"}]
    /\ holding \in [Worker -> Job \cup {Nil}]
    /\ errc \in [Worker -> BOOLEAN]
    /\ delivered \in [Job -> {0, 1}]
    /\ overtaken \in [Job -> Nat]

Init ==
    /\ ctx = "live"
    /\ pusher = [j \in Job |-> "none"]
    /\ pump = [w \in Worker |-> "none"]
    /\ holding = [w \in Worker |-> Nil]
    /\ errc = [w \in Worker |-> FALSE]
    /\ delivered = [j \in Job |-> 0]
    /\ overtaken = [j \in Job |-> 0]

Done == ctx # "live"

(***************************************************************************)
(* Push: the goroutine chooses the channel by priority and selects on it   *)
(* and on the context.                                                     *)
(***************************************************************************)
Push(j) ==
    /\ pusher[j] = "none"
    /\ pusher' = [pusher EXCEPT ![j] = "started"]
    /\ UNCHANGED <<ctx, pump, holding, errc, delivered, overtaken>>

Park(j) ==
    /\ pusher[j] = "started"
    /\ ~Done
    /\ pusher' = [pusher EXCEPT ![j] = "parked"]
    /\ UNCHANGED <<ctx, pump, holding, errc, delivered, overtaken>>

PushQuits(j) ==
    /\ pusher[j] \in {"started", "parked"}
    /\ Done
    /\ pusher' = [pusher EXCEPT ![j] = "quit"]
    /\ UNCHANGED <<ctx, pump, holding, errc, delivered, overtaken>>

(***************************************************************************)
(* Jobs: new channels and a new pump.                                      *)
(***************************************************************************)
Jobs(w) ==
    /\ pump[w] \in {"none", "exit"}
    /\ pump' = [pump EXCEPT ![w] = "outer"]
    /\ holding' = [holding EXCEPT ![w] = Nil]
    /\ errc' = [errc EXCEPT ![w] = FALSE]
    /\ UNCHANGED <<ctx, pusher, delivered, overtaken>>

Parked(prios) == {j \in Job : pusher[j] = "parked" /\ Priority[j] \in prios}

\* Mutant of Take: the sender is not released and offers the job again.
Take_SenderStays(w, j) ==
    /\ holding' = [holding EXCEPT ![w] = j]
    /\ pump' = [pump EXCEPT ![w] = "send"]
    /\ UNCHANGED <<ctx, pusher, errc, delivered, overtaken>>

\* Pump w receives j: its sender is done, and the jobs of a higher priority
\* that were already parked have been overtaken once more.
Take(w, j) ==
    /\ pusher' = [pusher EXCEPT ![j] = "sent"]
    /\ holding' = [holding EXCEPT ![w] = j]
    /\ pump' = [pump EXCEPT ![w] = "send"]
    /\ overtaken' = [k \in Job |->
         overtaken[k] + IF k \in Parked(0..2) /\ Priority[k] < Priority[j]
                        THEN 1 ELSE 0]
    /\ UNCHANGED <<ctx, errc, delivered>>

\* errc <- ctx.Err(); return
PumpExits(w) ==
    /\ pump[w] \in {"outer", "inner"}
    /\ Done
    /\ errc' = [errc EXCEPT ![w] = TRUE]
    /\ pump' = [pump EXCEPT ![w] = "exit"]
    /\ UNCHANGED <<ctx, pusher, holding, delivered, overtaken>>

OuterTake(w) ==
    /\ pump[w] = "outer"
    /\ \E j \in Parked({0}) : Take(w, j)

OuterDefault(w) ==
    /\ pump[w] = "outer"
    /\ ~Done /\ Parked({0}) = {}
    /\ pump' = [pump EXCEPT ![w] = "middle"]
    /\ holding' = [holding EXCEPT ![w] = Nil]
    /\ UNCHANGED <<ctx, pusher, errc, delivered, overtaken>>

MiddleTake(w) ==
    /\ pump[w] = "middle"
    /\ \E j \in Parked({0, 1}) : Take(w, j)

\* The middle select answers a done context with out <- job, and job is still
\* the nil it was declared as.
MiddleDone(w) ==
    /\ pump[w] = "middle"
    /\ Done
    /\ pump' = [pump EXCEPT ![w] = "send"]
    /\ UNCHANGED <<ctx, pusher, holding, errc, delivered, overtaken>>

MiddleDefault(w) ==
    /\ pump[w] = "middle"
    /\ ~Done /\ Parked({0, 1}) = {}
    /\ pump' = [pump EXCEPT ![w] = "inner"]
    /\ UNCHANGED <<ctx, pusher, holding, errc, delivered, overtaken>>

\* Mutants of InnerTake: the job is received but not sent on; the case of p2 is
\* missing.
InnerTake_NotSent(w) ==
    /\ pump[w] = "inner"
    /\ \E j \in Job : /\ pusher[j] \in {"started", "parked"}
                      /\ pusher' = [pusher EXCEPT ![j] = "sent"]
    /\ pump' = [pump EXCEPT ![w] = "outer"]
    /\ UNCHANGED <<ctx, holding, errc, delivered, overtaken>>

InnerTake_NoLow(w) ==
    /\ pump[w] = "inner"
    /\ \E j \in Job : /\ pusher[j] \in {"started", "parked"}
                      /\ Priority[j] # 2
                      /\ Take(w, j)

\* The inner select has no default: a sender that arrives finds the pump there.
InnerTake(w) ==
    /\ pump[w] = "inner"
    /\ \E j \in Job : /\ pusher[j] \in {"started", "parked"}
                      /\ Take(w, j)

\* Mutant of Deliver: the pump goes back to the blocking select instead of the
\* first poll.
Deliver_ToInner(w) ==
    /\ pump[w] = "send"
    /\ pump' = [pump EXCEPT ![w] = "inner"]
    /\ holding' = [holding EXCEPT ![w] = Nil]
    /\ delivered' = [j \in Job |->
                       delivered[j] + IF j = holding[w] THEN 1 ELSE 0]
    /\ UNCHANGED <<ctx, pusher, errc, overtaken>>

\* out <- job meets the worker's receive.  The send does not look at ctx.
Deliver(w) ==
    /\ pump[w] = "send"
    /\ pump' = [pump EXCEPT ![w] = "outer"]
    /\ holding' = [holding EXCEPT ![w] = Nil]
    /\ delivered' = [j \in Job |->
                       delivered[j] + IF j = holding[w] THEN 1 ELSE 0]
    /\ UNCHANGED <<ctx, pusher, errc, overtaken>>

\* The worker receives from errc.
ReadErr(w) ==
    /\ errc[w]
    /\ errc' = [errc EXCEPT ![w] = FALSE]
    /\ UNCHANGED <<ctx, pusher, pump, holding, delivered, overtaken>>

Cancel(c) ==
    /\ ctx = "live"
    /\ ctx' = c
    /\ UNCHANGED <<pusher, pump, holding, errc, delivered, overtaken>>

PushStep(j) == Park(j) \/ PushQuits(j)

PumpStep(w) ==
    \/ OuterTake(w) \/ OuterDefault(w)
    \/ MiddleTake(w) \/ MiddleDone(w) \/ MiddleDefault(w)
    \/ InnerTake(w)
    \/ PumpExits(w)

Next ==
    \/ \E j \in Job : Push(j) \/ PushStep(j)
    \/ \E w \in Worker : Jobs(w) \/ PumpStep(w) \/ Deliver(w) \/ ReadErr(w)
    \/ \E c \in {"canceled", "deadline"} : Cancel(c)

(***************************************************************************)
(* Fairness: goroutines run, and a worker keeps asking for jobs and        *)
(* receiving them while the context lives.                                 *)
(***************************************************************************)
Fairness ==
    /\ \A j \in Job : WF_vars(PushStep(j))
    /\ \A w \in Worker : /\ WF_vars(pump[w] = "none" /\ Jobs(w))
                         /\ WF_vars(PumpStep(w))
                         /\ WF_vars(~Done /\ Deliver(w))

Spec == Init /\ [][Next]_vars /\ Fairness

-----------------------------------------------------------------------------
(***************************************************************************)
(* Properties.                                                             *)
(***************************************************************************)

\* The memory provider is a job provider: every pushed job is delivered, once,
\* unless the context is done first.  A nil delivery is a stuttering step here;
\* DeliversOnlyJobs is about that.
Provider == INSTANCE JobProvider WITH
    pushed <- {j \in Job : pusher[j] # "none"}, stopped <- Done
ProvidesEveryJobOnce == Provider!Spec

\* A job that left its pusher is in one pump's hands or was delivered, never
\* both and never twice, although pumps compete for it in nine select cases.
JobInOnePlace ==
    \A j \in Job :
        Cardinality({w \in Worker : holding[w] = j}) + delivered[j] =
            IF pusher[j] = "sent" THEN 1 ELSE 0

\* Priorities hold up to one job per pump: a job that waits on its channel is
\* overtaken by a job of a lower priority at most once by each pump, the one
\* it had already gone past the waiting channel for.
OvertakingBounded ==
    \A j \in Job : overtaken[j] <= Cardinality(Worker)

\* Until the context is done nothing is lost: no pusher has given up, no pump has
\* returned or reported an error, and what a pump sends is a job.  The nil job
\* of DeliversOnlyJobs, too, can only come afterwards.
LosesNothingWhileLive ==
    ~Done =>
        /\ \A j \in Job : pusher[j] # "quit"
        /\ \A w \in Worker : /\ pump[w] # "exit" /\ ~errc[w]
                             /\ pump[w] = "send" => holding[w] \in Job

\* Jobs "returns the channel to get jobs from": what a pump sends is a job.
DeliversOnlyJobs ==
    \A w \in Worker : pump[w] = "send" => holding[w] \in Job
=============================================================================
