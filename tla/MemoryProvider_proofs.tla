------------------------ MODULE MemoryProvider_proofs ------------------------
(***************************************************************************)
(* Proofs about MemoryProvider, for any jobs, any priorities and any       *)
(* number of pumps.                                                        *)
(*                                                                         *)
(* The bound on overtaking needs to know which pumps may still overtake a  *)
(* job: those that have already looked at its channel in this round and    *)
(* found nothing (Past).  Each of them leaves that set with the job that   *)
(* it takes, and no pump enters it while the job is parked.                *)
(***************************************************************************)
EXTENDS MemoryProvider, FiniteSetTheorems, TLAPS

Holders(f, j) == {w \in Worker : f[w] = j}
Count(f, j) == Cardinality(Holders(f, j))

\* g is f but for the value x at w.
Changed(f, g, w, x) == g[w] = x /\ \A v \in Worker \ {w} : g[v] = f[v]

\* TypeOK, but for the number of deliveries, which JobInOnePlace bounds.
Typed ==
    /\ ctx \in {"live", "canceled", "deadline"}
    /\ pusher \in [Job -> {"none", "started", "parked", "sent", "quit"}]
    /\ pump \in [Worker -> {"none", "outer", "middle", "inner", "send", "exit"}]
    /\ holding \in [Worker -> Job \cup {Nil}]
    /\ errc \in [Worker -> BOOLEAN]
    /\ delivered \in [Job -> Nat]
    /\ overtaken \in [Job -> Nat]

\* A pump has a job only on its way from one channel to the other.
HandsEmpty == \A w \in Worker : pump[w] # "send" => holding[w] = Nil

\* Pumps that have gone past the channel of j.
Past(j) ==
    {w \in Worker : \/ pump[w] = "inner"
                    \/ pump[w] = "middle" /\ Priority[j] = 0}

OvertakersCounted ==
    \A j \in Job :
        /\ pusher[j] \in {"none", "started"} => overtaken[j] = 0
        /\ pusher[j] = "parked" =>
             IF Priority[j] = 2 THEN overtaken[j] = 0
             ELSE overtaken[j] + Cardinality(Past(j)) <= Cardinality(Worker)

IInv ==
    /\ Typed
    /\ HandsEmpty
    /\ LosesNothingWhileLive
    /\ JobInOnePlace
    /\ OvertakersCounted
    /\ OvertakingBounded

-----------------------------------------------------------------------------
\* What a change of one pump's job does to the number of pumps with job j.
LEMMA CountUpdate ==
    ASSUME NEW f, NEW g, NEW w \in Worker, NEW x, NEW j, Changed(f, g, w, x)
    PROVE  /\ Count(f, j) \in Nat /\ Count(g, j) \in Nat
           /\ Count(g, j) + (IF f[w] = j THEN 1 ELSE 0)
                = Count(f, j) + (IF x = j THEN 1 ELSE 0)
<1> DEFINE H == Holders(f, j)
           Without == H \ {w}
<1>1. IsFiniteSet(H)
  BY PumpAssumption, FS_Subset DEF Holders
<1>2. /\ IsFiniteSet(Without)
      /\ Cardinality(Without) = IF w \in H THEN Cardinality(H) - 1 ELSE Cardinality(H)
  BY <1>1, FS_RemoveElement
<1>3. Holders(g, j) = IF x = j THEN Without \cup {w} ELSE Without
  BY DEF Holders, Changed
<1>4. w \in H <=> f[w] = j
  BY DEF Holders
<1>5. /\ IsFiniteSet(Without \cup {w})
      /\ Cardinality(Without \cup {w}) = Cardinality(Without) + 1
  BY <1>2, FS_AddElement
<1>6. Cardinality(H) \in Nat /\ Cardinality(Without) \in Nat
  BY <1>1, <1>2, FS_CardinalityType
<1> QED
  BY <1>2, <1>3, <1>4, <1>5, <1>6 DEF Count

LEMMA PastFinite ==
    ASSUME NEW j
    PROVE  /\ IsFiniteSet(Past(j))
           /\ Cardinality(Past(j)) \in Nat /\ Cardinality(Worker) \in Nat
           /\ Cardinality(Past(j)) <= Cardinality(Worker)
  BY PumpAssumption, FS_Subset, FS_CardinalityType DEF Past

LEMMA InitHolds == Init => IInv
<1> SUFFICES ASSUME Init PROVE IInv
  OBVIOUS
<1>0. errc \in [Worker -> BOOLEAN]
  BY Zenon DEF Init
<1>1. Typed
  BY <1>0 DEF Init, Typed
<1>2. HandsEmpty /\ LosesNothingWhileLive
  <2>1. \A w \in Worker : ~errc[w]
    BY Zenon DEF Init
  <2> QED
    BY <2>1 DEF Init, HandsEmpty, LosesNothingWhileLive
<1>3. JobInOnePlace
  <2> SUFFICES ASSUME NEW j \in Job
               PROVE  Cardinality({w \in Worker : holding[w] = j}) = 0
    BY DEF Init, JobInOnePlace
  <2>1. {w \in Worker : holding[w] = j} = {}
    BY JobAssumption DEF Init
  <2> QED
    BY <2>1, FS_EmptySet
<1>4. OvertakersCounted /\ OvertakingBounded
  BY PastFinite DEF Init, OvertakersCounted, OvertakingBounded
<1> QED
  BY <1>1, <1>2, <1>3, <1>4 DEF IInv

\* Every action preserves the types.
LEMMA TypedStep == IInv /\ [Next]_vars => Typed'
<1> SUFFICES ASSUME IInv, [Next]_vars PROVE Typed'
  OBVIOUS
<1> USE DEF IInv, Typed
<1>0. CASE UNCHANGED vars
  BY <1>0 DEF vars
<1>1. ASSUME NEW j \in Job, Push(j) PROVE Typed'
  BY <1>1 DEF Push, Done
<1>2. ASSUME NEW j \in Job, Park(j) PROVE Typed'
  BY <1>2 DEF Park, Done
<1>3. ASSUME NEW j \in Job, PushQuits(j) PROVE Typed'
  BY <1>3 DEF PushQuits, Done
<1>4. ASSUME NEW w \in Worker, Jobs(w) PROVE Typed'
  BY <1>4 DEF Jobs, Done
<1>5. ASSUME NEW w \in Worker, OuterTake(w) PROVE Typed'
  BY <1>5 DEF OuterTake, Done, Take, Parked
<1>6. ASSUME NEW w \in Worker, OuterDefault(w) PROVE Typed'
  BY <1>6 DEF OuterDefault, Done, Parked
<1>7. ASSUME NEW w \in Worker, MiddleTake(w) PROVE Typed'
  BY <1>7 DEF MiddleTake, Done, Take, Parked
<1>8. ASSUME NEW w \in Worker, MiddleDone(w) PROVE Typed'
  BY <1>8 DEF MiddleDone, Done
<1>9. ASSUME NEW w \in Worker, MiddleDefault(w) PROVE Typed'
  BY <1>9 DEF MiddleDefault, Done, Parked
<1>10. ASSUME NEW w \in Worker, InnerTake(w) PROVE Typed'
  BY <1>10 DEF InnerTake, Done, Take, Parked
<1>11. ASSUME NEW w \in Worker, PumpExits(w) PROVE Typed'
  BY <1>11 DEF PumpExits, Done
<1>12. ASSUME NEW w \in Worker, Deliver(w) PROVE Typed'
  BY <1>12 DEF Deliver, Done
<1>13. ASSUME NEW w \in Worker, ReadErr(w) PROVE Typed'
  BY <1>13 DEF ReadErr, Done
<1>14. ASSUME NEW c \in {"canceled", "deadline"}, Cancel(c) PROVE Typed'
  BY <1>14 DEF Cancel
<1> QED
  BY <1>0, <1>1, <1>2, <1>3, <1>4, <1>5, <1>6, <1>7, <1>8, <1>9, <1>10, <1>11, <1>12, <1>13, <1>14
     DEF Next, PushStep, PumpStep

\* Take fills the pump's hands and sends it to "send"; Deliver and Jobs empty them.
LEMMA HandsStep == IInv /\ [Next]_vars => HandsEmpty'
<1> SUFFICES ASSUME IInv, [Next]_vars PROVE HandsEmpty'
  OBVIOUS
<1> USE DEF IInv, Typed, HandsEmpty
<1>0. CASE UNCHANGED vars
  BY <1>0 DEF vars
<1>1. ASSUME NEW j \in Job, Push(j) PROVE HandsEmpty'
  BY <1>1 DEF Push, Done
<1>2. ASSUME NEW j \in Job, Park(j) PROVE HandsEmpty'
  BY <1>2 DEF Park, Done
<1>3. ASSUME NEW j \in Job, PushQuits(j) PROVE HandsEmpty'
  BY <1>3 DEF PushQuits, Done
<1>4. ASSUME NEW w \in Worker, Jobs(w) PROVE HandsEmpty'
  BY <1>4 DEF Jobs, Done
<1>5. ASSUME NEW w \in Worker, OuterTake(w) PROVE HandsEmpty'
  BY <1>5 DEF OuterTake, Done, Take, Parked
<1>6. ASSUME NEW w \in Worker, OuterDefault(w) PROVE HandsEmpty'
  BY <1>6 DEF OuterDefault, Done, Parked
<1>7. ASSUME NEW w \in Worker, MiddleTake(w) PROVE HandsEmpty'
  BY <1>7 DEF MiddleTake, Done, Take, Parked
<1>8. ASSUME NEW w \in Worker, MiddleDone(w) PROVE HandsEmpty'
  BY <1>8 DEF MiddleDone, Done
<1>9. ASSUME NEW w \in Worker, MiddleDefault(w) PROVE HandsEmpty'
  BY <1>9 DEF MiddleDefault, Done, Parked
<1>10. ASSUME NEW w \in Worker, InnerTake(w) PROVE HandsEmpty'
  BY <1>10 DEF InnerTake, Done, Take, Parked
<1>11. ASSUME NEW w \in Worker, PumpExits(w) PROVE HandsEmpty'
  BY <1>11 DEF PumpExits, Done
<1>12. ASSUME NEW w \in Worker, Deliver(w) PROVE HandsEmpty'
  BY <1>12 DEF Deliver, Done
<1>13. ASSUME NEW w \in Worker, ReadErr(w) PROVE HandsEmpty'
  BY <1>13 DEF ReadErr, Done
<1>14. ASSUME NEW c \in {"canceled", "deadline"}, Cancel(c) PROVE HandsEmpty'
  BY <1>14 DEF Cancel
<1> QED
  BY <1>0, <1>1, <1>2, <1>3, <1>4, <1>5, <1>6, <1>7, <1>8, <1>9, <1>10, <1>11, <1>12, <1>13, <1>14
     DEF Next, PushStep, PumpStep

\* What the code does on its way out it does after the context.
LEMMA LiveStep == IInv /\ [Next]_vars => LosesNothingWhileLive'
<1> SUFFICES ASSUME IInv, [Next]_vars, ~Done'
             PROVE  /\ \A j \in Job : pusher'[j] # "quit"
                    /\ \A w \in Worker : /\ pump'[w] # "exit" /\ ~errc'[w]
                                         /\ pump'[w] = "send" => holding'[w] \in Job
  BY DEF LosesNothingWhileLive
<1>1. ~Done
  BY DEF Done, Next, vars, Push, PushStep, Park, PushQuits, Jobs, PumpStep, Deliver, ReadErr,
     OuterTake, OuterDefault, MiddleTake, MiddleDone, MiddleDefault, InnerTake, PumpExits,
     Take, Cancel
<1>2. /\ \A j \in Job : pusher[j] # "quit"
      /\ \A w \in Worker : ~errc[w]
      /\ \A w \in Worker : pump[w] # "exit" /\ (pump[w] = "send" => holding[w] \in Job)
  BY <1>1 DEF IInv, LosesNothingWhileLive
<1>3. \A j \in Job : pusher'[j] # "quit"
  BY <1>1, <1>2 DEF Next, vars, Push, PushStep, Park, PushQuits, Jobs, PumpStep, Deliver, ReadErr,
     OuterTake, OuterDefault, MiddleTake, MiddleDone, MiddleDefault, InnerTake, PumpExits,
     Take, Cancel, IInv, Typed
<1>4. \A w \in Worker : ~errc'[w]
  <2>1. ASSUME NEW v \in Worker, errc' = [errc EXCEPT ![v] = FALSE]
        PROVE  \A w \in Worker : ~errc'[w]
    <3>1. errc \in [Worker -> BOOLEAN]
      BY DEF IInv, Typed
    <3> QED
      BY <1>2, <2>1, <3>1, Zenon
  <2>2. errc' = errc \/ \E v \in Worker : errc' = [errc EXCEPT ![v] = FALSE]
    BY <1>1 DEF Next, vars, Push, PushStep, Park, PushQuits, Jobs, PumpStep, Deliver, ReadErr,
       OuterTake, OuterDefault, MiddleTake, MiddleDone, MiddleDefault, InnerTake, PumpExits,
       Take, Cancel
  <2> QED
    BY <1>2, <2>1, <2>2
<1>5. \A w \in Worker : pump'[w] # "exit" /\ (pump'[w] = "send" => holding'[w] \in Job)
  BY <1>1, <1>2 DEF Next, vars, Push, PushStep, Park, PushQuits, Jobs, PumpStep, Deliver, ReadErr,
     OuterTake, OuterDefault, MiddleTake, MiddleDone, MiddleDefault, InnerTake, PumpExits,
     Take, Parked, Cancel, IInv, Typed
<1> QED
  BY <1>3, <1>4, <1>5

\* A pump that receives j and one that hands its job on change one count.
LEMMA TakeCounts ==
    ASSUME IInv, NEW w \in Worker, pump[w] # "send", NEW k \in Job,
           pusher[k] \in {"started", "parked"}, Take(w, k)
    PROVE  JobInOnePlace'
<1> SUFFICES ASSUME NEW j \in Job
             PROVE  (Count(holding, j) + delivered[j] =
                       IF pusher[j] = "sent" THEN 1 ELSE 0)'
  BY DEF JobInOnePlace, Count, Holders
<1>1. Count(holding, j) + delivered[j] = IF pusher[j] = "sent" THEN 1 ELSE 0
  BY DEF IInv, JobInOnePlace, Count, Holders
<1>2. /\ holding' = [holding EXCEPT ![w] = k] /\ holding[w] = Nil
      /\ holding \in [Worker -> Job \cup {Nil}] /\ delivered[j] \in Nat
      /\ j # Nil
  BY JobAssumption DEF IInv, Typed, HandsEmpty, Take
<1>3. /\ Count(holding, j) \in Nat /\ Count(holding', j) \in Nat
      /\ Count(holding', j) = Count(holding, j) + (IF k = j THEN 1 ELSE 0)
  <2>1. Changed(holding, holding', w, k)
    BY <1>2 DEF Changed
  <2> QED
    BY <2>1, <1>2, CountUpdate
<1>4. /\ pusher' = [pusher EXCEPT ![k] = "sent"] /\ delivered' = delivered
      /\ pusher \in [Job -> {"none", "started", "parked", "sent", "quit"}]
  BY DEF Take, IInv, Typed
<1>5. Count(holding, j)' = Count(holding', j)
  BY DEF Count, Holders
<1> QED
  BY <1>1, <1>2, <1>3, <1>4, <1>5

LEMMA DeliverCounts ==
    ASSUME IInv, NEW w \in Worker, Deliver(w)
    PROVE  JobInOnePlace'
<1> SUFFICES ASSUME NEW j \in Job
             PROVE  (Count(holding, j) + delivered[j] =
                       IF pusher[j] = "sent" THEN 1 ELSE 0)'
  BY DEF JobInOnePlace, Count, Holders
<1>1. Count(holding, j) + delivered[j] = IF pusher[j] = "sent" THEN 1 ELSE 0
  BY DEF IInv, JobInOnePlace, Count, Holders
<1>2. /\ holding' = [holding EXCEPT ![w] = Nil]
      /\ holding \in [Worker -> Job \cup {Nil}] /\ delivered[j] \in Nat
      /\ j # Nil /\ pusher' = pusher
      /\ delivered'[j] = delivered[j] + (IF j = holding[w] THEN 1 ELSE 0)
  BY JobAssumption DEF IInv, Typed, Deliver
<1>3. /\ Count(holding, j) \in Nat /\ Count(holding', j) \in Nat
      /\ Count(holding', j) + (IF holding[w] = j THEN 1 ELSE 0) = Count(holding, j)
  <2>1. Changed(holding, holding', w, Nil)
    BY <1>2 DEF Changed
  <2> QED
    BY <2>1, <1>2, CountUpdate
<1>5. Count(holding, j)' = Count(holding', j)
  BY DEF Count, Holders
<1> QED
  BY <1>1, <1>2, <1>3, <1>5

\* The other actions move no job between pumps.
LEMMA PlaceStep == IInv /\ [Next]_vars => JobInOnePlace'
<1> SUFFICES ASSUME IInv, [Next]_vars PROVE JobInOnePlace'
  OBVIOUS
<1> USE DEF IInv, JobInOnePlace
<1>0. CASE UNCHANGED vars
  BY <1>0 DEF vars
<1>1. ASSUME NEW j \in Job, Push(j) PROVE JobInOnePlace'
  BY <1>1 DEF Push, Done, Typed
<1>2. ASSUME NEW j \in Job, Park(j) PROVE JobInOnePlace'
  BY <1>2 DEF Park, Done, Typed
<1>3. ASSUME NEW j \in Job, PushQuits(j) PROVE JobInOnePlace'
  BY <1>3 DEF PushQuits, Done, Typed
<1>4. ASSUME NEW w \in Worker, Jobs(w) PROVE JobInOnePlace'
  <2>1. holding' = holding
    BY <1>4 DEF Jobs, HandsEmpty, Typed
  <2> QED
    BY <1>4, <2>1 DEF Jobs
<1>5. ASSUME NEW w \in Worker, OuterTake(w) PROVE JobInOnePlace'
  BY <1>5, TakeCounts DEF OuterTake, Parked
<1>6. ASSUME NEW w \in Worker, OuterDefault(w) PROVE JobInOnePlace'
  <2>1. holding' = holding
    BY <1>6 DEF OuterDefault, HandsEmpty, Typed
  <2> QED
    BY <1>6, <2>1 DEF OuterDefault
<1>7. ASSUME NEW w \in Worker, MiddleTake(w) PROVE JobInOnePlace'
  BY <1>7, TakeCounts DEF MiddleTake, Parked
<1>8. ASSUME NEW w \in Worker, MiddleDone(w) PROVE JobInOnePlace'
  BY <1>8 DEF MiddleDone, Done
<1>9. ASSUME NEW w \in Worker, MiddleDefault(w) PROVE JobInOnePlace'
  BY <1>9 DEF MiddleDefault, Done, Parked
<1>10. ASSUME NEW w \in Worker, InnerTake(w) PROVE JobInOnePlace'
  BY <1>10, TakeCounts DEF InnerTake, Parked
<1>11. ASSUME NEW w \in Worker, PumpExits(w) PROVE JobInOnePlace'
  BY <1>11 DEF PumpExits, Done
<1>12. ASSUME NEW w \in Worker, Deliver(w) PROVE JobInOnePlace'
  BY <1>12, DeliverCounts
<1>13. ASSUME NEW w \in Worker, ReadErr(w) PROVE JobInOnePlace'
  BY <1>13 DEF ReadErr, Done
<1>14. ASSUME NEW c \in {"canceled", "deadline"}, Cancel(c) PROVE JobInOnePlace'
  BY <1>14 DEF Cancel
<1> QED
  BY <1>0, <1>1, <1>2, <1>3, <1>4, <1>5, <1>6, <1>7, <1>8, <1>9, <1>10, <1>11, <1>12, <1>13, <1>14
     DEF Next, PushStep, PumpStep

LEMMA PastPrimed ==
    ASSUME NEW j
    PROVE  /\ IsFiniteSet(Past(j)')
           /\ Cardinality(Past(j)') \in Nat
           /\ Cardinality(Past(j)') <= Cardinality(Worker)
<1>1. Past(j)' \subseteq Worker
  BY DEF Past
<1> QED
  BY <1>1, PumpAssumption, FS_Subset, FS_CardinalityType

\* Steps that overtake nobody: a job that parks has not been overtaken yet, and
\* no pump goes past the channel of a parked job.
LEMMA NoneOvertaken ==
    ASSUME IInv, UNCHANGED overtaken,
           \A j \in Job :
              /\ pusher'[j] \in {"none", "started"} => pusher[j] \in {"none", "started"}
              /\ pusher'[j] = "parked" =>
                   \/ pusher[j] = "started"
                   \/ pusher[j] = "parked" /\ (Past(j)' \subseteq Past(j) \/ Priority[j] = 2)
    PROVE  OvertakersCounted' /\ OvertakingBounded'
<1>1. ASSUME NEW j \in Job, Past(j)' \subseteq Past(j)
      PROVE  Cardinality(Past(j)') <= Cardinality(Past(j))
  BY <1>1, PastFinite, FS_Subset
<1>2. OvertakersCounted'
  BY <1>1, PastFinite, PastPrimed, PriorityAssumption DEF IInv, Typed, OvertakersCounted
<1>3. OvertakingBounded'
  BY DEF IInv, OvertakingBounded
<1> QED
  BY <1>2, <1>3

\* A pump that takes k has gone past the channels of all jobs that it overtakes,
\* and now goes back to the start.
LEMMA TakeOvertakes ==
    ASSUME IInv, NEW w \in Worker, NEW k \in Job, Take(w, k),
           \A j \in Job : pusher[j] = "parked" /\ Priority[j] < Priority[k]
                            => w \in Past(j)
    PROVE  OvertakersCounted' /\ OvertakingBounded'
<1> SUFFICES ASSUME NEW j \in Job
             PROVE  /\ pusher'[j] \in {"none", "started"} => overtaken'[j] = 0
                    /\ pusher'[j] = "parked" =>
                         IF Priority[j] = 2 THEN overtaken'[j] = 0
                         ELSE overtaken'[j] + Cardinality(Past(j)') <= Cardinality(Worker)
                    /\ overtaken'[j] <= Cardinality(Worker)
  BY DEF OvertakersCounted, OvertakingBounded
<1>1. /\ pusher' = [pusher EXCEPT ![k] = "sent"]
      /\ pusher \in [Job -> {"none", "started", "parked", "sent", "quit"}]
      /\ Priority[j] \in 0..2 /\ Priority[k] \in 0..2
      /\ overtaken[j] \in Nat /\ overtaken[j] <= Cardinality(Worker)
  BY PriorityAssumption DEF Take, IInv, Typed, OvertakingBounded
<1>2. overtaken'[j] = overtaken[j] + (IF pusher[j] = "parked" /\ Priority[j] < Priority[k]
                                      THEN 1 ELSE 0)
  BY <1>1 DEF Take, Parked
<1>3. Past(j)' = Past(j) \ {w}
  BY DEF Past, Take, IInv, Typed
<1>4. /\ Cardinality(Past(j)') = IF w \in Past(j) THEN Cardinality(Past(j)) - 1
                                 ELSE Cardinality(Past(j))
      /\ Cardinality(Past(j)) \in Nat /\ Cardinality(Worker) \in Nat
  BY <1>3, PastFinite, FS_RemoveElement
<1>5. /\ pusher[j] \in {"none", "started"} => overtaken[j] = 0
      /\ pusher[j] = "parked" =>
           IF Priority[j] = 2 THEN overtaken[j] = 0
           ELSE overtaken[j] + Cardinality(Past(j)) <= Cardinality(Worker)
  BY DEF IInv, OvertakersCounted
<1>6. CASE pusher[j] = "parked" /\ Priority[j] < Priority[k]
  <2>1. w \in Past(j)
    BY <1>6
  <2>2. j # k /\ pusher'[j] = "parked" /\ Priority[j] # 2
    BY <1>1, <1>6
  <2>3. /\ overtaken'[j] = overtaken[j] + 1
        /\ Cardinality(Past(j)') = Cardinality(Past(j)) - 1
        /\ overtaken[j] + Cardinality(Past(j)) <= Cardinality(Worker)
    BY <1>2, <1>4, <1>5, <1>6, <2>1, <2>2
  <2>4. Cardinality(Past(j)) # 0
    BY <2>1, PastFinite, FS_EmptySet
  <2> QED
    BY <1>1, <1>4, <2>2, <2>3, <2>4
<1>7. CASE ~(pusher[j] = "parked" /\ Priority[j] < Priority[k])
  BY <1>1, <1>2, <1>4, <1>5, <1>7
<1> QED
  BY <1>6, <1>7

LEMMA OvertakingStep ==
    IInv /\ [Next]_vars => OvertakersCounted' /\ OvertakingBounded'
<1> SUFFICES ASSUME IInv, [Next]_vars PROVE OvertakersCounted' /\ OvertakingBounded'
  OBVIOUS
<1> USE DEF IInv, Typed, Past
<1>0. CASE UNCHANGED vars
  BY <1>0, NoneOvertaken DEF vars
<1>1. ASSUME NEW j \in Job, Push(j) \/ Park(j) \/ PushQuits(j)
      PROVE  OvertakersCounted' /\ OvertakingBounded'
  BY <1>1, NoneOvertaken DEF Push, Park, PushQuits
<1>2. ASSUME NEW w \in Worker, Jobs(w) \/ MiddleDone(w) \/ PumpExits(w) \/ Deliver(w)
                                 \/ ReadErr(w)
      PROVE  OvertakersCounted' /\ OvertakingBounded'
  BY <1>2, NoneOvertaken DEF Jobs, MiddleDone, PumpExits, Deliver, ReadErr
<1>3. ASSUME NEW w \in Worker, OuterTake(w)
      PROVE  OvertakersCounted' /\ OvertakingBounded'
  BY <1>3, TakeOvertakes, PriorityAssumption DEF OuterTake, Parked
<1>4. ASSUME NEW w \in Worker, MiddleTake(w)
      PROVE  OvertakersCounted' /\ OvertakingBounded'
  <2>1. PICK k \in Parked({0, 1}) : Take(w, k)
    BY <1>4 DEF MiddleTake
  <2>2. ASSUME NEW j \in Job, Priority[j] < Priority[k] PROVE w \in Past(j)
    BY <1>4, <2>2, PriorityAssumption DEF MiddleTake, Parked
  <2> QED
    BY <2>1, <2>2, TakeOvertakes DEF Parked
<1>5. ASSUME NEW w \in Worker, InnerTake(w)
      PROVE  OvertakersCounted' /\ OvertakingBounded'
  BY <1>5, TakeOvertakes DEF InnerTake
<1>6. ASSUME NEW w \in Worker, OuterDefault(w)
      PROVE  OvertakersCounted' /\ OvertakingBounded'
  <2>1. ASSUME NEW j \in Job, pusher[j] = "parked" PROVE Past(j)' \subseteq Past(j)
    BY <1>6, <2>1 DEF OuterDefault, Parked
  <2> QED
    BY <1>6, <2>1, NoneOvertaken DEF OuterDefault
<1>7. ASSUME NEW w \in Worker, MiddleDefault(w)
      PROVE  OvertakersCounted' /\ OvertakingBounded'
  <2>1. ASSUME NEW j \in Job, pusher[j] = "parked" PROVE Priority[j] = 2
    BY <1>7, <2>1, PriorityAssumption DEF MiddleDefault, Parked
  <2> QED
    BY <1>7, <2>1, NoneOvertaken DEF MiddleDefault
<1>8. ASSUME NEW c \in {"canceled", "deadline"}, Cancel(c)
      PROVE  OvertakersCounted' /\ OvertakingBounded'
  BY <1>8, NoneOvertaken DEF Cancel
<1> QED
  BY <1>0, <1>1, <1>2, <1>3, <1>4, <1>5, <1>6, <1>7, <1>8
     DEF Next, PushStep, PumpStep

\* The inductive step, for specifications that the provider is a part of, too.
LEMMA IInvStep == IInv /\ [Next]_vars => IInv'
  BY TypedStep, HandsStep, LiveStep, PlaceStep, OvertakingStep DEF IInv

\* No job is delivered twice, so that all of TypeOK holds.
LEMMA IInvTyped == IInv => TypeOK
<1> SUFFICES ASSUME IInv PROVE \A j \in Job : delivered[j] \in {0, 1}
  BY DEF IInv, Typed, TypeOK
<1> TAKE j \in Job
<1>1. Cardinality({w \in Worker : holding[w] = j}) \in Nat
  BY PumpAssumption, FS_Subset, FS_CardinalityType
<1> QED
  BY <1>1 DEF IInv, Typed, JobInOnePlace

-----------------------------------------------------------------------------
\* The inductive invariant.
THEOREM Invariance == Spec => []IInv
  BY InitHolds, IInvStep, PTL DEF Spec

\* For any jobs, priorities and number of pumps, a job that has left its pusher
\* is in one pump's hands or was delivered, once.
THEOREM JobInOnePlaceAlways == Spec => []JobInOnePlace
<1>1. IInv => JobInOnePlace
  BY DEF IInv
<1> QED
  BY Invariance, <1>1, PTL

\* A parked job is overtaken at most once by each pump.
THEOREM OvertakingBoundedAlways == Spec => []OvertakingBounded
<1>1. IInv => OvertakingBounded
  BY DEF IInv
<1> QED
  BY Invariance, <1>1, PTL

\* While the context lives no job is dropped, no pump stops and no nil job is
\* sent.
THEOREM LosesNothingWhileLiveAlways == Spec => []LosesNothingWhileLive
<1>1. IInv => LosesNothingWhileLive
  BY DEF IInv
<1> QED
  BY Invariance, <1>1, PTL

\* Every variable has its type: no job is ever delivered twice.
THEOREM TypeCorrect == Spec => []TypeOK
  BY Invariance, IInvTyped, PTL

\* Every step of the provider is a step of the abstract JobProvider or leaves
\* what that speaks about unchanged: nothing is delivered that was not pushed,
\* and nothing twice.
THEOREM ProvidesOnlyPushedJobs ==
    Spec => Provider!Init /\ [][Provider!Next]_(Provider!vars)
<1>1. Init => Provider!Init
  BY DEF Init, Provider!Init, Done
<1>2. IInv /\ [Next]_vars => [Provider!Next]_(Provider!vars)
  <2> SUFFICES ASSUME IInv, [Next]_vars
               PROVE  [Provider!Next]_(Provider!vars)
    OBVIOUS
  <2> USE DEF Provider!vars, Done
  <2>0. CASE UNCHANGED vars
    BY <2>0 DEF vars
  <2>1. ASSUME NEW j \in Job, Push(j) PROVE Provider!Push(j)
    BY <2>1 DEF Push, Provider!Push, IInv, Typed
  <2>2. ASSUME NEW j \in Job, PushStep(j) PROVE UNCHANGED Provider!vars
    BY <2>2 DEF PushStep, Park, PushQuits, IInv, Typed
  <2>3. ASSUME NEW w \in Worker, Jobs(w) PROVE UNCHANGED Provider!vars
    BY <2>3 DEF Jobs
  <2>4. ASSUME NEW w \in Worker, PumpStep(w) PROVE UNCHANGED Provider!vars
    BY <2>4 DEF PumpStep, OuterTake, OuterDefault, MiddleTake, MiddleDone, MiddleDefault,
       InnerTake, PumpExits, Take, Parked, IInv, Typed
  <2>5. ASSUME NEW w \in Worker, Deliver(w), holding[w] \in Job
        PROVE  Provider!Deliver(holding[w])
    <3>1. w \in Holders(holding, holding[w])
      BY DEF Holders
    <3>2. /\ Count(holding, holding[w]) \in Nat /\ Count(holding, holding[w]) # 0
          /\ Count(holding, holding[w]) + delivered[holding[w]]
               = IF pusher[holding[w]] = "sent" THEN 1 ELSE 0
      <4>1. IsFiniteSet(Holders(holding, holding[w]))
        BY PumpAssumption, FS_Subset DEF Holders
      <4>2. Cardinality(Holders(holding, holding[w])) # 0
        BY <3>1, <4>1, FS_EmptySet
      <4>3. Cardinality(Holders(holding, holding[w])) \in Nat
        BY <4>1, FS_CardinalityType
      <4> QED
        BY <2>5, <4>2, <4>3 DEF Count, Holders, IInv, JobInOnePlace
    <3>3. pusher[holding[w]] = "sent" /\ delivered[holding[w]] = 0
      BY <2>5, <3>2 DEF IInv, Typed
    <3>4. /\ delivered \in [Job -> Nat]
          /\ delivered' = [j \in Job |-> delivered[j] + IF j = holding[w] THEN 1 ELSE 0]
          /\ UNCHANGED <<ctx, pusher>>
      BY <2>5 DEF Deliver, IInv, Typed
    <3>5. delivered' = [delivered EXCEPT ![holding[w]] = 1]
      <4>1. \A j \in Job : delivered'[j] = IF j = holding[w] THEN 1 ELSE delivered[j]
        BY <3>3, <3>4
      <4> QED
        BY <3>4, <4>1
    <3> QED
      BY <2>5, <3>3, <3>4, <3>5 DEF Provider!Deliver
  <2>6. ASSUME NEW w \in Worker, Deliver(w), holding[w] = Nil
        PROVE  UNCHANGED Provider!vars
    BY <2>6, JobAssumption DEF Deliver, IInv, Typed
  <2>7. ASSUME NEW w \in Worker, ReadErr(w) PROVE UNCHANGED Provider!vars
    BY <2>7 DEF ReadErr
  <2>8. ASSUME NEW c \in {"canceled", "deadline"}, Cancel(c) PROVE Provider!Stop
    BY <2>8 DEF Cancel, Provider!Stop
  <2>9. \A w \in Worker : holding[w] \in Job \/ holding[w] = Nil
    BY DEF IInv, Typed
  <2> QED
    BY <2>0, <2>1, <2>2, <2>3, <2>4, <2>5, <2>6, <2>7, <2>8, <2>9
       DEF Next, Provider!Next
<1> QED
  BY Invariance, <1>1, <1>2, PTL DEF Spec
=============================================================================
