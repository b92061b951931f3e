------------------------- MODULE PageSlotPool_proofs -------------------------
(***************************************************************************)
(* Proofs about PageSlotPool, for any number of slots, workers and pages.  *)
(*                                                                         *)
(* TokensConserved and ActiveCountsLeases are not inductive alone: that a  *)
(* worker holds a lease exactly at the control points of Holding           *)
(* (HeldOK), and which browser states go with which phase (PhaseOK), are   *)
(* the strengthening.                                                      *)
(***************************************************************************)
EXTENDS PageSlotPool, FiniteSetTheorems, TLAPS

\* A lease is held exactly between acquire and the end of release.
HeldOK == \A w \in Worker : held[w] # NoSlot <=> pc[w] \in Holding

\* Which states a slot's browser can have in each phase of the pool.
PhaseOK ==
    \A s \in Slot :
        /\ phase = "building" => browser[s] \in {"none", "up", "dead"}
        /\ phase \in {"ready", "closed"} => browser[s] \in {"up", "dead", "closed"}
        /\ phase = "failed" => browser[s] \in {"none", "leaked", "closed"}

\* What can end a lease without its token: a deadline of the job, or Close.  Before
\* the pool is ready, and when it is not going to be, there are no leases.
EndsOK ==
    /\ \A w \in Worker : expired[w] => w \in Timed
    /\ phase \in {"building", "failed"} => \A w \in Worker : pc[w] = "idle"
    /\ \A s \in Slot : closed[s] => phase \in {"failed", "closed"}

IInv ==
    /\ TypeOK
    /\ HeldOK
    /\ PhaseOK
    /\ EndsOK
    /\ TokensConserved
    /\ ActiveCountsLeases

-----------------------------------------------------------------------------
\* The sets of workers that are counted are finite.
LEMMA CountedSetsFinite ==
    ASSUME NEW s \in Slot
    PROVE  /\ IsFiniteSet(Holders(s)) /\ Cardinality(Holders(s)) \in Nat
           /\ IsFiniteSet(Leases(s)) /\ Cardinality(Leases(s)) \in Nat
<1>1. Holders(s) \subseteq Worker /\ Leases(s) \subseteq Worker
  BY DEF Holders, Leases
<1> QED
  BY <1>1, WorkerAssumption, FS_Subset, FS_CardinalityType

\* TypeOK holds initially and every action preserves it.
LEMMA TypeInit == Init => TypeOK
<1> SUFFICES ASSUME Init PROVE TypeOK
  OBVIOUS
<1> USE DEF Init
<1>1. /\ phase \in {"building", "ready", "failed", "closed"}
      /\ browser \in [Slot -> {"none", "up", "dead", "leaked", "closed"}]
  OBVIOUS
<1>2. closed \in [Slot -> BOOLEAN] /\ expired \in [Worker -> BOOLEAN]
      /\ cancelled \in BOOLEAN
  BY Zenon
<1>3. /\ active \in [Slot -> Int]
      /\ available \in [Slot -> Nat]
      /\ lost \in [Slot -> Nat]
      /\ orphans \in [Slot -> 0..MaxOrphans]
  BY BoundAssumption
<1>4. pc \in [Worker -> PC] /\ held \in [Worker -> Slot \cup {NoSlot}]
  BY DEF PC
<1> QED
  BY <1>1, <1>2, <1>3, <1>4 DEF TypeOK

LEMMA TypeStep ==
    ASSUME TypeOK, HeldOK, [Next]_vars
    PROVE  TypeOK'
<1> USE SlotAssumption, WorkerAssumption, BoundAssumption
    DEF TypeOK, PC
<1>1. ASSUME NEW s \in Slot, NewSlot(s) PROVE TypeOK'
  BY <1>1 DEF NewSlot, workerVars
<1>2. ASSUME NEW s \in Slot, NewSlotFails(s) PROVE TypeOK'
  <2>1. browser' \in [Slot -> {"none", "up", "dead", "leaked", "closed"}]
    BY <1>2 DEF NewSlotFails
  <2>2. closed' \in [Slot -> BOOLEAN]
    BY <1>2 DEF NewSlotFails
  <2> QED
    BY <1>2, <2>1, <2>2 DEF NewSlotFails, tokenVars, workerVars
<1>3. ASSUME NEW w \in Worker, FetchCall(w) PROVE TypeOK'
  BY <1>3 DEF FetchCall, Goto, poolVars, tokenVars
<1>4. ASSUME NEW w \in Worker, AcquireDone(w) PROVE TypeOK'
  BY <1>4 DEF AcquireDone, Return, Goto, poolVars, tokenVars
<1>5. ASSUME NEW w \in Worker, NEW s \in Slot, Acquire(w, s) PROVE TypeOK'
  BY <1>5 DEF Acquire, Goto, poolVars
<1>5a. ASSUME NEW w \in Worker, CountActive(w) PROVE TypeOK'
  <2>1. held[w] \in Slot
    BY <1>5a DEF CountActive, HeldOK, Holding
  <2> QED
    BY <1>5a, <2>1 DEF CountActive, Goto, poolVars
<1>6. ASSUME NEW w \in Worker, NewPage(w) \/ NewPageFails(w) PROVE TypeOK'
  BY <1>6 DEF NewPage, NewPageFails, Goto, poolVars, tokenVars
<1>7. ASSUME NEW w \in Worker, BrowserActions(w) \/ ClosePage(w) PROVE TypeOK'
  BY <1>7 DEF BrowserActions, ClosePage, Goto, poolVars, tokenVars
<1>8. ASSUME NEW w \in Worker, AbandonPage(w) PROVE TypeOK'
  <2>1. held[w] \in Slot
    BY <1>8 DEF AbandonPage, HeldOK, Holding
  <2>2. orphans' \in [Slot -> 0..MaxOrphans]
    BY <1>8, <2>1 DEF AbandonPage
  <2> QED
    BY <1>8, <2>2 DEF AbandonPage, Goto, poolVars, tokenVars
<1>9. ASSUME NEW w \in Worker, ReleaseActive(w) PROVE TypeOK'
  <2>1. held[w] \in Slot
    BY <1>9 DEF ReleaseActive, HeldOK, Holding
  <2>2. /\ active' \in [Slot -> Int]
        /\ lost' \in [Slot -> Nat]
        /\ pc' \in [Worker -> PC]
        /\ held' \in [Worker -> Slot \cup {NoSlot}]
    BY <1>9, <2>1 DEF ReleaseActive, Return, Goto
  <2>3. expired' \in [Worker -> BOOLEAN]
    BY <1>9 DEF ReleaseActive, Return
  <2> QED
    BY <1>9, <2>2, <2>3 DEF ReleaseActive, poolVars
<1>10. ASSUME NEW w \in Worker, ReturnToken(w) \/ DropToken(w) PROVE TypeOK'
  <2>1. held[w] \in Slot
    BY <1>10 DEF ReturnToken, DropToken, HeldOK, Holding
  <2>2. /\ available' \in [Slot -> Nat] /\ lost' \in [Slot -> Nat]
        /\ active' \in [Slot -> Int]
        /\ pc' \in [Worker -> PC]
        /\ held' \in [Worker -> Slot \cup {NoSlot}]
    BY <1>10, <2>1 DEF ReturnToken, DropToken, Return, Goto
  <2>3. expired' \in [Worker -> BOOLEAN]
    BY <1>10 DEF ReturnToken, DropToken, Return
  <2> QED
    BY <1>10, <2>2, <2>3 DEF ReturnToken, DropToken, poolVars
<1>12. ASSUME NEW w \in Worker, Expire(w) PROVE TypeOK'
  BY <1>12 DEF Expire, poolVars, tokenVars
<1>13. ASSUME NEW s \in Slot, CloseSlot(s) \/ CloseBrowser(s) \/ BrowserCrash(s)
       PROVE  TypeOK'
  BY <1>13 DEF CloseSlot, CloseBrowser, BrowserCrash, tokenVars, workerVars
<1>14. ASSUME NEW s \in Slot, OrphanClosed(s) PROVE TypeOK'
  BY <1>14 DEF OrphanClosed, poolVars, tokenVars, workerVars
<1>15. CASE Cancel
  BY <1>15 DEF Cancel, poolVars, tokenVars, workerVars
<1>16. CASE UNCHANGED vars
  BY <1>16 DEF vars
<1> QED
  BY <1>1, <1>2, <1>3, <1>4, <1>5, <1>5a, <1>6, <1>7, <1>8, <1>9, <1>10,
     <1>12, <1>13, <1>14, <1>15, <1>16 DEF Next, FetchStep

-----------------------------------------------------------------------------
\* HeldOK and PhaseOK are preserved.
LEMMA HeldStep ==
    ASSUME TypeOK, HeldOK, [Next]_vars
    PROVE  HeldOK'
<1> USE SlotAssumption DEF TypeOK, HeldOK, Holding
<1>1. ASSUME UNCHANGED <<pc, held>> PROVE HeldOK'
  BY <1>1
<1>2. ASSUME NEW w \in Worker, FetchCall(w) PROVE HeldOK'
  BY <1>2 DEF FetchCall, Goto
<1>3. ASSUME NEW w \in Worker, AcquireDone(w) PROVE HeldOK'
  BY <1>3 DEF AcquireDone, Return, Goto
<1>4. ASSUME NEW w \in Worker, NEW s \in Slot, Acquire(w, s) PROVE HeldOK'
  BY <1>4 DEF Acquire, Goto
<1>5. ASSUME NEW w \in Worker,
             CountActive(w) \/ NewPage(w) \/ NewPageFails(w)
             \/ BrowserActions(w) \/ ClosePage(w) \/ AbandonPage(w)
      PROVE  HeldOK'
  BY <1>5 DEF CountActive, NewPage, NewPageFails, BrowserActions, ClosePage, AbandonPage, Goto
<1>6. ASSUME NEW w \in Worker, ReleaseActive(w) PROVE HeldOK'
  BY <1>6 DEF ReleaseActive, Return, Goto
<1>7. ASSUME NEW w \in Worker, ReturnToken(w) \/ DropToken(w) PROVE HeldOK'
  BY <1>7 DEF ReturnToken, DropToken, Return, Goto
<1> QED
  BY <1>1, <1>2, <1>3, <1>4, <1>5, <1>6, <1>7
  DEF Next, FetchStep, vars, workerVars, NewSlot, NewSlotFails, CloseSlot,
      CloseBrowser, BrowserCrash, OrphanClosed, Expire, Cancel

LEMMA PhaseStep ==
    ASSUME TypeOK, PhaseOK, [Next]_vars
    PROVE  PhaseOK'
<1> USE DEF TypeOK, PhaseOK
<1>1. ASSUME UNCHANGED <<phase, browser>> PROVE PhaseOK'
  BY <1>1
<1>2. ASSUME NEW s \in Slot, NewSlot(s) PROVE PhaseOK'
  BY <1>2 DEF NewSlot
<1>3. ASSUME NEW s \in Slot, NewSlotFails(s) PROVE PhaseOK'
  BY <1>3 DEF NewSlotFails
<1>4. ASSUME NEW s \in Slot, CloseSlot(s) \/ CloseBrowser(s) \/ BrowserCrash(s)
      PROVE  PhaseOK'
  BY <1>4 DEF CloseSlot, CloseBrowser, BrowserCrash
<1> QED
  BY <1>1, <1>2, <1>3, <1>4
  DEF Next, FetchStep, vars, poolVars, FetchCall, AcquireDone, Acquire,
      CountActive, NewPage, NewPageFails, BrowserActions, ClosePage, AbandonPage,
      ReleaseActive, ReturnToken, DropToken, OrphanClosed, Expire, Cancel

LEMMA EndsStep ==
    ASSUME TypeOK, PhaseOK, EndsOK, [Next]_vars
    PROVE  EndsOK'
<1> USE DEF TypeOK, EndsOK
<1>1. ASSUME NEW s \in Slot, NewSlot(s) \/ NewSlotFails(s) PROVE EndsOK'
  BY <1>1 DEF NewSlot, NewSlotFails, workerVars
<1>2. ASSUME NEW w \in Worker, FetchCall(w) PROVE EndsOK'
  BY <1>2 DEF FetchCall, Goto, poolVars
<1>3. ASSUME NEW w \in Worker, FetchStep(w)
      PROVE  /\ pc[w] # "idle" /\ UNCHANGED <<phase, closed>>
             /\ \A v \in Worker : expired'[v] => expired[v]
  BY <1>3 DEF FetchStep, AcquireDone, Acquire, CountActive, NewPage, NewPageFails,
     BrowserActions, ClosePage, AbandonPage, ReleaseActive, ReturnToken, DropToken,
     Return, poolVars
<1>4. ASSUME NEW w \in Worker, FetchStep(w) PROVE EndsOK'
  BY <1>3, <1>4
<1>5. ASSUME NEW w \in Worker, Expire(w) PROVE EndsOK'
  BY <1>5 DEF Expire, poolVars
<1>6. ASSUME NEW s \in Slot, CloseSlot(s) PROVE EndsOK'
  BY <1>6 DEF CloseSlot, workerVars
<1>7. ASSUME NEW s \in Slot, CloseBrowser(s) \/ BrowserCrash(s) \/ OrphanClosed(s)
      PROVE  EndsOK'
  BY <1>7 DEF CloseBrowser, BrowserCrash, OrphanClosed, poolVars, workerVars
<1>8. CASE Cancel \/ UNCHANGED vars
  BY <1>8 DEF Cancel, vars, poolVars, workerVars
<1> QED
  BY <1>1, <1>2, <1>4, <1>5, <1>6, <1>7, <1>8 DEF Next

\* A token is lost where release finds the slot closed or the context done.
LEMMA LostStep ==
    ASSUME IInv, Next, NEW s \in Slot, lost'[s] # lost[s]
    PROVE  cancelled \/ phase = "closed" \/ \E w \in Timed : expired[w] /\ held[w] = s
<1> USE DEF IInv, TypeOK
<1>1. PICK w \in Worker : ReleaseActive(w) \/ DropToken(w)
  BY DEF Next, FetchStep, NewSlot, NewSlotFails, FetchCall, AcquireDone, Acquire,
     CountActive, NewPage, NewPageFails, BrowserActions, ClosePage, AbandonPage,
     ReturnToken, OrphanClosed, Expire, Cancel, CloseSlot, CloseBrowser,
     BrowserCrash, tokenVars
<1>2. held[w] = s
  BY <1>1 DEF ReleaseActive, DropToken
<1>3. CASE ReleaseActive(w)
  <2>1. closed[s] /\ pc[w] # "idle"
    BY <1>2, <1>3 DEF ReleaseActive
  <2> QED
    BY <2>1 DEF EndsOK
<1>4. CASE DropToken(w)
  BY <1>2, <1>4 DEF DropToken, Done, EndsOK
<1> QED
  BY <1>1, <1>3, <1>4

-----------------------------------------------------------------------------
\* What one step does to the two counted sets of a slot.
LEMMA SameCounts ==
    ASSUME TypeOK, held' = held,
           \A w \in Worker : pc'[w] \in Leasing <=> pc[w] \in Leasing
    PROVE  \A s \in Slot : Holders(s)' = Holders(s) /\ Leases(s)' = Leases(s)
  BY DEF Holders, Leases

LEMMA AcquireCounts ==
    ASSUME TypeOK, HeldOK, NEW w \in Worker, NEW s \in Slot, Acquire(w, s),
           NEW t \in Slot
    PROVE  /\ Cardinality(Holders(t)') = Cardinality(Holders(t)) + (IF t = s THEN 1 ELSE 0)
           /\ Leases(t)' = Leases(t)
<1> USE SlotAssumption DEF TypeOK
<1>1. held[w] = NoSlot /\ pc' = [pc EXCEPT ![w] = "taken"]
      /\ held' = [held EXCEPT ![w] = s]
  BY DEF Acquire, Goto, HeldOK, Holding
<1>2. Leases(t)' = Leases(t)
  BY <1>1 DEF Leases, Leasing, Acquire
<1>3. CASE t = s
  <2>1. Holders(t)' = Holders(t) \cup {w} /\ w \notin Holders(t)
    BY <1>1, <1>3 DEF Holders
  <2>2. Cardinality(Holders(t)') = Cardinality(Holders(t)) + 1
    BY <2>1, CountedSetsFinite, FS_AddElement
  <2> QED
    BY <1>2, <1>3, <2>2
<1>4. CASE t # s
  <2>1. Holders(t)' = Holders(t)
    BY <1>1, <1>4 DEF Holders
  <2> QED
    BY <1>2, <1>4, <2>1, CountedSetsFinite
<1> QED
  BY <1>3, <1>4

LEMMA CountActiveCounts ==
    ASSUME TypeOK, HeldOK, NEW w \in Worker, CountActive(w), NEW t \in Slot
    PROVE  /\ held[w] \in Slot
           /\ Holders(t)' = Holders(t)
           /\ Cardinality(Leases(t)') =
                Cardinality(Leases(t)) + (IF t = held[w] THEN 1 ELSE 0)
<1> USE SlotAssumption DEF TypeOK
<1>1. held[w] \in Slot /\ pc[w] = "taken" /\ held' = held
      /\ pc' = [pc EXCEPT ![w] = "leased"]
  BY DEF CountActive, Goto, HeldOK, Holding
<1>2. Holders(t)' = Holders(t)
  BY <1>1 DEF Holders
<1>3. CASE t = held[w]
  <2>1. Leases(t)' = Leases(t) \cup {w} /\ w \notin Leases(t)
    BY <1>1, <1>3 DEF Leases, Leasing
  <2>2. Cardinality(Leases(t)') = Cardinality(Leases(t)) + 1
    BY <2>1, CountedSetsFinite, FS_AddElement
  <2> QED
    BY <1>1, <1>2, <1>3, <2>2
<1>4. CASE t # held[w]
  <2>1. Leases(t)' = Leases(t)
    BY <1>1, <1>4 DEF Leases, Leasing
  <2> QED
    BY <1>1, <1>2, <1>4, <2>1, CountedSetsFinite
<1> QED
  BY <1>3, <1>4

\* The worker's lease ends: it leaves Holders of its slot.
LEMMA ReturnCounts ==
    ASSUME TypeOK, NEW w \in Worker, held[w] \in Slot, Return(w), NEW t \in Slot
    PROVE  /\ Cardinality(Holders(t)') =
                Cardinality(Holders(t)) - (IF t = held[w] THEN 1 ELSE 0)
           /\ pc[w] \notin Leasing => Leases(t)' = Leases(t)
           /\ pc[w] \in Leasing =>
                Cardinality(Leases(t)') =
                  Cardinality(Leases(t)) - (IF t = held[w] THEN 1 ELSE 0)
<1> USE SlotAssumption DEF TypeOK
<1>1. pc' = [pc EXCEPT ![w] = "idle"] /\ held' = [held EXCEPT ![w] = NoSlot]
  BY DEF Return, Goto
<1>2. ASSUME pc[w] \notin Leasing PROVE Leases(t)' = Leases(t)
  BY <1>1, <1>2 DEF Leases, Leasing, Holding
<1>3. CASE t = held[w]
  <2>1. Holders(t)' = Holders(t) \ {w} /\ w \in Holders(t)
    BY <1>1, <1>3 DEF Holders
  <2>2. ASSUME pc[w] \in Leasing
        PROVE  Leases(t)' = Leases(t) \ {w} /\ w \in Leases(t)
    BY <1>1, <1>3, <2>2 DEF Leases
  <2>3. IsFiniteSet(Holders(t)) /\ IsFiniteSet(Leases(t))
    BY CountedSetsFinite
  <2>4. Cardinality(Holders(t)') = Cardinality(Holders(t)) - 1
    BY <2>1, <2>3, FS_RemoveElement
  <2>5. ASSUME pc[w] \in Leasing
        PROVE  Cardinality(Leases(t)') = Cardinality(Leases(t)) - 1
    BY <2>2, <2>3, <2>5, FS_RemoveElement
  <2> QED
    BY <1>2, <1>3, <2>4, <2>5
<1>4. CASE t # held[w]
  <2>1. Holders(t)' = Holders(t) /\ Leases(t)' = Leases(t)
    BY <1>1, <1>4 DEF Holders, Leases
  <2> QED
    BY <1>2, <1>4, <2>1, CountedSetsFinite
<1> QED
  BY <1>3, <1>4

-----------------------------------------------------------------------------
\* The two counting invariants, one step per action that moves a token or a
\* lease; every other action leaves the counted sets as they are.
LEMMA CountStep ==
    ASSUME IInv, [Next]_vars
    PROVE  TokensConserved' /\ ActiveCountsLeases'
<1> USE DEF IInv
<1> DEFINE Accounts(s) ==
      /\ available[s] + Cardinality(Holders(s)) + lost[s] =
           IF browser[s] \in {"none", "leaked"} THEN 0 ELSE MaxPages
      /\ active[s] = Cardinality(Leases(s))
<1>0. \A s \in Slot : Accounts(s)
  BY DEF TokensConserved, ActiveCountsLeases
<1>a. SUFFICES \A s \in Slot : Accounts(s)'
  BY DEF TokensConserved, ActiveCountsLeases
<1>b. \A s \in Slot : /\ Cardinality(Holders(s)) \in Nat
                       /\ Cardinality(Leases(s)) \in Nat
                       /\ available[s] \in Nat /\ lost[s] \in Nat /\ active[s] \in Int
  BY CountedSetsFinite DEF TypeOK
<1>c. ASSUME UNCHANGED <<tokenVars, held>>,
             \A w \in Worker : pc'[w] \in Leasing <=> pc[w] \in Leasing,
             \A s \in Slot : (browser[s] \in {"none", "leaked"})' <=> browser[s] \in {"none", "leaked"}
      PROVE  \A s \in Slot : Accounts(s)'
  BY <1>0, <1>c, SameCounts DEF tokenVars
<1>1. ASSUME NEW s \in Slot, NewSlot(s) PROVE \A t \in Slot : Accounts(t)'
  <2>1. \A t \in Slot : Holders(t)' = Holders(t) /\ Leases(t)' = Leases(t)
    BY <1>1, SameCounts DEF NewSlot, workerVars
  <2>2. browser[s] = "none" /\ lost' = lost /\ active' = active
        /\ browser' = [browser EXCEPT ![s] = "up"]
        /\ available' = [available EXCEPT ![s] = MaxPages]
    BY <1>1 DEF NewSlot
  <2>3. Cardinality(Holders(s)) = 0 /\ lost[s] = 0
    <3>1. available[s] + Cardinality(Holders(s)) + lost[s] = 0
      BY <1>0, <2>2
    <3> HIDE DEF IInv
    <3> QED
      BY <1>b, <3>1
  <2>4. Accounts(s)'
    BY <1>0, <2>1, <2>2, <2>3, BoundAssumption DEF TypeOK
  <2>5. ASSUME NEW t \in Slot \ {s} PROVE Accounts(t)'
    BY <1>0, <2>1, <2>2, <2>5 DEF TypeOK
  <2> QED
    BY <2>4, <2>5
<1>2. ASSUME NEW s \in Slot, NewSlotFails(s) PROVE \A t \in Slot : Accounts(t)'
  <2>1. \A t \in Slot : (browser[t] \in {"none", "leaked"})' <=> browser[t] \in {"none", "leaked"}
    BY <1>2 DEF NewSlotFails, PhaseOK, TypeOK
  <2> QED
    BY <1>2, <1>c, <2>1 DEF NewSlotFails, workerVars, tokenVars
<1>3. ASSUME NEW w \in Worker, FetchCall(w) PROVE \A s \in Slot : Accounts(s)'
  BY <1>3, <1>c DEF FetchCall, Goto, poolVars, tokenVars, TypeOK, Leasing, Holding
<1>4. ASSUME NEW w \in Worker, AcquireDone(w) PROVE \A s \in Slot : Accounts(s)'
  <2>1. held' = held /\ \A v \in Worker : pc'[v] \in Leasing <=> pc[v] \in Leasing
    BY <1>4 DEF AcquireDone, Return, Goto, HeldOK, TypeOK, Leasing, Holding
  <2> QED
    BY <1>4, <1>c, <2>1 DEF AcquireDone, poolVars, tokenVars
<1>5. ASSUME NEW w \in Worker, NEW s \in Slot, Acquire(w, s)
      PROVE  \A t \in Slot : Accounts(t)'
  <2> SUFFICES ASSUME NEW t \in Slot PROVE Accounts(t)'
    OBVIOUS
  <2>1. /\ Cardinality(Holders(t)') = Cardinality(Holders(t)) + (IF t = s THEN 1 ELSE 0)
        /\ Leases(t)' = Leases(t)
    BY <1>5, AcquireCounts
  <2> QED
    BY <1>0, <1>b, <1>5, <2>1 DEF Acquire, poolVars, TypeOK
<1>5a. ASSUME NEW w \in Worker, CountActive(w) PROVE \A t \in Slot : Accounts(t)'
  <2> SUFFICES ASSUME NEW t \in Slot PROVE Accounts(t)'
    OBVIOUS
  <2>1. /\ held[w] \in Slot
        /\ Holders(t)' = Holders(t)
        /\ Cardinality(Leases(t)') =
             Cardinality(Leases(t)) + (IF t = held[w] THEN 1 ELSE 0)
    BY <1>5a, CountActiveCounts
  <2> QED
    BY <1>0, <1>b, <1>5a, <2>1 DEF CountActive, poolVars, TypeOK
<1>6. ASSUME NEW w \in Worker,
             NewPage(w) \/ NewPageFails(w) \/ BrowserActions(w)
             \/ ClosePage(w) \/ AbandonPage(w)
      PROVE  \A s \in Slot : Accounts(s)'
  <2>1. \A v \in Worker : pc'[v] \in Leasing <=> pc[v] \in Leasing
    BY <1>6 DEF NewPage, NewPageFails, BrowserActions, ClosePage, AbandonPage,
                Goto, TypeOK, Leasing, Holding
  <2> QED
    BY <1>6, <1>c, <2>1
    DEF NewPage, NewPageFails, BrowserActions, ClosePage, AbandonPage,
        poolVars, tokenVars
<1>7. ASSUME NEW w \in Worker, ReleaseActive(w) PROVE \A s \in Slot : Accounts(s)'
  <2> SUFFICES ASSUME NEW t \in Slot PROVE Accounts(t)'
    OBVIOUS
  <2>1. held[w] \in Slot /\ pc[w] \in Leasing
    BY <1>7 DEF ReleaseActive, HeldOK, TypeOK, Leasing, Holding
  <2>2. CASE Return(w) /\ lost' = [lost EXCEPT ![held[w]] = @ + 1]
    <3>1. /\ Cardinality(Holders(t)') = Cardinality(Holders(t)) - (IF t = held[w] THEN 1 ELSE 0)
          /\ Cardinality(Leases(t)') = Cardinality(Leases(t)) - (IF t = held[w] THEN 1 ELSE 0)
      BY <2>1, <2>2, ReturnCounts
    <3> QED
      BY <1>0, <1>b, <1>7, <2>1, <2>2, <3>1 DEF ReleaseActive, poolVars, TypeOK
  <2>3. CASE Goto(w, "return") /\ UNCHANGED <<lost, held, expired>>
    <3>1. Holders(t)' = Holders(t)
      BY <2>3 DEF Holders
    <3>2. CASE t = held[w]
      <4>1. Leases(t)' = Leases(t) \ {w} /\ w \in Leases(t)
        BY <2>1, <2>3, <3>2 DEF Leases, Leasing, Holding, Goto, TypeOK
      <4>2. Cardinality(Leases(t)') = Cardinality(Leases(t)) - 1
        BY <4>1, CountedSetsFinite, FS_RemoveElement
      <4> QED
        BY <1>0, <1>b, <1>7, <2>1, <2>3, <3>1, <3>2, <4>2
        DEF ReleaseActive, poolVars, TypeOK
    <3>3. CASE t # held[w]
      <4>1. Leases(t)' = Leases(t)
        BY <2>3, <3>3 DEF Leases, Goto, TypeOK
      <4> QED
        BY <1>0, <1>b, <1>7, <2>1, <2>3, <3>1, <3>3, <4>1
        DEF ReleaseActive, poolVars, TypeOK
    <3> QED
      BY <3>2, <3>3
  <2> QED
    BY <1>7, <2>2, <2>3 DEF ReleaseActive
<1>8. ASSUME NEW w \in Worker, ReturnToken(w) \/ DropToken(w)
      PROVE  \A s \in Slot : Accounts(s)'
  <2> SUFFICES ASSUME NEW t \in Slot PROVE Accounts(t)'
    OBVIOUS
  <2>1. held[w] \in Slot /\ pc[w] \notin Leasing /\ Return(w)
    BY <1>8 DEF ReturnToken, DropToken, HeldOK, TypeOK, Leasing, Holding
  <2>2. /\ Cardinality(Holders(t)') = Cardinality(Holders(t)) - (IF t = held[w] THEN 1 ELSE 0)
        /\ Leases(t)' = Leases(t)
    BY <2>1, ReturnCounts
  <2>3. CASE ReturnToken(w)
    BY <1>0, <1>b, <2>1, <2>2, <2>3 DEF ReturnToken, poolVars, TypeOK
  <2>4. CASE DropToken(w)
    <3>1. /\ lost' = [lost EXCEPT ![held[w]] = @ + 1]
          /\ UNCHANGED <<browser, active, available>>
      BY <2>4 DEF DropToken, poolVars
    <3>2. lost[t]' = lost[t] + (IF t = held[w] THEN 1 ELSE 0)
      BY <2>1, <3>1 DEF TypeOK
    <3> QED
      BY <1>0, <1>b, <2>2, <3>1, <3>2
  <2> QED
    BY <1>8, <2>3, <2>4
<1>9. ASSUME NEW s \in Slot, CloseSlot(s) \/ CloseBrowser(s) \/ BrowserCrash(s)
      PROVE  \A t \in Slot : Accounts(t)'
  <2>1. \A t \in Slot : (browser[t] \in {"none", "leaked"})' <=> browser[t] \in {"none", "leaked"}
    <3>1. CASE CloseSlot(s)
      BY <3>1 DEF CloseSlot
    <3>2. CASE CloseBrowser(s)
      <4>1. browser[s] \notin {"none", "leaked"}
        BY <3>2 DEF CloseBrowser, PhaseOK, TypeOK
      <4> QED
        BY <3>2, <4>1 DEF CloseBrowser, TypeOK
    <3>3. CASE BrowserCrash(s)
      BY <3>3 DEF BrowserCrash, TypeOK
    <3> QED
      BY <1>9, <3>1, <3>2, <3>3
  <2> QED
    BY <1>9, <1>c, <2>1
    DEF CloseSlot, CloseBrowser, BrowserCrash, tokenVars, workerVars
<1>10. ASSUME UNCHANGED <<browser, tokenVars, pc, held>>
       PROVE  \A s \in Slot : Accounts(s)'
  BY <1>10, <1>c
<1> QED
  BY <1>1, <1>2, <1>3, <1>4, <1>5, <1>5a, <1>6, <1>7, <1>8, <1>9, <1>10
  DEF Next, FetchStep, vars, poolVars, tokenVars, workerVars, OrphanClosed,
      Expire, Cancel

-----------------------------------------------------------------------------
LEMMA IInvInit == Init => IInv
<1> SUFFICES ASSUME Init PROVE IInv
  OBVIOUS
<1>1. TypeOK
  BY TypeInit
<1>2. HeldOK /\ PhaseOK /\ EndsOK
  BY DEF Init, HeldOK, PhaseOK, EndsOK, Holding
<1>3. \A s \in Slot : Holders(s) = {} /\ Leases(s) = {}
  BY SlotAssumption DEF Init, Holders, Leases
<1>4. TokensConserved /\ ActiveCountsLeases
  BY <1>3, FS_EmptySet DEF Init, TokensConserved, ActiveCountsLeases
<1> QED
  BY <1>1, <1>2, <1>4 DEF IInv

\* IInv is an inductive invariant of the specification.
THEOREM Invariance == Spec => []IInv
<1>1. IInv /\ [Next]_vars => IInv'
  BY TypeStep, HeldStep, PhaseStep, EndsStep, CountStep DEF IInv
<1> QED
  BY IInvInit, <1>1, PTL DEF Spec

\* Type correctness, for every number of slots and workers.
THEOREM TypeCorrect == Spec => []TypeOK
<1>1. IInv => TypeOK
  BY DEF IInv
<1> QED
  BY Invariance, <1>1, PTL

\* page_slot_pool.go never duplicates or forges a token: what is in the
\* channel, in the workers' hands and dropped always adds up to the slot's
\* maxPagesPerBrowser.
THEOREM TokensConservedAlways == Spec => []TokensConserved
<1>1. IInv => TokensConserved
  BY DEF IInv
<1> QED
  BY Invariance, <1>1, PTL

\* The pool loses no token before it ends, but to a deadline of the job that holds it:
\* with jobs that set no timeout it keeps its capacity until the shutdown.
THEOREM TokensKeptAlways == Spec => TokensKept
<1>1. IInv /\ [Next]_vars =>
        [\A s \in Slot : lost'[s] # lost[s] =>
           \/ cancelled \/ phase = "closed"
           \/ \E w \in Timed : expired[w] /\ held[w] = s]_vars
  BY LostStep
<1> QED
  BY <1>1, Invariance, PTL DEF Spec, TokensKept

\* pageSlot.active is the number of leases in use.
THEOREM ActiveCountsLeasesAlways == Spec => []ActiveCountsLeases
<1>1. IInv => ActiveCountsLeases
  BY DEF IInv
<1> QED
  BY Invariance, <1>1, PTL

\* No browser ever has more than maxPagesPerBrowser leased pages, also while
\* pages are abandoned, browsers crash and the pool is closed.
THEOREM PagesBoundedAlways == Spec => []PagesBounded
<1>1. IInv => PagesBounded
  <2> SUFFICES ASSUME IInv, NEW s \in Slot
               PROVE  Cardinality(Pages(s)) <= MaxPages
    BY DEF PagesBounded
  <2>1. Pages(s) \subseteq Holders(s)
    BY DEF Pages, Holders
  <2>2. /\ IsFiniteSet(Holders(s)) /\ Cardinality(Holders(s)) \in Nat
    BY CountedSetsFinite
  <2>3. Cardinality(Pages(s)) <= Cardinality(Holders(s)) /\ Cardinality(Pages(s)) \in Nat
    BY <2>1, <2>2, FS_Subset, FS_CardinalityType
  <2>4. Cardinality(Holders(s)) <= MaxPages
    BY <2>2, BoundAssumption DEF IInv, TypeOK, TokensConserved
  <2> QED
    BY <2>2, <2>3, <2>4, BoundAssumption
<1> QED
  BY Invariance, <1>1, PTL

\* The operator that LeasePool extends FiniteSets for is the one used here.
LEMMA SameCardinality ==
    ASSUME NEW S PROVE Lease!Cardinality(S) = Cardinality(S)
  BY DEF Cardinality, Lease!Cardinality, IsFiniteSet, Lease!IsFiniteSet

\* A step of the pool is a step of the lease pool, or leaves the leases alone: the
\* token that acquire receives shows that the slot has room for one more job.
LEMMA LeaseStep ==
    ASSUME IInv, [Next]_vars
    PROVE  [Lease!Next]_held
<1> USE SlotAssumption DEF IInv, TypeOK
<1>1. ASSUME NEW w \in Worker, NEW s \in Slot, Acquire(w, s)
      PROVE  Lease!Acquire(w, s)
  <2>1. held[w] = NoSlot
    BY <1>1 DEF HeldOK, Acquire, Holding
  <2>2. Lease!Users(s) = Holders(s)
    BY DEF Lease!Users, Holders
  <2>3. Cardinality(Holders(s)) \in Nat
    BY CountedSetsFinite
  <2>4. Cardinality(Holders(s)) < MaxPages
    BY <1>1, <2>3, BoundAssumption DEF Acquire, TokensConserved
  <2> QED
    BY <1>1, <2>1, <2>2, <2>4, SameCardinality DEF Lease!Acquire, Acquire
<1>2. ASSUME NEW w \in Worker, Return(w)
      PROVE  Lease!Release(w) \/ UNCHANGED held
  BY <1>2 DEF Lease!Release, Return
<1>3. ASSUME NEW w \in Worker, AcquireDone(w) \/ ReleaseActive(w) \/ ReturnToken(w) \/ DropToken(w)
      PROVE  Lease!Release(w) \/ UNCHANGED held
  BY <1>2, <1>3 DEF AcquireDone, ReleaseActive, ReturnToken, DropToken
<1>4. ASSUME NEW w \in Worker,
             \/ FetchCall(w) \/ CountActive(w) \/ NewPage(w) \/ NewPageFails(w)
             \/ BrowserActions(w) \/ ClosePage(w) \/ AbandonPage(w) \/ Expire(w)
      PROVE  UNCHANGED held
  BY <1>4 DEF FetchCall, CountActive, NewPage, NewPageFails, BrowserActions,
              ClosePage, AbandonPage, Expire
<1>5. ASSUME NEW s \in Slot,
             \/ NewSlot(s) \/ NewSlotFails(s) \/ CloseSlot(s) \/ CloseBrowser(s)
             \/ BrowserCrash(s) \/ OrphanClosed(s)
      PROVE  UNCHANGED held
  BY <1>5 DEF NewSlot, NewSlotFails, CloseSlot, CloseBrowser, BrowserCrash,
              OrphanClosed, workerVars
<1>6. ASSUME Cancel \/ UNCHANGED vars PROVE UNCHANGED held
  BY <1>6 DEF Cancel, workerVars, vars
<1> QED
  BY <1>1, <1>3, <1>4, <1>5, <1>6 DEF Next, FetchStep, Lease!Next

\* The page-slot pool implements the abstract lease pool of capacity
\* maxPagesPerBrowser.
THEOREM ImplementsLeasePool == Spec => LeasesUpToCapacity
<1>1. Init => Lease!Init
  BY DEF Init, Lease!Init
<1>2. IInv /\ [Next]_vars => [Lease!Next]_held
  BY LeaseStep
<1> QED
  BY Invariance, <1>1, <1>2, PTL DEF Spec, LeasesUpToCapacity, Lease!Spec

\* A constructor that fails part-way has closed every browser its slots held.
THEOREM FailedPoolHasNoBrowserAlways == Spec => []FailedPoolHasNoBrowser
<1>1. IInv => FailedPoolHasNoBrowser
  BY DEF IInv, PhaseOK, FailedPoolHasNoBrowser
<1> QED
  BY Invariance, <1>1, PTL
=============================================================================
