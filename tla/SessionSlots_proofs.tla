-------------------------- MODULE SessionSlots_proofs --------------------------
(***************************************************************************)
(* Proofs about SessionSlots, for any number of slots, workers, pages and  *)
(* faults.                                                                 *)
(*                                                                         *)
(* The two bounds on the cost of recovery are not inductive: a slot whose  *)
(* browser has just died has not yet lost the fetches that this costs.     *)
(* Debt and Owed count what a slot will still lose without another fault;  *)
(* with them added the bounds hold in every state (SlotOK).                *)
(***************************************************************************)
EXTENDS SessionSlots, FiniteSetTheorems, TLAPS

\* A slot is held exactly between getSlot and putSlot.
HeldOK == \A w \in Worker : held[w] # NoSlot <=> pc[w] \notin {"idle", "get"}

\* Close begins when no fetch is left, and what it has closed stays closed.
PhaseOK ==
    /\ phase # "open" => \A w \in Worker : pc[w] = "idle"
    /\ phase = "closed" => pool = {}
    /\ \A s \in dropped : browser[s] \in {"none", "closed"}

\* The worker that holds s is at l.
At(s, l) == \E w \in Worker : held[w] = s /\ pc[w] = l

\* A running browser has an open context, except when recreateContext has just
\* failed; and without a browser no fetch gets past ensureReady.
RuntimeOK(s) ==
    /\ browser[s] = "up" => context[s] = "open" \/ At(s, "recreateBrowser")
    /\ browser[s] = "none" =>
         \A w \in Worker : held[w] = s => pc[w] \in {"ready", "put"}

\* How many fetches will get no page although no further fault happens.
Debt(s) ==
    IF s \in dropped \/ browser[s] = "none" THEN 0
    ELSE IF browser[s] = "up" THEN (IF At(s, "recreateBrowser") THEN 1 ELSE 0)
    ELSE IF At(s, "second") THEN 2 ELSE 1

\* How many contexts will be made although no further fault happens.
Owed(s) ==
    IF \/ s \in dropped
       \/ browser[s] = "up" /\ ~At(s, "recreateContext") /\ ~At(s, "recreateBrowser")
    THEN 0 ELSE 1

SlotOK(s) ==
    /\ RuntimeOK(s)
    /\ noPage[s] + Debt(s) <= 2 * faults[s]
    /\ contexts[s] + Owed(s) <= 1 + faults[s]

\* The contexts of a slot are counted, and the first one has its options.
FirstContext(s) ==
    /\ contexts[s] = 0 => browser[s] = "none"
    /\ contexts[s] = 1 => options[s]

IInv ==
    /\ TypeOK
    /\ HeldOK
    /\ SlotsConserved
    /\ PhaseOK
    /\ \A s \in Slot : SlotOK(s) /\ FirstContext(s)

-----------------------------------------------------------------------------
\* Without a lease, a worker is outside getSlot and putSlot.
LEMMA HoldersOfSlots ==
    ASSUME TypeOK, HeldOK, NEW w \in Worker, pc[w] \notin {"idle", "get"}
    PROVE  held[w] \in Slot
  BY DEF TypeOK, HeldOK

\* TypeOK holds initially and every action preserves it.
LEMMA TypeInit == Init => TypeOK
<1> SUFFICES ASSUME Init PROVE TypeOK
  OBVIOUS
<1> USE DEF Init
<1>1. options \in [Slot -> BOOLEAN] /\ cancelled \in BOOLEAN
  BY Zenon
<1>2. /\ pages \in [Slot -> 0..MaxPages] /\ faults \in [Slot -> 0..MaxFaults]
      /\ noPage \in [Slot -> Nat] /\ contexts \in [Slot -> Nat]
  BY BoundAssumption
<1>3. /\ browser \in [Slot -> {"none", "up", "dead", "closed"}]
      /\ context \in [Slot -> {"none", "open", "closed"}]
      /\ pc \in [Worker -> PC] /\ held \in [Worker -> Slot \cup {NoSlot}]
      /\ page \in [Worker -> {"none", "open", "closed"}]
  BY DEF PC
<1> QED
  BY <1>1, <1>2, <1>3 DEF TypeOK

LEMMA TypeStep ==
    ASSUME TypeOK, HeldOK, [Next]_vars
    PROVE  TypeOK'
<1> USE SlotAssumption, BoundAssumption
    DEF TypeOK, PC, Goto, slotVars, workerVars, historyVars
<1>1. ASSUME NEW w \in Worker, FetchCall(w) \/ GetSlotDone(w) PROVE TypeOK'
  BY <1>1 DEF FetchCall, GetSlotDone
<1>2. ASSUME NEW w \in Worker, NEW s \in Slot, GetSlot(w, s) PROVE TypeOK'
  BY <1>2 DEF GetSlot
<1>3. ASSUME NEW w \in Worker, EnsureReady(w) PROVE TypeOK'
  <2>1. held[w] \in Slot
    BY <1>3, HoldersOfSlots DEF EnsureReady
  <2>2. options' \in [Slot -> BOOLEAN]
    BY <1>3, <2>1 DEF EnsureReady, NewBrowser
  <2> QED
    BY <1>3, <2>1, <2>2 DEF EnsureReady, NewBrowser, WithoutPage, Fault
<1>4. ASSUME NEW w \in Worker, FirstPage(w) PROVE TypeOK'
  <2> held[w] \in Slot
    BY <1>4, HoldersOfSlots DEF FirstPage
  <2> QED
    BY <1>4 DEF FirstPage, PrimaryPage, DriverFails, Fault
<1>5. ASSUME NEW w \in Worker, CheckPage(w) PROVE TypeOK'
  BY <1>5 DEF CheckPage
<1>6. ASSUME NEW w \in Worker, RecreatePage(w) PROVE TypeOK'
  <2> held[w] \in Slot
    BY <1>6, HoldersOfSlots DEF RecreatePage
  <2> QED
    BY <1>6 DEF RecreatePage, DriverFails, Fault
<1>7. ASSUME NEW w \in Worker, RecreateContext(w) PROVE TypeOK'
  <2>1. held[w] \in Slot
    BY <1>7, HoldersOfSlots DEF RecreateContext
  <2>2. options' \in [Slot -> BOOLEAN]
    BY <1>7, <2>1 DEF RecreateContext
  <2>3. /\ browser' \in [Slot -> {"none", "up", "dead", "closed"}]
        /\ context' \in [Slot -> {"none", "open", "closed"}]
        /\ pages' \in [Slot -> 0..MaxPages]
    BY <1>7, <2>1 DEF RecreateContext, DriverFails, Fault
  <2>4. /\ faults' \in [Slot -> 0..MaxFaults]
        /\ noPage' \in [Slot -> Nat]
        /\ contexts' \in [Slot -> Nat]
    BY <1>7, <2>1 DEF RecreateContext, DriverFails, Fault
  <2>5. /\ pc' \in [Worker -> PC]
        /\ page' \in [Worker -> {"none", "open", "closed"}]
    BY <1>7, <2>1 DEF RecreateContext, DriverFails, Fault
  <2> QED
    BY <1>7, <2>2, <2>3, <2>4, <2>5 DEF RecreateContext
<1>8. ASSUME NEW w \in Worker, RecreateBrowser(w) PROVE TypeOK'
  <2>1. held[w] \in Slot
    BY <1>8, HoldersOfSlots DEF RecreateBrowser
  <2>2. options' \in [Slot -> BOOLEAN]
    BY <1>8, <2>1 DEF RecreateBrowser, NewBrowser
  <2>3. /\ browser' \in [Slot -> {"none", "up", "dead", "closed"}]
        /\ context' \in [Slot -> {"none", "open", "closed"}]
        /\ pages' \in [Slot -> 0..MaxPages]
    BY <1>8, <2>1 DEF RecreateBrowser, NewBrowser, WithoutPage, Fault
  <2>4. /\ faults' \in [Slot -> 0..MaxFaults]
        /\ noPage' \in [Slot -> Nat]
        /\ contexts' \in [Slot -> Nat]
    BY <1>8, <2>1 DEF RecreateBrowser, NewBrowser, WithoutPage, Fault
  <2>5. /\ pc' \in [Worker -> PC]
        /\ page' \in [Worker -> {"none", "open", "closed"}]
    BY <1>8, <2>1 DEF RecreateBrowser, NewBrowser, WithoutPage, Fault
  <2> QED
    BY <1>8, <2>2, <2>3, <2>4, <2>5 DEF RecreateBrowser
<1>9. ASSUME NEW w \in Worker, SecondPage(w) PROVE TypeOK'
  <2> held[w] \in Slot
    BY <1>9, HoldersOfSlots DEF SecondPage
  <2> QED
    BY <1>9 DEF SecondPage, PrimaryPage, WithoutPage, DriverFails, Fault
<1>10. ASSUME NEW w \in Worker, OpenExtraPage(w) \/ Release(w) PROVE TypeOK'
  <2> held[w] \in Slot
    BY <1>10, HoldersOfSlots DEF OpenExtraPage, Release
  <2> QED
    BY <1>10 DEF OpenExtraPage, Release
<1>11. ASSUME NEW w \in Worker, BrowserActions(w) PROVE TypeOK'
  BY <1>11 DEF BrowserActions
<1>12. ASSUME NEW w \in Worker, PutBack(w) \/ PutClose(w) PROVE TypeOK'
  <2> held[w] \in Slot
    BY <1>12, HoldersOfSlots DEF PutBack, PutClose
  <2> QED
    BY <1>12 DEF PutBack, PutClose, Return, CloseBrowser
<1>13. ASSUME Close \/ Closed \/ Cancel PROVE TypeOK'
  BY <1>13 DEF Close, Closed, Cancel
<1>14. ASSUME NEW s \in Slot, DrainSlot(s) PROVE TypeOK'
  BY <1>14 DEF DrainSlot, CloseBrowser
<1>15. ASSUME NEW s \in Slot, BrowserCrash(s) \/ PageCloses(s) PROVE TypeOK'
  BY <1>15 DEF BrowserCrash, PageCloses, LosesPage, Fault
<1>16. ASSUME UNCHANGED vars PROVE TypeOK'
  BY <1>16 DEF vars
<1> QED
  BY <1>1, <1>2, <1>3, <1>4, <1>5, <1>6, <1>7, <1>8, <1>9, <1>10, <1>11, <1>12,
     <1>13, <1>14, <1>15, <1>16 DEF Next, AcquirePage

\* A worker holds a slot exactly between getSlot and putSlot.
LEMMA HeldStep ==
    ASSUME TypeOK, HeldOK, [Next]_vars
    PROVE  HeldOK'
<1> USE SlotAssumption DEF TypeOK, HeldOK, Goto, slotVars, workerVars, historyVars
<1>1. ASSUME UNCHANGED <<pc, held>> PROVE HeldOK'
  BY <1>1
<1>2. ASSUME NEW w \in Worker,
             FetchCall(w) \/ GetSlotDone(w) \/ (\E s \in Slot : GetSlot(w, s))
      PROVE  HeldOK'
  BY <1>2 DEF FetchCall, GetSlotDone, GetSlot
<1>3. ASSUME NEW w \in Worker, EnsureReady(w) PROVE HeldOK'
  BY <1>3 DEF EnsureReady, WithoutPage
<1>4. ASSUME NEW w \in Worker, FirstPage(w) \/ SecondPage(w) PROVE HeldOK'
  BY <1>4 DEF FirstPage, SecondPage, PrimaryPage, WithoutPage
<1>5. ASSUME NEW w \in Worker, CheckPage(w) PROVE HeldOK'
  BY <1>5 DEF CheckPage
<1>6. ASSUME NEW w \in Worker, RecreatePage(w) \/ RecreateContext(w) PROVE HeldOK'
  BY <1>6 DEF RecreatePage, RecreateContext
<1>7. ASSUME NEW w \in Worker, RecreateBrowser(w) PROVE HeldOK'
  BY <1>7 DEF RecreateBrowser, WithoutPage
<1>8. ASSUME NEW w \in Worker, BrowserActions(w) \/ Release(w) PROVE HeldOK'
  BY <1>8 DEF BrowserActions, Release
<1>9. ASSUME NEW w \in Worker, PutBack(w) \/ PutClose(w) PROVE HeldOK'
  BY <1>9 DEF PutBack, PutClose, Return
<1>10. ASSUME NEW w \in Worker, OpenExtraPage(w) PROVE HeldOK'
  BY <1>10, <1>1 DEF OpenExtraPage
<1>11. ASSUME \/ Close \/ Closed \/ Cancel \/ UNCHANGED vars
              \/ \E s \in Slot : DrainSlot(s) \/ BrowserCrash(s) \/ PageCloses(s)
       PROVE  HeldOK'
  BY <1>11, <1>1 DEF Close, Closed, Cancel, vars, DrainSlot, BrowserCrash, PageCloses
<1> QED
  BY <1>2, <1>3, <1>4, <1>5, <1>6, <1>7, <1>8, <1>9, <1>10, <1>11 DEF Next, AcquirePage

\* Slots move between the channel, the workers and the closed ones, one by one.
LEMMA ConservedStep ==
    ASSUME TypeOK, HeldOK, SlotsConserved, [Next]_vars
    PROVE  SlotsConserved'
<1> USE SlotAssumption DEF TypeOK, HeldOK, SlotsConserved
<1>1. ASSUME UNCHANGED <<pool, held, dropped>> PROVE SlotsConserved'
  BY <1>1
<1>2. ASSUME NEW w \in Worker, NEW s \in Slot, GetSlot(w, s) PROVE SlotsConserved'
  <2>1. /\ pool' = pool \ {s} /\ dropped' = dropped /\ s \in pool
        /\ held' = [held EXCEPT ![w] = s] /\ held[w] = NoSlot
    BY <1>2 DEF GetSlot
  <2> QED
    BY <2>1
<1>3. ASSUME NEW w \in Worker, PutBack(w) PROVE SlotsConserved'
  <2>1. /\ pool' = pool \cup {held[w]} /\ dropped' = dropped /\ held[w] \in Slot
        /\ held' = [held EXCEPT ![w] = NoSlot]
    BY <1>3, HoldersOfSlots DEF PutBack, Return
  <2> QED
    BY <2>1
<1>4. ASSUME NEW w \in Worker, PutClose(w) PROVE SlotsConserved'
  <2>1. /\ pool' = pool /\ dropped' = dropped \cup {held[w]} /\ held[w] \in Slot
        /\ held' = [held EXCEPT ![w] = NoSlot]
    BY <1>4, HoldersOfSlots DEF PutClose, Return, CloseBrowser
  <2> QED
    BY <2>1
<1>5. ASSUME NEW s \in Slot, DrainSlot(s) PROVE SlotsConserved'
  BY <1>5 DEF DrainSlot, CloseBrowser, workerVars
<1>6. ASSUME NEW w \in Worker,
             \/ FetchCall(w) \/ GetSlotDone(w) \/ AcquirePage(w)
             \/ OpenExtraPage(w) \/ BrowserActions(w) \/ Release(w)
      PROVE  UNCHANGED <<pool, held, dropped>>
  BY <1>6 DEF FetchCall, GetSlotDone, AcquirePage, EnsureReady, FirstPage,
     CheckPage, RecreatePage, RecreateContext, RecreateBrowser, SecondPage,
     OpenExtraPage, BrowserActions, Release, workerVars
<1>7. ASSUME \/ Close \/ Closed \/ Cancel \/ UNCHANGED vars
             \/ \E s \in Slot : BrowserCrash(s) \/ PageCloses(s)
      PROVE  UNCHANGED <<pool, held, dropped>>
  BY <1>7 DEF Close, Closed, Cancel, vars, BrowserCrash, PageCloses, workerVars
<1> QED
  BY <1>1, <1>2, <1>3, <1>4, <1>5, <1>6, <1>7 DEF Next

LEMMA PhaseStep ==
    ASSUME TypeOK, HeldOK, SlotsConserved, PhaseOK, [Next]_vars
    PROVE  PhaseOK'
<1> USE DEF TypeOK, PhaseOK, slotVars, workerVars, historyVars
<1>1. ASSUME UNCHANGED <<phase, pool, pc, dropped, browser>> PROVE PhaseOK'
  BY <1>1
<1>2. ASSUME NEW w \in Worker, FetchCall(w) \/ GetSlotDone(w) PROVE PhaseOK'
  BY <1>2 DEF FetchCall, GetSlotDone, Goto
<1>3. ASSUME NEW w \in Worker, \E s \in Slot : GetSlot(w, s) PROVE PhaseOK'
  BY <1>3 DEF GetSlot
<1>4. ASSUME NEW w \in Worker, AcquirePage(w) \/ BrowserActions(w) \/ Release(w)
      PROVE  PhaseOK'
  <2>1. /\ pc[w] \notin {"idle", "get"}
        /\ UNCHANGED <<phase, pool, dropped>>
        /\ \A s \in Slot \ {held[w]} : browser'[s] = browser[s]
    BY <1>4 DEF AcquirePage, EnsureReady, FirstPage, PrimaryPage, CheckPage,
       RecreatePage, RecreateContext, RecreateBrowser, SecondPage, NewBrowser,
       BrowserActions, Release
  <2>2. held[w] \in Slot \ dropped
    BY <2>1, HoldersOfSlots DEF HeldOK, SlotsConserved
  <2> QED
    BY <2>1, <2>2
<1>5. ASSUME NEW w \in Worker, PutBack(w) PROVE PhaseOK'
  BY <1>5 DEF PutBack
<1>6. ASSUME NEW w \in Worker, PutClose(w) PROVE PhaseOK'
  <2>1. phase = "open" /\ UNCHANGED <<phase, pool>> /\ held[w] \in Slot
    BY <1>6, HoldersOfSlots DEF PutClose
  <2>2. \A s \in dropped' : browser'[s] \in {"none", "closed"}
    BY <1>6, <2>1 DEF PutClose, CloseBrowser
  <2> QED
    BY <2>1, <2>2
<1>7. ASSUME NEW s \in Slot, DrainSlot(s) PROVE PhaseOK'
  BY <1>7 DEF DrainSlot, CloseBrowser
<1>8. ASSUME Close \/ Closed PROVE PhaseOK'
  BY <1>8 DEF Close, Closed
<1>9. ASSUME NEW s \in Slot, BrowserCrash(s) PROVE PhaseOK'
  BY <1>9 DEF BrowserCrash
<1>10. ASSUME Cancel \/ UNCHANGED vars \/ \E s \in Slot : PageCloses(s)
       PROVE  PhaseOK'
  BY <1>10 DEF Cancel, vars, PageCloses
<1>11. ASSUME NEW w \in Worker, OpenExtraPage(w) PROVE PhaseOK'
  BY <1>11 DEF OpenExtraPage
<1> QED
  BY <1>2, <1>3, <1>4, <1>5, <1>6, <1>7, <1>8, <1>9, <1>10, <1>11 DEF Next

-----------------------------------------------------------------------------
\* Where the holder of a slot is, is where its only holder is.
LEMMA AtHolder ==
    ASSUME SlotsConserved, NEW w \in Worker, held[w] \in Slot
    PROVE  /\ held[w] \notin dropped
           /\ \A l : At(held[w], l) <=> pc[w] = l
           /\ \A v \in Worker : held[v] = held[w] => v = w
  BY SlotAssumption DEF SlotsConserved, At

LEMMA AtHolderNext ==
    ASSUME SlotsConserved, NEW w \in Worker, held[w] \in Slot, held' = held
    PROVE  \A l : At(held[w], l)' <=> pc'[w] = l
  BY SlotAssumption DEF SlotsConserved, At

\* A slot that a step does not touch stays as it was.
LEMMA Untouched ==
    ASSUME NEW t \in Slot, SlotOK(t),
           browser'[t] = browser[t], context'[t] = context[t],
           faults'[t] = faults[t], noPage'[t] = noPage[t],
           contexts'[t] = contexts[t], t \in dropped' <=> t \in dropped,
           \A w \in Worker : held'[w] = t =>
                (held[w] = t /\ pc'[w] = pc[w]) \/ pc'[w] = "ready",
           \A w \in Worker : held[w] = t =>
                (held'[w] = t /\ pc'[w] = pc[w]) \/ pc[w] = "put"
    PROVE  SlotOK(t)'
<1>1. /\ At(t, "second")' <=> At(t, "second")
      /\ At(t, "recreateContext")' <=> At(t, "recreateContext")
      /\ At(t, "recreateBrowser")' <=> At(t, "recreateBrowser")
  BY DEF At
<1>2. RuntimeOK(t)'
  BY <1>1 DEF SlotOK, RuntimeOK
<1>3. Debt(t)' = Debt(t) /\ Owed(t)' = Owed(t)
  BY <1>1 DEF Debt, Owed
<1> QED
  BY <1>2, <1>3 DEF SlotOK

\* A step of a worker in its fetch touches no slot but its own.
LEMMA OtherSlots ==
    ASSUME NEW w \in Worker, held' = held, dropped' = dropped,
           \A v \in Worker \ {w} : pc'[v] = pc[v],
           NEW t \in Slot, t # held[w], SlotOK(t),
           browser'[t] = browser[t], context'[t] = context[t],
           faults'[t] = faults[t], noPage'[t] = noPage[t],
           contexts'[t] = contexts[t]
    PROVE  SlotOK(t)'
  BY Untouched

\* SlotOK of a slot whose holder is at l.
HeldSlotOK(b, c, l, f, n, k) ==
    /\ b = "up" => c = "open" \/ l = "recreateBrowser"
    /\ b = "none" => l \in {"ready", "put"}
    /\ n + (IF b = "none" THEN 0
            ELSE IF b = "up" THEN (IF l = "recreateBrowser" THEN 1 ELSE 0)
            ELSE IF l = "second" THEN 2 ELSE 1) <= 2 * f
    /\ k + (IF b = "up" /\ l \notin {"recreateContext", "recreateBrowser"}
            THEN 0 ELSE 1) <= 1 + f

\* What a worker does to its slot between getSlot and putSlot.
LEMMA HolderStep ==
    ASSUME TypeOK, HeldOK, SlotsConserved, \A t \in Slot : SlotOK(t),
           NEW w \in Worker,
           AcquirePage(w) \/ OpenExtraPage(w) \/ BrowserActions(w) \/ Release(w)
    PROVE  \A t \in Slot : SlotOK(t)'
<1> DEFINE s == held[w]
<1> USE DEF Goto, slotVars, workerVars, historyVars
<1>1. /\ pc[w] \notin {"idle", "get"}
      /\ held' = held /\ dropped' = dropped
      /\ \A v \in Worker \ {w} : pc'[v] = pc[v]
  BY DEF TypeOK, AcquirePage, EnsureReady, FirstPage, PrimaryPage, CheckPage,
     RecreatePage, RecreateContext, RecreateBrowser, SecondPage, WithoutPage,
     OpenExtraPage, BrowserActions, Release
<1>2. s \in Slot
  BY <1>1, HoldersOfSlots
<1>3. ASSUME NEW t \in Slot, t # s PROVE SlotOK(t)'
  <2>1. /\ browser'[t] = browser[t] /\ context'[t] = context[t]
        /\ faults'[t] = faults[t] /\ noPage'[t] = noPage[t]
        /\ contexts'[t] = contexts[t]
    <3> USE <1>3 DEF TypeOK, NewBrowser, WithoutPage, DriverFails, Fault
    <3>1. CASE EnsureReady(w)
      BY <3>1 DEF EnsureReady
    <3>2. CASE FirstPage(w)
      BY <3>2 DEF FirstPage, PrimaryPage
    <3>3. CASE RecreatePage(w) \/ CheckPage(w)
      BY <3>3 DEF RecreatePage, CheckPage
    <3>4. CASE RecreateContext(w)
      BY <3>4 DEF RecreateContext
    <3>5. CASE RecreateBrowser(w)
      BY <3>5 DEF RecreateBrowser
    <3>6. CASE SecondPage(w)
      BY <3>6 DEF SecondPage, PrimaryPage
    <3>7. CASE OpenExtraPage(w) \/ BrowserActions(w) \/ Release(w)
      BY <3>7 DEF OpenExtraPage, BrowserActions, Release
    <3> QED
      BY <3>1, <3>2, <3>3, <3>4, <3>5, <3>6, <3>7 DEF AcquirePage
  <2> QED
    BY <1>1, <1>3, <2>1, OtherSlots
<1>4. HeldSlotOK(browser[s], context[s], pc[w], faults[s], noPage[s], contexts[s])
  <2>1. s \notin dropped /\ \A l : At(s, l) <=> pc[w] = l
    BY <1>2, AtHolder
  <2>2. SlotOK(s)
    BY <1>2
  <2> QED
    BY <2>1, <2>2 DEF HeldSlotOK, SlotOK, RuntimeOK, Debt, Owed
<1>5. HeldSlotOK(browser'[s], context'[s], pc'[w], faults'[s], noPage'[s], contexts'[s])
  <2> USE <1>2, <1>4 DEF TypeOK, HeldSlotOK, Fault
  <2>1. CASE EnsureReady(w)
    BY <2>1 DEF EnsureReady, NewBrowser, WithoutPage
  <2>2. CASE FirstPage(w)
    BY <2>2 DEF FirstPage, PrimaryPage, DriverFails
  <2>3. CASE CheckPage(w)
    BY <2>3 DEF CheckPage
  <2>4. CASE RecreatePage(w)
    BY <2>4 DEF RecreatePage, DriverFails, Usable
  <2>5. CASE RecreateContext(w)
    BY <2>5 DEF RecreateContext, DriverFails
  <2>6. CASE RecreateBrowser(w)
    BY <2>6 DEF RecreateBrowser, NewBrowser, WithoutPage
  <2>7. CASE SecondPage(w)
    BY <2>7 DEF SecondPage, PrimaryPage, DriverFails, WithoutPage, Usable
  <2>8. CASE OpenExtraPage(w) \/ BrowserActions(w) \/ Release(w)
    BY <2>8 DEF OpenExtraPage, BrowserActions, Release
  <2> QED
    BY <2>1, <2>2, <2>3, <2>4, <2>5, <2>6, <2>7, <2>8 DEF AcquirePage
<1>6. ASSUME NEW t \in Slot, t = s PROVE SlotOK(t)'
  <2>1. t \notin dropped' /\ \A l : At(t, l)' <=> pc'[w] = l
    BY <1>1, <1>2, <1>6, AtHolder, AtHolderNext DEF At
  <2>2. \A v \in Worker : held'[v] = t => v = w
    BY <1>1, <1>2, <1>6, AtHolder
  <2> QED
    BY <1>1, <1>5, <1>6, <2>1, <2>2 DEF HeldSlotOK, SlotOK, RuntimeOK, Debt, Owed
<1> QED
  BY <1>3, <1>6

LEMMA SlotStep ==
    ASSUME TypeOK, HeldOK, SlotsConserved, PhaseOK, \A t \in Slot : SlotOK(t),
           [Next]_vars, NEW t \in Slot
    PROVE  SlotOK(t)'
<1> USE DEF slotVars, workerVars, historyVars
<1>1. SlotOK(t)
  OBVIOUS
<1>2. ASSUME UNCHANGED <<browser, context, faults, noPage, contexts, dropped, pc, held>>
      PROVE  SlotOK(t)'
  BY <1>1, <1>2, Untouched
<1>3. ASSUME NEW w \in Worker,
             FetchCall(w) \/ GetSlotDone(w) \/ (\E s \in Slot : GetSlot(w, s))
      PROVE  SlotOK(t)'
  <2>1. /\ UNCHANGED <<browser, context, faults, noPage, contexts, dropped>>
        /\ \A v \in Worker \ {w} : held'[v] = held[v] /\ pc'[v] = pc[v]
        /\ held[w] = NoSlot
        /\ held'[w] = NoSlot \/ pc'[w] = "ready"
    BY <1>3 DEF TypeOK, HeldOK, FetchCall, GetSlotDone, GetSlot, Goto
  <2> QED
    BY <1>1, <2>1, Untouched, SlotAssumption
<1>4. ASSUME NEW w \in Worker,
             AcquirePage(w) \/ OpenExtraPage(w) \/ BrowserActions(w) \/ Release(w)
      PROVE  SlotOK(t)'
  BY <1>4, HolderStep
<1>5. ASSUME NEW w \in Worker, PutBack(w) PROVE SlotOK(t)'
  <2>1. /\ UNCHANGED <<browser, context, faults, noPage, contexts, dropped>>
        /\ \A v \in Worker \ {w} : held'[v] = held[v] /\ pc'[v] = pc[v]
        /\ pc[w] = "put" /\ held'[w] = NoSlot
    BY <1>5 DEF TypeOK, PutBack, Return, Goto
  <2> QED
    BY <1>1, <2>1, Untouched, SlotAssumption
<1>6. ASSUME NEW w \in Worker, PutClose(w) PROVE SlotOK(t)'
  <2>1. /\ UNCHANGED <<faults, noPage, contexts>>
        /\ dropped' = dropped \cup {held[w]}
        /\ \A v \in Worker \ {w} : held'[v] = held[v] /\ pc'[v] = pc[v]
        /\ pc[w] = "put" /\ held'[w] = NoSlot /\ held[w] \in Slot
    BY <1>6, HoldersOfSlots DEF TypeOK, PutClose, CloseBrowser, Return, Goto
  <2>2. CASE t # held[w]
    <3>1. browser'[t] = browser[t] /\ context'[t] = context[t]
      BY <1>6, <2>1, <2>2 DEF TypeOK, PutClose, CloseBrowser
    <3> QED
      BY <1>1, <2>1, <2>2, <3>1, Untouched, SlotAssumption
  <2>3. CASE t = held[w]
    <3>1. t \in dropped' /\ browser'[t] # "up"
      BY <1>6, <2>1, <2>3 DEF TypeOK, PutClose, CloseBrowser
    <3>2. \A v \in Worker : held'[v] # t
      BY <2>1, <2>3, AtHolder, SlotAssumption
    <3> QED
      BY <1>1, <2>1, <3>1, <3>2 DEF TypeOK, SlotOK, RuntimeOK, Debt, Owed
  <2> QED
    BY <2>2, <2>3
<1>7. ASSUME NEW s \in Slot, DrainSlot(s) PROVE SlotOK(t)'
  <2>1. /\ UNCHANGED <<faults, noPage, contexts, pc, held>>
        /\ dropped' = dropped \cup {s} /\ s \in pool
    BY <1>7 DEF DrainSlot, CloseBrowser
  <2>2. CASE t # s
    <3>1. browser'[t] = browser[t] /\ context'[t] = context[t]
      BY <1>7, <2>2 DEF TypeOK, DrainSlot, CloseBrowser
    <3> QED
      BY <1>1, <2>1, <2>2, <3>1, Untouched
  <2>3. CASE t = s
    <3>1. t \in dropped' /\ browser'[t] # "up"
      BY <1>7, <2>1, <2>3 DEF TypeOK, DrainSlot, CloseBrowser
    <3>2. \A v \in Worker : held'[v] # t
      BY <2>1, <2>3, SlotAssumption DEF SlotsConserved
    <3> QED
      BY <1>1, <2>1, <3>1, <3>2 DEF TypeOK, SlotOK, RuntimeOK, Debt, Owed
  <2> QED
    BY <2>2, <2>3
<1>8. ASSUME NEW s \in Slot, BrowserCrash(s) PROVE SlotOK(t)'
  <2>1. UNCHANGED <<noPage, contexts, dropped, pc, held>>
    BY <1>8 DEF BrowserCrash
  <2>2. CASE t # s
    <3>1. /\ browser'[t] = browser[t] /\ context'[t] = context[t]
          /\ faults'[t] = faults[t]
      BY <1>8, <2>2 DEF TypeOK, BrowserCrash, Fault
    <3> QED
      BY <1>1, <2>1, <3>1, Untouched
  <2>3. CASE t = s
    <3>1. browser[t] = "up" /\ browser'[t] = "dead" /\ faults'[t] = faults[t] + 1
      BY <1>8, <2>3 DEF TypeOK, BrowserCrash, Fault
    <3>2. /\ faults[t] \in Nat /\ noPage[t] \in Nat /\ contexts[t] \in Nat
          /\ noPage[t] <= 2 * faults[t] /\ contexts[t] <= 1 + faults[t]
      BY <1>1, BoundAssumption DEF TypeOK, SlotOK, Debt, Owed
    <3>3. Debt(t)' \in 0..2 /\ Owed(t)' \in 0..1
      BY DEF Debt, Owed
    <3> QED
      BY <2>1, <3>1, <3>2, <3>3 DEF SlotOK, RuntimeOK
  <2> QED
    BY <2>2, <2>3
<1>9. ASSUME \/ Close \/ Closed \/ Cancel \/ UNCHANGED vars
             \/ \E s \in Slot : PageCloses(s)
      PROVE  SlotOK(t)'
  BY <1>9, <1>2 DEF Close, Closed, Cancel, vars, PageCloses
<1> QED
  BY <1>3, <1>4, <1>5, <1>6, <1>7, <1>8, <1>9 DEF Next

\* newBrowser counts a context and gives it its options; recreateContext, which
\* does not, is reached with a browser and hence with a context before it.
LEMMA FirstContextStep ==
    ASSUME TypeOK, HeldOK, [Next]_vars,
           \A s \in Slot : SlotOK(s) /\ FirstContext(s), NEW t \in Slot
    PROVE  FirstContext(t)'
<1> USE SlotAssumption DEF TypeOK, FirstContext, slotVars, workerVars, historyVars
<1>1. FirstContext(t)
  OBVIOUS
<1>2. ASSUME contexts'[t] = contexts[t], options'[t] = options[t],
             browser[t] = "none" => browser'[t] = "none"
      PROVE  FirstContext(t)'
  BY <1>1, <1>2
<1>3. ASSUME NEW s \in Slot, NewBrowser(s) PROVE FirstContext(t)'
  <2>1. /\ contexts' = [contexts EXCEPT ![s] = @ + 1]
        /\ options' = [options EXCEPT ![s] = TRUE]
        /\ browser' = [browser EXCEPT ![s] = "up"]
    BY <1>3 DEF NewBrowser
  <2>2. CASE s = t
    <3>1. contexts'[t] # 0 /\ options'[t] = TRUE
      BY <2>1, <2>2
    <3> QED
      BY <3>1
  <2> QED
    BY <1>1, <2>1, <2>2
<1>4. ASSUME NEW w \in Worker, RecreateContext(w) PROVE FirstContext(t)'
  <2>1. held[w] \in Slot
    BY <1>4, HoldersOfSlots DEF RecreateContext
  <2>2. CASE t = held[w] /\ contexts' = [contexts EXCEPT ![held[w]] = @ + 1]
    <3>1. browser[t] # "none"
      BY <1>4, <2>2 DEF SlotOK, RuntimeOK, RecreateContext
    <3>2. contexts[t] \in Nat /\ contexts[t] # 0 /\ contexts'[t] = contexts[t] + 1
      BY <1>1, <2>2, <3>1
    <3>3. contexts'[t] # 0 /\ contexts'[t] # 1
      BY <3>2
    <3> QED
      BY <3>3
  <2>3. CASE ~(t = held[w] /\ contexts' = [contexts EXCEPT ![held[w]] = @ + 1])
    BY <1>2, <1>4, <2>1, <2>3 DEF RecreateContext
  <2> QED
    BY <2>2, <2>3
<1>5. ASSUME NEW w \in Worker, EnsureReady(w) PROVE FirstContext(t)'
  <2>1. held[w] \in Slot
    BY <1>5, HoldersOfSlots DEF EnsureReady
  <2> QED
    BY <1>2, <1>3, <1>5, <2>1 DEF EnsureReady
<1>6. ASSUME NEW w \in Worker, RecreateBrowser(w) PROVE FirstContext(t)'
  <2>1. held[w] \in Slot /\ browser[held[w]] # "none"
    BY <1>6, HoldersOfSlots DEF RecreateBrowser, SlotOK, RuntimeOK
  <2> QED
    BY <1>2, <1>3, <1>6, <2>1 DEF RecreateBrowser
<1>7. ASSUME NEW s \in Slot, CloseBrowser(s), UNCHANGED contexts PROVE FirstContext(t)'
  BY <1>2, <1>7 DEF CloseBrowser
<1>8. ASSUME NEW w \in Worker, PutClose(w) PROVE FirstContext(t)'
  <2>1. held[w] \in Slot
    BY <1>8, HoldersOfSlots DEF PutClose
  <2> QED
    BY <1>7, <1>8, <2>1 DEF PutClose
<1>9. ASSUME NEW s \in Slot, DrainSlot(s) PROVE FirstContext(t)'
  BY <1>7, <1>9 DEF DrainSlot
<1>10. ASSUME NEW s \in Slot, BrowserCrash(s) PROVE FirstContext(t)'
  BY <1>2, <1>10 DEF BrowserCrash
<1>11. ASSUME NEW w \in Worker,
              \/ FetchCall(w) \/ GetSlotDone(w) \/ FirstPage(w) \/ CheckPage(w)
              \/ RecreatePage(w) \/ SecondPage(w) \/ OpenExtraPage(w)
              \/ BrowserActions(w) \/ Release(w) \/ PutBack(w)
              \/ \E s \in Slot : GetSlot(w, s)
       PROVE  FirstContext(t)'
  <2>1. UNCHANGED <<contexts, options, browser>>
    BY <1>11 DEF FetchCall, GetSlotDone, FirstPage, PrimaryPage, CheckPage,
       RecreatePage, SecondPage, WithoutPage, OpenExtraPage, BrowserActions,
       Release, PutBack, GetSlot
  <2> QED
    BY <1>2, <2>1
<1>12. ASSUME \/ Close \/ Closed \/ Cancel \/ UNCHANGED vars
              \/ \E s \in Slot : PageCloses(s)
       PROVE  FirstContext(t)'
  BY <1>2, <1>12 DEF Close, Closed, Cancel, vars, PageCloses
<1> QED
  BY <1>4, <1>5, <1>6, <1>8, <1>9, <1>10, <1>11, <1>12 DEF Next, AcquirePage

-----------------------------------------------------------------------------
LEMMA IInvInit == Init => IInv
<1> SUFFICES ASSUME Init PROVE IInv
  OBVIOUS
<1>1. TypeOK
  BY TypeInit
<1>2. HeldOK /\ PhaseOK /\ SlotsConserved
  BY DEF Init, HeldOK, PhaseOK, SlotsConserved
<1>3. ASSUME NEW s \in Slot PROVE SlotOK(s) /\ FirstContext(s)
  BY <1>3, SlotAssumption DEF Init, SlotOK, RuntimeOK, Debt, Owed, At, FirstContext
<1> QED
  BY <1>1, <1>2, <1>3 DEF IInv

\* IInv is an inductive invariant of the specification.
THEOREM Invariance == Spec => []IInv
<1>1. IInv /\ [Next]_vars => IInv'
  BY TypeStep, HeldStep, ConservedStep, PhaseStep, SlotStep, FirstContextStep DEF IInv
<1> QED
  BY IInvInit, <1>1, PTL DEF Spec

\* Type correctness, for every number of slots, workers and faults.
THEOREM TypeCorrect == Spec => []TypeOK
<1>1. IInv => TypeOK
  BY DEF IInv
<1> QED
  BY Invariance, <1>1, PTL

\* getSlot and putSlot neither lose a slot nor give it to two workers, whatever
\* becomes of its browser and wherever a fetch ends.
THEOREM SlotsConservedAlways == Spec => []SlotsConserved
<1>1. IInv => SlotsConserved
  BY DEF IInv
<1> QED
  BY Invariance, <1>1, PTL

\* After jsFetch.Close every slot's browser has been closed, by Close or by the
\* putSlot that found the context done.
THEOREM NothingLeftRunningAlways == Spec => []NothingLeftRunning
<1>1. IInv => NothingLeftRunning
  <2> SUFFICES ASSUME IInv, phase = "closed", NEW s \in Slot
               PROVE  browser[s] \in {"none", "closed"}
    BY DEF NothingLeftRunning
  <2>1. pool = {} /\ \A w \in Worker : held[w] = NoSlot
    BY DEF IInv, PhaseOK, HeldOK
  <2>2. s \in dropped
    BY <2>1, SlotAssumption DEF IInv, SlotsConserved
  <2> QED
    BY <2>2 DEF IInv, PhaseOK
<1> QED
  BY Invariance, <1>1, PTL

\* The recovery of session_slot.go costs at most two fetches per fault, in every
\* order of faults, crashes and fetches.
THEOREM RecoveryCostBoundedAlways == Spec => []RecoveryCostBounded
<1>1. IInv => RecoveryCostBounded
  <2> SUFFICES ASSUME IInv, NEW s \in Slot PROVE noPage[s] <= 2 * faults[s]
    BY DEF RecoveryCostBounded
  <2>1. noPage[s] + Debt(s) <= 2 * faults[s] /\ Debt(s) \in {0, 1, 2}
    BY DEF IInv, SlotOK, Debt
  <2>2. noPage[s] \in Nat /\ faults[s] \in Nat
    BY BoundAssumption DEF IInv, TypeOK
  <2> QED
    BY <2>1, <2>2
<1> QED
  BY Invariance, <1>1, PTL

\* A slot's session is replaced at most once per fault.
THEOREM SessionPreservedAlways == Spec => []SessionPreserved
<1>1. IInv => SessionPreserved
  <2> SUFFICES ASSUME IInv, NEW s \in Slot PROVE contexts[s] <= 1 + faults[s]
    BY DEF SessionPreserved
  <2>1. contexts[s] + Owed(s) <= 1 + faults[s] /\ Owed(s) \in {0, 1}
    BY DEF IInv, SlotOK, Owed
  <2>2. contexts[s] \in Nat /\ faults[s] \in Nat
    BY BoundAssumption DEF IInv, TypeOK
  <2> QED
    BY <2>1, <2>2
<1> QED
  BY Invariance, <1>1, PTL

\* Until a slot's browser or driver first fails, its jobs run with the options of
\* newBrowser: only recreateContext loses them, and a slot has a second context
\* only after a fault.
THEOREM OptionsUntilFaultAlways == Spec => []OptionsUntilFault
<1>1. IInv => OptionsUntilFault
  <2> SUFFICES ASSUME IInv, NEW w \in Worker, pc[w] = "action", faults[held[w]] = 0
               PROVE  options[held[w]]
    BY DEF OptionsUntilFault
  <2> DEFINE s == held[w]
  <2>1. s \in Slot /\ contexts[s] \in Nat
    BY HoldersOfSlots DEF IInv, TypeOK
  <2>2. browser[s] # "none"
    BY <2>1 DEF IInv, SlotOK, RuntimeOK
  <2>3. contexts[s] <= 1
    <3>1. contexts[s] + Owed(s) <= 1 /\ Owed(s) \in {0, 1}
      BY <2>1 DEF IInv, SlotOK, Owed
    <3> QED
      BY <2>1, <3>1
  <2> QED
    BY <2>1, <2>2, <2>3 DEF IInv, FirstContext
<1> QED
  BY Invariance, <1>1, PTL

-----------------------------------------------------------------------------
\* The operator that LeasePool extends FiniteSets for is the one used here.
LEMMA SameCardinality ==
    ASSUME NEW S PROVE Lease!Cardinality(S) = Cardinality(S)
  BY DEF Cardinality, Lease!Cardinality, IsFiniteSet, Lease!IsFiniteSet

\* A step is a step of the lease pool, or leaves the leases alone.
LEMMA LeaseStep ==
    ASSUME IInv, [Next]_vars
    PROVE  [Lease!Next]_held
<1> USE SlotAssumption DEF IInv, TypeOK, workerVars
<1>1. ASSUME NEW w \in Worker, NEW s \in Slot, GetSlot(w, s)
      PROVE  Lease!Acquire(w, s)
  <2>1. held[w] = NoSlot
    BY <1>1 DEF HeldOK, GetSlot
  <2>2. Lease!Users(s) = {}
    BY <1>1 DEF Lease!Users, SlotsConserved, GetSlot
  <2>3. Lease!Cardinality(Lease!Users(s)) < 1
    BY <2>2, FS_EmptySet, SameCardinality
  <2> QED
    BY <1>1, <2>1, <2>3 DEF Lease!Acquire, GetSlot
<1>2. ASSUME NEW w \in Worker, PutBack(w) \/ PutClose(w)
      PROVE  Lease!Release(w)
  BY <1>2, HoldersOfSlots DEF Lease!Release, PutBack, PutClose, Return
<1>3. ASSUME NEW w \in Worker,
             \/ FetchCall(w) \/ GetSlotDone(w) \/ AcquirePage(w)
             \/ OpenExtraPage(w) \/ BrowserActions(w) \/ Release(w)
      PROVE  UNCHANGED held
  BY <1>3 DEF FetchCall, GetSlotDone, AcquirePage, EnsureReady, FirstPage,
     CheckPage, RecreatePage, RecreateContext, RecreateBrowser, SecondPage,
     OpenExtraPage, BrowserActions, Release
<1>4. ASSUME \/ Close \/ Closed \/ Cancel \/ UNCHANGED vars
             \/ \E s \in Slot : DrainSlot(s) \/ BrowserCrash(s) \/ PageCloses(s)
      PROVE  UNCHANGED held
  BY <1>4 DEF Close, Closed, Cancel, vars, DrainSlot, BrowserCrash, PageCloses
<1> QED
  BY <1>1, <1>2, <1>3, <1>4 DEF Next, Lease!Next

\* Session mode implements the lease pool of capacity one.
THEOREM ImplementsLeasePool == Spec => LeasesSlotsToOne
<1>1. Init => Lease!Init
  BY DEF Init, Lease!Init
<1>2. IInv /\ [Next]_vars => [Lease!Next]_held
  BY LeaseStep
<1> QED
  BY Invariance, <1>1, <1>2, PTL DEF Spec, LeasesSlotsToOne, Lease!Spec
=============================================================================
