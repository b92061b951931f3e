------------------------------ MODULE LeasePool ------------------------------
(***************************************************************************)
(* What both modes of the Playwright fetcher promise to the jobs: a job    *)
(* works in one browser slot at a time, and no slot ever serves more jobs  *)
(* at once than its capacity (one in session mode, maxPagesPerBrowser in   *)
(* page-slot mode).  How slots are queued, closed and repaired is open.    *)
(***************************************************************************)
EXTENDS Naturals, FiniteSets

CONSTANTS Slot, Worker, NoSlot, Capacity

VARIABLE lease      \* the slot that each worker's job is using

Users(s) == {w \in Worker : lease[w] = s}

Init == lease = [w \in Worker |-> NoSlot]

Acquire(w, s) ==
    /\ lease[w] = NoSlot
    /\ Cardinality(Users(s)) < Capacity
    /\ lease' = [lease EXCEPT ![w] = s]

Release(w) ==
    /\ lease[w] # NoSlot
    /\ lease' = [lease EXCEPT ![w] = NoSlot]

Next == \E w \in Worker : Release(w) \/ \E s \in Slot : Acquire(w, s)

Spec == Init /\ [][Next]_lease
=============================================================================
