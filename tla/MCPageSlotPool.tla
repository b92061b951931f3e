--------------------------- MODULE MCPageSlotPool ---------------------------
(***************************************************************************)
(* Instances of PageSlotPool for TLC.                                      *)
(***************************************************************************)
EXTENDS PageSlotPool, TLC

CONSTANTS s1, s2, w1, w2, w3

TwoSlots == {s1, s2}
OneSlot == {s1}
ThreeWorkers == {w1, w2, w3}
OnlyW1 == {w1}

\* Safety runs only: the workers whose jobs have no timeout are alike, and so
\* are the slots.
Symmetry == Permutations(Slot) \cup Permutations(Worker \ Timed)
=============================================================================
