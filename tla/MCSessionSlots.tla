---------------------------- MODULE MCSessionSlots ----------------------------
(***************************************************************************)
(* Instances of SessionSlots for TLC.                                      *)
(***************************************************************************)
EXTENDS SessionSlots, TLC

CONSTANTS s1, s2, w1, w2, w3

OneSlot == {s1}
TwoSlots == {s1, s2}
OneWorker == {w1}
ThreeWorkers == {w1, w2, w3}

\* Safety runs only.
Symmetry == Permutations(Slot) \cup Permutations(Worker)
=============================================================================
