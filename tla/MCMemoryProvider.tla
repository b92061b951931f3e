-------------------------- MODULE MCMemoryProvider --------------------------
(***************************************************************************)
(* Instances of MemoryProvider for TLC: one job per priority, and a second *)
(* job of the lowest.                                                      *)
(***************************************************************************)
EXTENDS MemoryProvider, TLC

CONSTANTS hi, mid, low, low2, w1, w2

ThreeJobs == {hi, mid, low}
FourJobs == {hi, mid, low, low2}
TwoWorkers == {w1, w2}

PriorityOf == [j \in Job |-> IF j = hi THEN 0 ELSE IF j = mid THEN 1 ELSE 2]

\* Safety runs only.
Symmetry == Permutations(Worker) \cup Permutations(Job \cap {low, low2})
=============================================================================
