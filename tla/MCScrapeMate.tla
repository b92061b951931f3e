---------------------------- MODULE MCScrapeMate ----------------------------
(***************************************************************************)
(* An instance of ScrapeMate for TLC.  Job a is a seed with two children   *)
(* of different priority; the policy of one of them is StopScraping.       *)
(***************************************************************************)
EXTENDS ScrapeMate, TLC

CONSTANTS a, b, c, w1, w2

Tree == {a, b, c}
OneSeed == {a}
AandB == {a, b}
OnlyB == {b}
Off == {FALSE}

TwoWorkers == {w1, w2}

ChildrenOf == [j \in Job |-> IF j = a THEN <<b, c>> ELSE <<>>]
PriorityOf == [j \in Job |-> IF j = b THEN 0 ELSE IF j = c THEN 1 ELSE 2]

Signal == {"signal"}

Symmetry == Permutations(Worker)
=============================================================================
