----------------------------- MODULE MCFileCache -----------------------------
(***************************************************************************)
(* An instance of FileCache for TLC: a short response and a longer one.    *)
(***************************************************************************)
EXTENDS FileCache, TLC

CONSTANTS a, b, c1, c2, c3

Calls == {c1, c2, c3}
Values == {a, b}
SizeOf == [v \in Value |-> IF v = a THEN 1 ELSE 2]

Symmetry == Permutations(Call)
=============================================================================
