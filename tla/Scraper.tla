------------------------------- MODULE Scraper -------------------------------
(***************************************************************************)
(* What the engine promises about the jobs: the abstract specification of  *)
(* ScrapeMate.Start.  A job is pushed once, from outside or by its parent  *)
(* while that runs; it is run once, by one worker; it succeeds only when   *)
(* its children have been pushed, and gives its result in that moment, or  *)
(* fails and gives none.  When Start has returned nothing runs any more.   *)
(* How jobs wait, in which order they are run, and why the engine stops is *)
(* open, and so is which jobs fail.                                        *)
(***************************************************************************)
EXTENDS Sequences

CONSTANTS Job, Worker, Nil, Children, Seed, Emit

VARIABLES
    pushed,     \* jobs that the provider was given
    running,    \* the job that each worker runs
    finished,   \* jobs that a worker is through with
    succeeded,  \* those that did not fail
    results,    \* jobs whose result was received
    over        \* Start has returned

vars == <<pushed, running, finished, succeeded, results, over>>

ChildrenOf(j) == {Children[j][i] : i \in DOMAIN Children[j]}

Init ==
    /\ pushed = {} /\ finished = {} /\ succeeded = {} /\ results = {}
    /\ running = [w \in Worker |-> Nil]
    /\ over = FALSE

Push(j) ==
    /\ j \notin pushed
    /\ j \in Seed \/ \E w \in Worker : running[w] # Nil /\ j \in ChildrenOf(running[w])
    /\ pushed' = pushed \cup {j}
    /\ UNCHANGED <<running, finished, succeeded, results, over>>

Begin(w, j) ==
    /\ ~over
    /\ running[w] = Nil
    /\ j \in pushed \ finished
    /\ \A v \in Worker : running[v] # j
    /\ running' = [running EXCEPT ![w] = j]
    /\ UNCHANGED <<pushed, finished, succeeded, results, over>>

End(w) ==
    /\ running[w] # Nil
    /\ finished' = finished \cup {running[w]}
    /\ running' = [running EXCEPT ![w] = Nil]
    /\ UNCHANGED <<pushed, over>>

Succeed(w) ==
    /\ End(w)
    /\ ChildrenOf(running[w]) \subseteq pushed
    /\ succeeded' = succeeded \cup {running[w]}
    /\ results' = results \cup ({running[w]} \cap Emit)

Fail(w) ==
    /\ End(w)
    /\ UNCHANGED <<succeeded, results>>

Return ==
    /\ ~over
    /\ \A w \in Worker : running[w] = Nil
    /\ over' = TRUE
    /\ UNCHANGED <<pushed, running, finished, succeeded, results>>

Next ==
    \/ \E j \in Job : Push(j)
    \/ \E w \in Worker : Succeed(w) \/ Fail(w) \/ \E j \in Job : Begin(w, j)
    \/ Return

Spec == Init /\ [][Next]_vars
=============================================================================
