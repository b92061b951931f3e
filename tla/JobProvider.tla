----------------------------- MODULE JobProvider -----------------------------
(***************************************************************************)
(* What the engine relies on when it calls a job provider (the JobProvider *)
(* interface of services.go): every job that is pushed is handed to a      *)
(* worker, once, unless the context is done first; nothing else is handed  *)
(* out.  The order of delivery is left open.                               *)
(***************************************************************************)
EXTENDS Naturals

CONSTANT Job

VARIABLES
    pushed,     \* jobs for which Push was called
    delivered,  \* how many times each job was received from a Jobs channel
    stopped     \* the context is done

vars == <<pushed, delivered, stopped>>

Init ==
    /\ pushed = {}
    /\ delivered = [j \in Job |-> 0]
    /\ stopped = FALSE

Push(j) ==
    /\ j \in Job \ pushed
    /\ pushed' = pushed \cup {j}
    /\ UNCHANGED <<delivered, stopped>>

Deliver(j) ==
    /\ j \in pushed
    /\ delivered[j] = 0
    /\ delivered' = [delivered EXCEPT ![j] = 1]
    /\ UNCHANGED <<pushed, stopped>>

Stop ==
    /\ ~stopped
    /\ stopped' = TRUE
    /\ UNCHANGED <<pushed, delivered>>

Next ==
    \/ \E j \in Job : Push(j) \/ Deliver(j)
    \/ Stop

Spec == Init /\ [][Next]_vars /\ \A j \in Job : WF_vars(~stopped /\ Deliver(j))
=============================================================================
