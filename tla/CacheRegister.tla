---------------------------- MODULE CacheRegister ----------------------------
(***************************************************************************)
(* What a cache promises for one key: the abstract specification of        *)
(* Cacher (services.go) as the engine relies on it.  A Get finds one of    *)
(* the responses that a Set has stored, or misses.  It may miss, or find   *)
(* either response, while a Set runs; after a Set that nothing disturbed   *)
(* it finds that Set's response until the next Set begins.  The storage    *)
(* may refuse any Get with an error of its own: the cache promises nothing *)
(* about that error, but it may not call a damaged entry one.              *)
(***************************************************************************)
EXTENDS FiniteSets

CONSTANTS
    Call,       \* goroutines that use the cache
    Value,      \* responses
    Miss,       \* Get's error when there is no entry, or no whole one
    Failed      \* Get's error when the storage does not answer

VARIABLES
    setting,    \* the calls that are in Set
    getting,    \* the calls that are in Get
    clash,      \* calls in Set that have overlapped with another one
    stable,     \* what a Get that begins now may return
    may,        \* what each running Get may return
    result      \* what each call's last Get has returned

vars == <<setting, getting, clash, stable, may, result>>
history == <<clash, stable, may>>

Init ==
    /\ setting = {} /\ getting = {} /\ clash = {}
    /\ stable = {Miss}
    /\ may = [c \in Call |-> {}]
    /\ result = [c \in Call |-> Miss]

\* What is known when a Set of v begins: nothing that was stored before is
\* found any more, unless another Set is storing it just now.
SetBegins(c, v) ==
    /\ stable' = {v, Miss} \cup (IF setting = {} THEN {} ELSE stable)
    /\ may' = [g \in Call |-> IF g \in getting THEN may[g] \cup {v, Miss}
                              ELSE may[g]]
    /\ clash' = IF setting = {} THEN {} ELSE setting \cup {c}

\* A Set that was alone leaves its response and nothing else.
SetEnds(c, v) ==
    /\ stable' = IF c \in clash THEN stable ELSE {v}
    /\ clash' = clash \ {c}
    /\ UNCHANGED may

SetFails(c) ==
    /\ clash' = clash \ {c}
    /\ UNCHANGED <<stable, may>>

GetBegins(c) ==
    /\ may' = [may EXCEPT ![c] = stable]
    /\ UNCHANGED <<clash, stable>>

GetEnds(c) ==
    /\ may' = [may EXCEPT ![c] = {}]
    /\ UNCHANGED <<clash, stable>>

AllStop ==
    /\ clash' = {}
    /\ may' = [c \in Call |-> {}]
    /\ UNCHANGED stable

(***************************************************************************)
(* The calls.                                                              *)
(***************************************************************************)
Idle(c) == c \notin setting \cup getting

BeginSet(c) ==
    /\ Idle(c)
    /\ \E v \in Value : SetBegins(c, v)
    /\ setting' = setting \cup {c}
    /\ UNCHANGED <<getting, result>>

EndSet(c) ==
    /\ c \in setting
    /\ SetFails(c) \/ \E v \in stable \ {Miss} : SetEnds(c, v)
    /\ setting' = setting \ {c}
    /\ UNCHANGED <<getting, result>>

BeginGet(c) ==
    /\ Idle(c)
    /\ GetBegins(c)
    /\ getting' = getting \cup {c}
    /\ UNCHANGED <<setting, result>>

EndGet(c) ==
    /\ c \in getting
    /\ \E r \in may[c] \cup {Failed} : result' = [result EXCEPT ![c] = r]
    /\ GetEnds(c)
    /\ getting' = getting \ {c}
    /\ UNCHANGED setting

\* A Get that ends as soon as it has begun.
GetAtOnce(c) ==
    /\ Idle(c)
    /\ \E r \in stable \cup {Failed} : result' = [result EXCEPT ![c] = r]
    /\ UNCHANGED <<setting, getting, history>>

\* The process ends, and another one starts with the same cache.
Restart ==
    /\ AllStop
    /\ setting' = {} /\ getting' = {}
    /\ result' = [c \in Call |-> Miss]

Next ==
    \/ \E c \in Call :
         BeginSet(c) \/ EndSet(c) \/ BeginGet(c) \/ EndGet(c) \/ GetAtOnce(c)
    \/ Restart

Spec == Init /\ [][Next]_vars
=============================================================================
