--------------------------- MODULE MCScrapemateApp ---------------------------
(***************************************************************************)
(* Instances of ScrapemateApp for TLC.  Job a is the seed and b its child; *)
(* i is an init job.                                                       *)
(***************************************************************************)
EXTENDS ScrapemateApp, TLC

CONSTANTS a, b, i, w1, x1, x2

Tree == {a, b}
TreeAndInit == {i, a, b}
OnlyA == {a}
OnlyI == {i}
OnAndOff == {TRUE, FALSE}

OneWorker == {w1}
TwoWriters == {x1, x2}

ChildrenOf == [j \in Job |-> IF j = a THEN <<b>> ELSE <<>>]
PriorityOf == [j \in Job |-> IF j = b THEN 0 ELSE 2]
OneSeed == <<a>>

Options == {
    [Concurrency |-> 0], [Concurrency |-> 1], [Concurrency |-> 3],
    [MaxPagesPerBrowser |-> 2], [BrowserPoolSize |-> 1],
    [CacheType |-> "file", CachePath |-> "dir"],
    [CacheType |-> "leveldb", CachePath |-> ""],
    [ExitOnInactivity |-> TRUE] }

Deadline == {"deadline"}
=============================================================================
