------------------------------- MODULE MCJobRun -------------------------------
(***************************************************************************)
(* Instances of JobRun for TLC.                                            *)
(***************************************************************************)
EXTENDS JobRun, TLC

CONSTANTS c1, c2, k1

TwoCalls == {c1, c2}
OneKey == {k1}

Policies == {"RetryJob", "DiscardJob", "RefreshIP", "StopScraping"}

Record(policy, maxRetries, maxDelay, onError) ==
    [policy |-> policy, maxRetries |-> maxRetries, maxDelay |-> maxDelay,
     onError |-> onError, key |-> k1]

\* Every policy with and without ProcessOnFetchError; retry numbers below, at and
\* above the limit of the engine; maximum delays below the first one, between two
\* doublings, and the default.
SharedJobs ==
    {Record(p, 1, 2000, e) : p \in Policies, e \in BOOLEAN}
    \cup {Record("RetryJob", -1, 2000, FALSE), Record("RefreshIP", 10, 500, FALSE),
          Record("RetryJob", 5, 50, FALSE), Record("RetryJob", 10, 500, TRUE)}
=============================================================================
