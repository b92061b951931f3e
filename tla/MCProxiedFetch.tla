---------------------------- MODULE MCProxiedFetch ----------------------------
(***************************************************************************)
(* Instances of ProxiedFetch for TLC.                                      *)
(***************************************************************************)
EXTENDS ProxiedFetch, TLC

CONSTANTS r1, r2, b1, b2, b3, b4, c1

TwoRequests == {r1, r2}
Browsers == {b1, b2, b3, b4}
OneConn == {c1}
BothModes == {"http", "js"}
HTTP == {"http"}

ThreeHosts == <<
    [scheme |-> "", host |-> "one", user |-> "u", password |-> "p"],
    [scheme |-> "http", host |-> "two", user |-> "u", password |-> "p"],
    [scheme |-> "http", host |-> "three", user |-> "v", password |-> "p"] >>

TwoSessions == <<
    [scheme |-> "http", host |-> "gate", user |-> "u", password |-> "p"],
    [scheme |-> "http", host |-> "gate", user |-> "v", password |-> "p"] >>
=============================================================================
