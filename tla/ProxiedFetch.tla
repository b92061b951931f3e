----------------------------- MODULE ProxiedFetch -----------------------------
(***************************************************************************)
(* How a configured list of proxies reaches the requests: getFetcher of    *)
(* scrapemateapp.go and New of jshttp.go.                                  *)
(*                                                                         *)
(* The plain fetcher uses the rotator as its transport (ProxyRotator).     *)
(* The Playwright fetcher takes only the list from it, starts a local      *)
(* proxy for each element and points its browsers to those (AuthProxy),    *)
(* which the upstream's credentials are needed for.                        *)
(***************************************************************************)
EXTENDS Integers, Sequences

CONSTANTS
    Request, Configured, Modulus, MaxUses, NoProxy, \* see ProxyRotator
    Browser, Conn,                                  \* see AuthProxy
    Modes       \* values of cfg.UseJS that are considered

ASSUME ModesAssumption == Modes \subseteq {"http", "js"}

VARIABLES
    current, cache, pc, next, transport, uses, wraps,
    pool, server, turn, assigned, via, handler, client, upstream, up, down,
    gone, ended,
    mode        \* which fetcher getFetcher has made

Rotator == INSTANCE ProxyRotator

\* FullURL puts the credentials into the URL and parseProxy takes them out; the
\* URL has none unless both parts were given.
Usable == {p \in Rotator!Index : Rotator!Credentials(p) # <<>>}

\* The scheme decides on the type of the upstream.
SOCKS == {p \in Rotator!Index :
            Rotator!Proxies[p].url[1] \in {"socks5", "socks5h"}}

Local == INSTANCE AuthProxy WITH Proxy <- Rotator!Index

ASSUME RotatorAssumption ==
    Rotator!ProxiesAssumption /\ Rotator!CounterAssumption
ASSUME LocalAssumption == Local!PoolAssumption

rotatorVars == <<current, cache, pc, next, transport, uses, wraps>>
localVars == <<pool, server, turn, assigned, via, handler, client, upstream,
               up, down, gone, ended>>
vars == <<rotatorVars, localVars, mode>>

TypeOK ==
    /\ Rotator!RotatorTypeOK
    /\ Local!ProxyTypeOK
    /\ mode \in Modes

Init ==
    /\ Rotator!RotatorInit
    /\ Local!ProxyInit
    /\ mode \in Modes

FetchHTTP ==
    /\ mode = "http"
    /\ Rotator!RotatorNext
    /\ UNCHANGED <<localVars, mode>>

FetchJS ==
    /\ mode = "js"
    /\ Local!ProxyNext
    /\ UNCHANGED <<rotatorVars, mode>>

Next == FetchHTTP \/ FetchJS

Spec == Init /\ [][Next]_vars

FairSpec == Spec /\ Local!ProxyFairness

-----------------------------------------------------------------------------
(***************************************************************************)
(* Properties.                                                             *)
(***************************************************************************)
\* docs/proxies.md:6: proxies "will be used in a round robin way", by requests
\* in one mode and by browsers in the other.
RoundRobin == Rotator!EvenUse /\ Local!EvenSpread

\* docs/proxies.md:4: "each request will be fetched via the proxy" whose turn it
\* is, with the credentials configured for it.
SentThroughChosenProxy == Rotator!SentThroughChosenProxy

NoConnectionLeaked == Local!NoConnectionLeaked

HandlersReturn == Local!HandlersReturn
=============================================================================
