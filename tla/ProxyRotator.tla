----------------------------- MODULE ProxyRotator -----------------------------
(***************************************************************************)
(* The rotator of the plain HTTP fetchers: adapters/proxy/proxy.go on the  *)
(* proxies of proxy.go.                                                    *)
(*                                                                         *)
(* RoundTrip is called by all workers at once.  It takes the next proxy    *)
(* with an atomic 32-bit counter, looks up the transport for the proxy's   *)
(* URL in a sync.Map, makes and stores one if there is none, and sends the *)
(* request through it.  A transport is modelled by what it was made for:   *)
(* the address and the credentials of an upstream proxy.                   *)
(***************************************************************************)
EXTENDS Integers, Sequences

CONSTANTS
    Request,    \* concurrent calls of RoundTrip
    Configured, \* the configured proxies: [scheme, host, user, password]
    Modulus,    \* the counter is a uint32: 2^32
    MaxUses,    \* bound on the number of requests
    NoProxy     \* no transport, no proxy

\* New panics for an empty list and for a scheme that is not supported.
Supported == {"socks5", "http", "https", "socks5h"}

ProxiesAssumption ==
    /\ Configured \in Seq([scheme : Supported \cup {""}, host : STRING,
                           user : STRING, password : STRING])
    /\ Configured # <<>>
    /\ NoProxy \notin DOMAIN Configured
CounterAssumption ==
    /\ Modulus \in Nat \ {0}
    /\ MaxUses \in Nat

VARIABLES
    current,    \* Rotator.current
    cache,      \* Rotator.cache: for each URL the proxy its transport was made for
    pc,         \* where each request is in RoundTrip
    next,       \* the proxy that Next gave to the request
    transport,  \* the request's local variable transport
    uses,       \* requests that each proxy was chosen for (history)
    wraps       \* how often the counter has wrapped around (history)

rotatorVars == <<current, cache, pc, next, transport, uses, wraps>>

\* NewProxy: a proxy that is given without a scheme is a SOCKS5 proxy.  The URL
\* that is kept has no credentials.
NewProxy(c) ==
    [url |-> <<IF c.scheme = "" THEN "socks5" ELSE c.scheme, c.host>>,
     user |-> c.user, password |-> c.password]

Proxies == [p \in DOMAIN Configured |-> NewProxy(Configured[p])]

Index == DOMAIN Proxies
Count == Len(Configured)
URLs == {Proxies[p].url : p \in Index}

RotatorTypeOK ==
    /\ current \in 0..(Modulus - 1)
    /\ cache \in [URLs -> Index \cup {NoProxy}]
    /\ pc \in [Request -> {"idle", "load", "store", "send"}]
    /\ next \in [Request -> Index \cup {NoProxy}]
    /\ transport \in [Request -> Index \cup {NoProxy}]
    /\ uses \in [Index -> Nat]
    /\ wraps \in Nat

\* New.
RotatorInit ==
    /\ current = 0
    /\ cache = [u \in URLs |-> NoProxy]
    /\ pc = [r \in Request |-> "idle"]
    /\ next = [r \in Request |-> NoProxy]
    /\ transport = [r \in Request |-> NoProxy]
    /\ uses = [p \in Index |-> 0]
    /\ wraps = 0

\* Credentials are used only if both parts are given.
Credentials(p) ==
    IF Proxies[p].user # "" /\ Proxies[p].password # ""
    THEN <<Proxies[p].user, Proxies[p].password>> ELSE <<>>

\* Where a transport made for p sends a request (FullURL).
Route(p) == <<Proxies[p].url, Credentials(p)>>

\* Mutant of Taken: the counter is reduced to half its range first.
Taken_ShortCounter == ((current % (Modulus \div 2)) % Count) + 1

\* The proxy that the counter points to.
Taken == (current % Count) + 1

\* atomic.AddUint32 returns the new value, so each request has one of its own.
Next(r) ==
    /\ pc[r] = "idle"
    /\ wraps * Modulus + current < MaxUses
    /\ next' = [next EXCEPT ![r] = Taken]
    /\ uses' = [uses EXCEPT ![Taken] = @ + 1]
    /\ current' = (current + 1) % Modulus
    /\ wraps' = IF current + 1 = Modulus THEN wraps + 1 ELSE wraps
    /\ pc' = [pc EXCEPT ![r] = "load"]
    /\ UNCHANGED <<cache, transport>>

\* Mutant of Load: the proxy is read from the counter again.
Load_RereadsCounter(r) ==
    /\ pc[r] = "load"
    /\ LET u == Proxies[Taken].url IN
         /\ transport' = [transport EXCEPT ![r] = cache[u]]
         /\ pc' = [pc EXCEPT ![r] = IF cache[u] = NoProxy THEN "store" ELSE "send"]
    /\ UNCHANGED <<current, cache, next, uses, wraps>>

Load(r) ==
    /\ pc[r] = "load"
    /\ LET u == Proxies[next[r]].url IN
         /\ transport' = [transport EXCEPT ![r] = cache[u]]
         /\ pc' = [pc EXCEPT ![r] = IF cache[u] = NoProxy THEN "store" ELSE "send"]
    /\ UNCHANGED <<current, cache, next, uses, wraps>>

\* Two requests that miss at the same time both make a transport.
Store(r) ==
    /\ pc[r] = "store"
    /\ transport' = [transport EXCEPT ![r] = next[r]]
    /\ cache' = [cache EXCEPT ![Proxies[next[r]].url] = next[r]]
    /\ pc' = [pc EXCEPT ![r] = "send"]
    /\ UNCHANGED <<current, next, uses, wraps>>

\* The request goes out through the transport and RoundTrip returns.
Sent(r) ==
    /\ pc[r] = "send"
    /\ pc' = [pc EXCEPT ![r] = "idle"]
    /\ next' = [next EXCEPT ![r] = NoProxy]
    /\ transport' = [transport EXCEPT ![r] = NoProxy]
    /\ UNCHANGED <<current, cache, uses, wraps>>

RoundTrip(r) == Next(r) \/ Load(r) \/ Store(r) \/ Sent(r)

RotatorNext == \E r \in Request : RoundTrip(r)

RotatorSpec == RotatorInit /\ [][RotatorNext]_rotatorVars

-----------------------------------------------------------------------------
(***************************************************************************)
(* Properties.                                                             *)
(***************************************************************************)
\* docs/proxies.md:6, "used in a round robin way": however the requests
\* interleave, no proxy is chosen more often than another by more than one per
\* run of the counter through its 32 bits.
EvenUse == \A p, q \in Index : uses[p] - uses[q] <= 1 + wraps

\* A request goes to the proxy that the round robin chose for it, with that
\* proxy's credentials.
SentThroughChosenProxy ==
    \A r \in Request : pc[r] = "send" => Route(transport[r]) = Route(next[r])

\* What the transport cache needs for that: its keys tell the proxies apart.
DistinctURLs == \A p, q \in Index : Proxies[p].url = Proxies[q].url => p = q
=============================================================================
