------------------------------ MODULE AuthProxy ------------------------------
(***************************************************************************)
(* The local proxies between the browsers and the authenticated upstream   *)
(* proxies: adapters/fetchers/jshttp/pool.go and local_proxy.go.           *)
(*                                                                         *)
(* NewProxyPool starts one AuthProxy for each upstream; newBrowser gives   *)
(* each browser the next one in turn.  An AuthProxy is an HTTP server.  A  *)
(* plain request is sent on with a client of its own.  For CONNECT the     *)
(* handler dials the upstream, takes the client's connection away from the *)
(* server (hijack) and starts two goroutines that copy in one direction    *)
(* each.  Each goroutine closes the connection it writes to when its copy  *)
(* ends, which makes the other one's read fail.                            *)
(*                                                                         *)
(* The bytes on the connections are left out.                              *)
(***************************************************************************)
EXTENDS Integers, FiniteSets

CONSTANTS
    Proxy,      \* positions 1..n in the list of upstream proxies
    SOCKS,      \* those with the scheme socks5 or socks5h
    Usable,     \* those that have a user name and a password
    Browser,    \* calls of newBrowser
    Conn,       \* connections of browsers to the local proxies
    NoProxy     \* no proxy yet

PoolAssumption ==
    /\ IsFiniteSet(Proxy) /\ Proxy # {}
    /\ Proxy = 1..Cardinality(Proxy)
    /\ SOCKS \subseteq Proxy /\ Usable \subseteq Proxy
    /\ NoProxy \notin Proxy

VARIABLES
    pool,       \* NewProxyPool: starting, ready, failed
    server,     \* each proxy's http.Server
    turn,       \* ProxyPool.current
    assigned,   \* the local proxy of each browser
    via,        \* the local proxy of each connection
    handler,    \* the handler of the connection's request
    client,     \* the connection to the browser: in the server's hands, hijacked
    upstream,   \* the connection to the upstream proxy
    up,         \* goroutine that copies from the client to the upstream
    down,       \* goroutine that copies from the upstream to the client
    gone,       \* the browser has closed its end (or it has failed)
    ended       \* the upstream has closed its end (or it has failed)

poolVars == <<pool, turn, assigned>>
peerVars == <<gone, ended>>
connVars == <<via, handler, client, upstream, up, down>>
proxyVars == <<poolVars, server, connVars, peerVars>>

Handler == {"none", "request", "plain", "dial", "handshake", "hijack",
            "tunnel", "done"}

ProxyTypeOK ==
    /\ pool \in {"starting", "ready", "failed"}
    /\ server \in [Proxy -> {"off", "up", "shutdown", "closed"}]
    /\ turn \in Nat
    /\ assigned \in [Browser -> Proxy \cup {NoProxy}]
    /\ via \in [Conn -> Proxy \cup {NoProxy}]
    /\ handler \in [Conn -> Handler]
    /\ client \in [Conn -> {"none", "server", "hijacked", "closed"}]
    /\ upstream \in [Conn -> {"none", "open", "closed"}]
    /\ up \in [Conn -> {"off", "copy", "ended"}]
    /\ down \in [Conn -> {"off", "copy", "ended"}]
    /\ gone \in [Conn -> BOOLEAN]
    /\ ended \in [Conn -> BOOLEAN]

ProxyInit ==
    /\ pool = "starting"
    /\ server = [p \in Proxy |-> "off"]
    /\ turn = 0
    /\ assigned = [b \in Browser |-> NoProxy]
    /\ via = [c \in Conn |-> NoProxy]
    /\ handler = [c \in Conn |-> "none"]
    /\ client = [c \in Conn |-> "none"]
    /\ upstream = [c \in Conn |-> "none"]
    /\ up = [c \in Conn |-> "off"]
    /\ down = [c \in Conn |-> "off"]
    /\ gone = [c \in Conn |-> FALSE]
    /\ ended = [c \in Conn |-> FALSE]

(***************************************************************************)
(* NewProxyPool and Next.                                                  *)
(***************************************************************************)
\* The next proxy of the list to be started.
First(p) == server[p] = "off" /\ \A q \in 1..(p - 1) : server[q] # "off"

StartAuthProxy(p) ==
    /\ pool = "starting"
    /\ First(p) /\ p \in Usable
    /\ server' = [server EXCEPT ![p] = "up"]
    /\ pool' = IF p + 1 \in Proxy THEN pool ELSE "ready"
    /\ UNCHANGED <<turn, assigned, connVars, peerVars>>

\* No credentials, or no port is free.  The proxies started so far stay up.
StartFails(p) ==
    /\ pool = "starting"
    /\ First(p)
    /\ pool' = "failed"
    /\ UNCHANGED <<turn, assigned, server, connVars, peerVars>>

\* Mutant of Next: the turn is not taken modulo the length of the list.
Next_NotReduced(b) ==
    /\ pool = "ready" /\ assigned[b] = NoProxy
    /\ assigned' = [assigned EXCEPT ![b] = turn + 1]
    /\ turn' = turn + 1
    /\ UNCHANGED <<pool, server, connVars, peerVars>>

Next(b) ==
    /\ pool = "ready" /\ assigned[b] = NoProxy
    /\ assigned' = [assigned EXCEPT ![b] = (turn % Cardinality(Proxy)) + 1]
    /\ turn' = turn + 1
    /\ UNCHANGED <<pool, server, connVars, peerVars>>

(***************************************************************************)
(* One connection.                                                         *)
(***************************************************************************)
Set(f, c, v) == f' = [f EXCEPT ![c] = v]

rest == <<poolVars, server, via>>

\* The server accepts a connection of browser b and reads its request.
Accept(c, b) ==
    /\ handler[c] = "none"
    /\ assigned[b] # NoProxy /\ server[assigned[b]] = "up"
    /\ Set(via, c, assigned[b])
    /\ Set(handler, c, "request")
    /\ Set(client, c, "server")
    /\ UNCHANGED <<poolVars, server, upstream, up, down, peerVars>>

\* The browser sends another request on a connection that the server has kept.
AcceptNext(c) ==
    /\ handler[c] = "done" /\ client[c] = "server" /\ ~gone[c]
    /\ server[via[c]] = "up"
    /\ Set(handler, c, "request")
    /\ Set(upstream, c, "none")
    /\ Set(ended, c, FALSE)
    /\ UNCHANGED <<rest, client, up, down, gone>>

\* The handler returns; the connection to the browser stays with the server.
Reply(c) == Set(handler, c, "done") /\ UNCHANGED client

\* No host, or a host in a private network.
Refuse(c) ==
    /\ handler[c] = "request"
    /\ Reply(c)
    /\ UNCHANGED <<rest, upstream, up, down, peerVars>>

\* handleHTTP sends the request on, with 60 seconds for all of it.
SendOn(c) ==
    /\ handler[c] = "request"
    /\ \/ Set(handler, c, "plain") /\ Set(upstream, c, "open")
       \/ Set(handler, c, "done") /\ UNCHANGED upstream
    /\ UNCHANGED <<rest, client, up, down, peerVars>>

\* The body was copied, or the copy failed, or the time is over.
PlainEnds(c) ==
    /\ handler[c] = "plain"
    /\ Reply(c)
    /\ Set(upstream, c, "closed")
    /\ UNCHANGED <<rest, up, down, peerVars>>

\* handleConnect: the upstream is dialled within 30 seconds.
Dial(c) ==
    /\ handler[c] = "request"
    /\ Set(handler, c, "dial")
    /\ UNCHANGED <<rest, client, upstream, up, down, peerVars>>

\* The dialer for SOCKS5 does the whole handshake.
Dialed(c) ==
    /\ handler[c] = "dial"
    /\ Set(upstream, c, "open")
    /\ Set(handler, c, IF via[c] \in SOCKS THEN "hijack" ELSE "handshake")
    /\ UNCHANGED <<rest, client, up, down, peerVars>>

DialFails(c) ==
    /\ handler[c] = "dial"
    /\ Reply(c)
    /\ UNCHANGED <<rest, upstream, up, down, peerVars>>

\* The upstream answers CONNECT with 200.  There is no time limit on it.
Answered(c) ==
    /\ handler[c] = "handshake" /\ ~ended[c]
    /\ Set(handler, c, "hijack")
    /\ UNCHANGED <<rest, client, upstream, up, down, peerVars>>

\* Mutant of HandshakeFails: the connection is not closed.
HandshakeFails_LeavesOpen(c) ==
    /\ handler[c] = "handshake"
    /\ Reply(c)
    /\ UNCHANGED <<rest, upstream, up, down, peerVars>>

\* CONNECT cannot be written, its answer is not a response or not 200.
HandshakeFails(c) ==
    /\ handler[c] = "handshake"
    /\ Reply(c)
    /\ Set(upstream, c, "closed")
    /\ UNCHANGED <<rest, up, down, peerVars>>

\* A connection that server.Close has closed can still be hijacked.
Hijack(c) ==
    /\ handler[c] = "hijack"
    /\ Set(handler, c, "tunnel")
    /\ Set(client, c, IF client[c] = "closed" THEN "closed" ELSE "hijacked")
    /\ Set(up, c, "copy")
    /\ Set(down, c, "copy")
    /\ UNCHANGED <<rest, upstream, peerVars>>

HijackFails(c) ==
    /\ handler[c] = "hijack"
    /\ Reply(c)
    /\ Set(upstream, c, "closed")
    /\ UNCHANGED <<rest, up, down, peerVars>>

(***************************************************************************)
(* tunnelConnection.  A copy ends when a read fails or finds the end, or,  *)
(* as long as there is something to copy, when a write fails.              *)
(***************************************************************************)
NothingToRead(peer, conn, c) == peer[c] \/ conn[c] = "closed"

ClientEnds(c) == NothingToRead(gone, client, c)
UpstreamEnds(c) == NothingToRead(ended, upstream, c)

\* Mutant of UpEnds: the goroutine does not close the upstream.
UpEnds_NoClose(c) ==
    /\ up[c] = "copy"
    /\ ClientEnds(c) \/ UpstreamEnds(c)
    /\ Set(up, c, "ended")
    /\ UNCHANGED <<rest, handler, client, upstream, down, peerVars>>

UpEnds(c) ==
    /\ up[c] = "copy"
    /\ ClientEnds(c) \/ UpstreamEnds(c)
    /\ Set(up, c, "ended")
    /\ Set(upstream, c, "closed")
    /\ UNCHANGED <<rest, handler, client, down, peerVars>>

DownEnds(c) ==
    /\ down[c] = "copy"
    /\ ClientEnds(c) \/ UpstreamEnds(c)
    /\ Set(down, c, "ended")
    /\ Set(client, c, "closed")
    /\ UNCHANGED <<rest, handler, upstream, up, peerVars>>

\* wg.Wait
TunnelEnds(c) ==
    /\ handler[c] = "tunnel"
    /\ up[c] = "ended" /\ down[c] = "ended"
    /\ Set(handler, c, "done")
    /\ UNCHANGED <<rest, client, upstream, up, down, peerVars>>

(***************************************************************************)
(* AuthProxy.Close: Shutdown stops the listener and waits for the handlers *)
(* of connections that were not hijacked, ten seconds at most; server.Close *)
(* then closes those connections.  Tunnels stay, and so does a handler that *)
(* waits for its upstream.                                                 *)
(***************************************************************************)
Close(p) ==
    /\ server[p] = "up"
    /\ server' = [server EXCEPT ![p] = "shutdown"]
    /\ UNCHANGED <<poolVars, connVars, peerVars>>

CloseReturns(p) ==
    /\ server[p] = "shutdown"
    /\ server' = [server EXCEPT ![p] = "closed"]
    /\ client' = [c \in Conn |-> IF via[c] = p /\ client[c] = "server"
                                 THEN "closed" ELSE client[c]]
    /\ UNCHANGED <<poolVars, via, handler, upstream, up, down, peerVars>>

\* The server closes a connection that is idle for 120 seconds or whose browser
\* has gone.
CloseIdle(c) ==
    /\ handler[c] = "done" /\ client[c] = "server"
    /\ Set(client, c, "closed")
    /\ UNCHANGED <<rest, handler, upstream, up, down, peerVars>>

(***************************************************************************)
(* The peers, at any time.                                                 *)
(***************************************************************************)
BrowserCloses(c) ==
    /\ client[c] \in {"server", "hijacked"} /\ ~gone[c]
    /\ Set(gone, c, TRUE)
    /\ UNCHANGED <<rest, handler, client, upstream, up, down, ended>>

UpstreamCloses(c) ==
    /\ upstream[c] = "open" /\ ~ended[c]
    /\ Set(ended, c, TRUE)
    /\ UNCHANGED <<rest, handler, client, upstream, up, down, gone>>

\* What the handler and its goroutines do by themselves.
HandlerStep(c) ==
    \/ Refuse(c) \/ SendOn(c) \/ PlainEnds(c)
    \/ Dial(c) \/ Dialed(c) \/ DialFails(c)
    \/ (ended[c] /\ HandshakeFails(c))
    \/ Hijack(c) \/ HijackFails(c) \/ TunnelEnds(c)

\* What it does when the upstream says something.
UpstreamAnswers(c) == Answered(c) \/ HandshakeFails(c)

ProxyNext ==
    \/ \E p \in Proxy :
         StartAuthProxy(p) \/ StartFails(p) \/ Close(p) \/ CloseReturns(p)
    \/ \E b \in Browser : Next(b)
    \/ \E c \in Conn :
         \/ \E b \in Browser : Accept(c, b)
         \/ AcceptNext(c)
         \/ HandlerStep(c) \/ UpstreamAnswers(c)
         \/ UpEnds(c) \/ DownEnds(c) \/ CloseIdle(c)
         \/ BrowserCloses(c) \/ UpstreamCloses(c)

\* Goroutines run and timers fire.  Nothing makes a peer answer, send or close.
ProxyFairness ==
    \A c \in Conn :
        /\ WF_proxyVars(HandlerStep(c))
        /\ WF_proxyVars(ClientEnds(c) /\ UpEnds(c))
        /\ WF_proxyVars(UpstreamEnds(c) /\ DownEnds(c))

ProxySpec == ProxyInit /\ [][ProxyNext]_proxyVars

-----------------------------------------------------------------------------
(***************************************************************************)
(* Properties.                                                             *)
(***************************************************************************)
\* No handler returns with a connection of its own left open, on whichever path
\* it returns and whichever goroutine closed it.
NoConnectionLeaked ==
    \A c \in Conn : handler[c] = "done" =>
        upstream[c] # "open" /\ client[c] # "hijacked"

\* When either peer of a tunnel has closed, both connections are closed and the
\* handler returns.  Before the tunnel is up, a browser that has gone is only
\* noticed once the upstream has answered.
HandlersReturn ==
    \A c \in Conn :
        /\ ended[c] ~> handler[c] = "done"
        /\ <>[](gone[c] => \/ handler[c] = "done"
                           \/ handler[c] = "handshake" /\ ~ended[c])

\* The browsers are spread evenly over the local proxies.
EvenSpread ==
    \A p, q \in Proxy :
        Cardinality({b \in Browser : assigned[b] = p})
          - Cardinality({b \in Browser : assigned[b] = q}) <= 1
=============================================================================
