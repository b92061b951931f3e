------------------------- MODULE ProxiedFetch_proofs -------------------------
(***************************************************************************)
(* Proofs about ProxiedFetch, for any list of proxies and any numbers of   *)
(* requests, browsers and connections.                                     *)
(***************************************************************************)
EXTENDS ProxiedFetch, FiniteSetTheorems, TLAPS

-----------------------------------------------------------------------------
(***************************************************************************)
(* Taking turns: t turns on n places, beginning with the first.            *)
(***************************************************************************)
\* Each place had k turns, and the first q of them one more.
Turns(f, t, n) ==
    \E k \in Nat, q \in 0..(n - 1) :
        /\ t = k * n + q
        /\ \A p \in 1..n : f[p] = IF p <= q THEN k + 1 ELSE k

LEMMA Remainder ==
    ASSUME NEW n \in Nat \ {0}, NEW k \in Nat, NEW q \in 0..(n - 1)
    PROVE  (k * n + q) % n = q
<1> DEFINE t == k * n + q
           d == t \div n
           m == t % n
<1>1. k * n \in Nat
  OBVIOUS
<1>2. t \in Nat /\ d \in Int /\ m \in 0..(n - 1)
  BY <1>1
<1>3. t = d * n + m
  BY <1>1
<1>4. (k - d) * n = m - q
  BY <1>2, <1>3
<1>5. k - d \in Int
  BY <1>2
<1>6. CASE k - d >= 1
  <2>1. (k - d) * n >= n
    BY <1>5, <1>6
  <2> QED
    BY <1>2, <1>4, <2>1
<1>7. CASE k - d <= -1
  <2>1. (k - d) * n <= -n
    BY <1>5, <1>7
  <2> QED
    BY <1>2, <1>4, <2>1
<1>8. CASE k - d = 0
  BY <1>2, <1>4, <1>8
<1> QED
  BY <1>5, <1>6, <1>7, <1>8

\* After no turn.
LEMMA NoTurn ==
    ASSUME NEW n \in Nat \ {0}, NEW f, \A p \in 1..n : f[p] = 0
    PROVE  Turns(f, 0, n)
<1>1. 0 = 0 * n + 0 /\ 0 \in 0..(n - 1)
  OBVIOUS
<1> QED
  BY <1>1 DEF Turns

\* The next turn is that of place t % n + 1.
LEMMA NextTurn ==
    ASSUME NEW n \in Nat \ {0}, NEW t \in Nat, NEW f, NEW g, Turns(f, t, n),
           \A p \in 1..n : g[p] = IF p = (t % n) + 1 THEN f[p] + 1 ELSE f[p]
    PROVE  Turns(g, t + 1, n)
<1>1. PICK k \in Nat, q \in 0..(n - 1) :
          /\ t = k * n + q
          /\ \A p \in 1..n : f[p] = IF p <= q THEN k + 1 ELSE k
  BY DEF Turns
<1>2. t % n = q
  BY <1>1, Remainder
<1>3. CASE q + 1 < n
  <2>1. t + 1 = k * n + (q + 1) /\ q + 1 \in 0..(n - 1)
    BY <1>1, <1>3
  <2>2. \A p \in 1..n : g[p] = IF p <= q + 1 THEN k + 1 ELSE k
    BY <1>1, <1>2
  <2> QED
    BY <2>1, <2>2 DEF Turns
<1>4. CASE q + 1 = n
  <2>1. t + 1 = (k + 1) * n + 0 /\ 0 \in 0..(n - 1) /\ k + 1 \in Nat
    BY <1>1, <1>4
  <2>2. \A p \in 1..n : g[p] = IF p <= 0 THEN (k + 1) + 1 ELSE k + 1
    BY <1>1, <1>2, <1>4
  <2> QED
    BY <2>1, <2>2 DEF Turns
<1> QED
  BY <1>3, <1>4

LEMMA TurnsEven ==
    ASSUME NEW n \in Nat \ {0}, NEW t, NEW f, Turns(f, t, n),
           NEW p \in 1..n, NEW r \in 1..n
    PROVE  f[p] \in Nat /\ f[p] - f[r] <= 1
  BY DEF Turns

-----------------------------------------------------------------------------
(***************************************************************************)
(* The rotator.                                                            *)
(***************************************************************************)
\* The choices of the counter's present run through its range; old counts those
\* of the earlier ones.
Since(old) == [p \in Rotator!Index |-> uses[p] - old[p]]

\* In each earlier run a proxy may have had one turn more than another.
UsesOK ==
    \E old \in [Rotator!Index -> Int] :
        /\ \A p, q \in Rotator!Index : old[p] - old[q] <= wraps
        /\ Turns(Since(old), current, Rotator!Count)

\* A transport is for the address of the proxy that it was looked up for.
TransportsOK ==
    /\ \A u \in Rotator!URLs :
         cache[u] # NoProxy => Rotator!Proxies[cache[u]].url = u
    /\ \A r \in Request :
         /\ pc[r] # "idle" => next[r] \in Rotator!Index
         /\ pc[r] = "send" =>
              /\ transport[r] \in Rotator!Index
              /\ Rotator!Proxies[transport[r]].url = Rotator!Proxies[next[r]].url

RotatorOK == Rotator!RotatorTypeOK /\ UsesOK /\ TransportsOK

LEMMA IndexFacts ==
    /\ Rotator!Count \in Nat \ {0}
    /\ Rotator!Index = 1..Rotator!Count
    /\ NoProxy \notin Rotator!Index
    /\ \A p \in Rotator!Index : Rotator!Proxies[p].url \in Rotator!URLs
<1>1. /\ Rotator!Index = DOMAIN Configured
      /\ \A p \in Rotator!Index : Rotator!Proxies[p].url \in Rotator!URLs
  BY DEF Rotator!Index, Rotator!Proxies, Rotator!URLs
<1>2. PICK S : Configured \in Seq(S)
  BY RotatorAssumption DEF Rotator!ProxiesAssumption
<1>3. Configured # <<>> /\ NoProxy \notin DOMAIN Configured
  BY RotatorAssumption DEF Rotator!ProxiesAssumption
<1>4. Len(Configured) \in Nat \ {0} /\ DOMAIN Configured = 1..Len(Configured)
  BY <1>2, <1>3
<1> QED
  BY <1>1, <1>3, <1>4 DEF Rotator!Count

LEMMA TakenInIndex ==
    ASSUME current \in Nat PROVE Rotator!Taken \in Rotator!Index
<1>1. current % Rotator!Count \in 0..(Rotator!Count - 1)
  BY IndexFacts
<1> QED
  BY <1>1, IndexFacts DEF Rotator!Taken

LEMMA RotatorInitHolds == Rotator!RotatorInit => RotatorOK
<1> SUFFICES ASSUME Rotator!RotatorInit PROVE RotatorOK
  OBVIOUS
<1> USE DEF Rotator!RotatorInit
<1>1. Rotator!RotatorTypeOK
  BY RotatorAssumption DEF Rotator!CounterAssumption, Rotator!RotatorTypeOK
<1>2. UsesOK
  <2> DEFINE none == [p \in Rotator!Index |-> 0]
  <2>1. \A p \in 1..Rotator!Count : Since(none)[p] = 0
    BY IndexFacts DEF Since
  <2>2. Turns(Since(none), 0, Rotator!Count)
    BY <2>1, NoTurn, IndexFacts
  <2>3. none \in [Rotator!Index -> Int] /\ \A p, q \in Rotator!Index : none[p] - none[q] <= wraps
    OBVIOUS
  <2> HIDE DEF none
  <2> QED
    BY <2>2, <2>3 DEF UsesOK
<1>3. TransportsOK
  BY DEF TransportsOK
<1> QED
  BY <1>1, <1>2, <1>3 DEF RotatorOK

\* The one step that moves the counter.
LEMMA UsesStep ==
    ASSUME RotatorOK, NEW r \in Request, Rotator!Next(r)
    PROVE  UsesOK'
<1> DEFINE n == Rotator!Count
<1>1. /\ current \in 0..(Modulus - 1) /\ Modulus \in Nat \ {0}
      /\ uses \in [Rotator!Index -> Nat] /\ wraps \in Nat
  BY RotatorAssumption DEF RotatorOK, Rotator!RotatorTypeOK, Rotator!CounterAssumption
<1>2. PICK old \in [Rotator!Index -> Int] :
          /\ \A p, q \in Rotator!Index : old[p] - old[q] <= wraps
          /\ Turns(Since(old), current, n)
  BY DEF RotatorOK, UsesOK
<1> DEFINE after == [p \in Rotator!Index |-> uses'[p] - old[p]]
<1>3. /\ Rotator!Taken \in Rotator!Index
      /\ uses' = [uses EXCEPT ![Rotator!Taken] = @ + 1]
      /\ current' = (current + 1) % Modulus
      /\ wraps' = IF current + 1 = Modulus THEN wraps + 1 ELSE wraps
  BY <1>1, TakenInIndex DEF Rotator!Next
<1>4. \A p \in 1..n :
        after[p] = IF p = (current % n) + 1 THEN Since(old)[p] + 1 ELSE Since(old)[p]
  <2> SUFFICES ASSUME NEW p \in Rotator!Index
               PROVE  after[p] = IF p = Rotator!Taken THEN Since(old)[p] + 1
                                 ELSE Since(old)[p]
    BY IndexFacts DEF Rotator!Taken
  <2>1. /\ after[p] = uses'[p] - old[p] /\ Since(old)[p] = uses[p] - old[p]
        /\ uses[p] \in Nat /\ old[p] \in Int
    BY <1>1, <1>2 DEF Since
  <2>2. uses'[p] = IF p = Rotator!Taken THEN uses[p] + 1 ELSE uses[p]
    BY <1>1, <1>3
  <2> QED
    BY <2>1, <2>2
<1>5. Turns(after, current + 1, n)
  <2>1. n \in Nat \ {0} /\ current \in Nat
    BY <1>1, IndexFacts
  <2>2. Turns(Since(old), current, n)
    BY <1>2
  <2> HIDE DEF after, n
  <2> QED
    BY <1>4, <2>1, <2>2, NextTurn
<1>6. uses' \in [Rotator!Index -> Nat]
  BY <1>1, <1>3
<1>7. CASE current + 1 < Modulus
  <2>1. current' = current + 1 /\ wraps' = wraps
    BY <1>1, <1>3, <1>7
  <2>2. Since(old)' = after
    BY DEF Since
  <2> QED
    BY <1>2, <1>5, <2>1, <2>2 DEF UsesOK
<1>8. CASE current + 1 = Modulus
  <2>1. current' = 0 /\ wraps' = wraps + 1
    BY <1>1, <1>3, <1>8
  <2>2. \A p, q \in Rotator!Index : uses'[p] - uses'[q] <= wraps + 1
    <3> SUFFICES ASSUME NEW p \in Rotator!Index, NEW q \in Rotator!Index
                 PROVE  uses'[p] - uses'[q] <= wraps + 1
      OBVIOUS
    <3>1. after[p] - after[q] <= 1
      <4> HIDE DEF after
      <4> QED
        BY <1>5, TurnsEven, IndexFacts
    <3>2. /\ old[p] \in Int /\ old[q] \in Int /\ old[p] - old[q] <= wraps
          /\ uses'[p] \in Nat /\ uses'[q] \in Nat
      BY <1>2, <1>6
    <3> QED
      BY <1>1, <3>1, <3>2
  <2>3. \A p \in 1..n : (Since(uses)[p])' = 0
    BY <1>6, IndexFacts DEF Since
  <2>4. Turns(Since(uses)', 0, n)
    BY <2>3, NoTurn, IndexFacts
  <2>5. uses' \in [Rotator!Index -> Int]
    BY <1>6
  <2> QED
    BY <2>1, <2>2, <2>4, <2>5 DEF UsesOK
<1> QED
  BY <1>1, <1>7, <1>8

LEMMA RotatorStep == RotatorOK /\ Rotator!RotatorNext => RotatorOK'
<1> SUFFICES ASSUME RotatorOK, NEW r \in Request, Rotator!RoundTrip(r)
             PROVE  RotatorOK'
  BY DEF Rotator!RotatorNext
<1> USE DEF RotatorOK, TransportsOK, Rotator!RotatorTypeOK
<1>0. ASSUME UNCHANGED <<current, uses, wraps>> PROVE UsesOK'
  BY <1>0 DEF UsesOK, Since
<1>1. CASE Rotator!Next(r)
  <2>1. Rotator!Taken \in Rotator!Index
    BY TakenInIndex, RotatorAssumption DEF Rotator!CounterAssumption
  <2>2. current' \in 0..(Modulus - 1) /\ wraps' \in Nat
    BY <1>1, RotatorAssumption DEF Rotator!CounterAssumption, Rotator!Next
  <2>3. UsesOK'
    BY <1>1, UsesStep
  <2>4. /\ pc' \in [Request -> {"idle", "load", "store", "send"}]
        /\ next' \in [Request -> Rotator!Index \cup {NoProxy}]
        /\ uses' \in [Rotator!Index -> Nat]
        /\ UNCHANGED <<cache, transport>>
    BY <1>1, <2>1 DEF Rotator!Next
  <2>5. TransportsOK'
    BY <1>1, <2>1, <2>4 DEF Rotator!Next
  <2> QED
    BY <2>2, <2>3, <2>4, <2>5
<1>2. CASE Rotator!Load(r)
  BY <1>0, <1>2, IndexFacts DEF Rotator!Load
<1>3. CASE Rotator!Store(r)
  BY <1>0, <1>3, IndexFacts DEF Rotator!Store
<1>4. CASE Rotator!Sent(r)
  BY <1>0, <1>4, IndexFacts DEF Rotator!Sent
<1> QED
  BY <1>1, <1>2, <1>3, <1>4 DEF Rotator!RoundTrip

-----------------------------------------------------------------------------
(***************************************************************************)
(* The local proxies.                                                      *)
(***************************************************************************)
AssignedTo(p) == {b \in Browser : assigned[b] = p}

Load == [p \in Rotator!Index |-> Cardinality(AssignedTo(p))]

SpreadOK ==
    /\ \A p \in Rotator!Index : IsFiniteSet(AssignedTo(p))
    /\ Turns(Load, turn, Rotator!Count)

\* Which connections a handler has, and which goroutines, where it is.  Each
\* goroutine of a tunnel answers for the connection that it writes to.
HandlerOwns ==
    \A c \in Conn :
        /\ handler[c] \in {"none", "request", "dial", "done"} => upstream[c] # "open"
        /\ handler[c] # "tunnel" => client[c] # "hijacked"
        /\ handler[c] \notin {"tunnel", "done"} => up[c] = "off" /\ down[c] = "off"
        /\ handler[c] = "tunnel" => up[c] # "off" /\ down[c] # "off"
        /\ handler[c] = "done" => up[c] = down[c] /\ up[c] # "copy"
        /\ up[c] = "ended" => upstream[c] = "closed"
        /\ down[c] = "ended" => client[c] = "closed"

LocalOK == Local!ProxyTypeOK /\ HandlerOwns /\ SpreadOK

LEMMA SameCardinality ==
    /\ \A S : Local!Cardinality(S) = Cardinality(S)
    /\ Local!Cardinality(Rotator!Index) = Rotator!Count
<1>1. ASSUME NEW S PROVE Local!Cardinality(S) = Cardinality(S)
  BY DEF Cardinality, Local!Cardinality, IsFiniteSet, Local!IsFiniteSet
<1>2. Cardinality(1..Rotator!Count) = Rotator!Count
  BY IndexFacts, FS_Interval
<1> QED
  BY <1>1, <1>2, IndexFacts

LEMMA LocalInitHolds == Local!ProxyInit => LocalOK
<1> SUFFICES ASSUME Local!ProxyInit PROVE LocalOK
  OBVIOUS
<1>1. Local!ProxyTypeOK /\ HandlerOwns
  <2>1. gone \in [Conn -> BOOLEAN] /\ ended \in [Conn -> BOOLEAN]
    BY Zenon DEF Local!ProxyInit
  <2> QED
    BY <2>1 DEF Local!ProxyInit, Local!ProxyTypeOK, Local!Handler, HandlerOwns
<1>2. ASSUME NEW p \in Rotator!Index
      PROVE  IsFiniteSet(AssignedTo(p)) /\ Cardinality(AssignedTo(p)) = 0
  <2>1. AssignedTo(p) = {}
    BY IndexFacts DEF Local!ProxyInit, AssignedTo
  <2> QED
    BY <2>1, FS_EmptySet
<1>3. Turns(Load, 0, Rotator!Count)
  <2>1. \A p \in 1..Rotator!Count : Load[p] = 0
    BY <1>2, IndexFacts DEF Load
  <2> QED
    BY <2>1, NoTurn, IndexFacts
<1>4. turn = 0
  BY DEF Local!ProxyInit
<1> QED
  BY <1>1, <1>2, <1>3, <1>4 DEF LocalOK, SpreadOK

\* The one step that gives a proxy to a browser.
LEMMA SpreadStep ==
    ASSUME LocalOK, NEW b \in Browser, Local!Next(b)
    PROVE  /\ SpreadOK'
           /\ turn' \in Nat /\ assigned' \in [Browser -> Rotator!Index \cup {NoProxy}]
<1> DEFINE n == Rotator!Count
           t == (turn % n) + 1
<1>1. /\ turn \in Nat /\ assigned \in [Browser -> Rotator!Index \cup {NoProxy}]
      /\ \A p \in Rotator!Index : IsFiniteSet(AssignedTo(p))
      /\ Turns(Load, turn, n)
  BY DEF LocalOK, Local!ProxyTypeOK, SpreadOK
<1>2. turn % n \in 0..(n - 1)
  BY <1>1, IndexFacts
<1>3. t \in Rotator!Index
  BY <1>2, IndexFacts
<1>4. /\ assigned[b] = NoProxy
      /\ assigned' = [assigned EXCEPT ![b] = t]
      /\ turn' = turn + 1
  BY SameCardinality DEF Local!Next
<1>5. ASSUME NEW p \in Rotator!Index
      PROVE  /\ IsFiniteSet(AssignedTo(p)')
             /\ Load'[p] = IF p = t THEN Load[p] + 1 ELSE Load[p]
  <2>1. /\ Load[p] = Cardinality(AssignedTo(p))
        /\ Load'[p] = Cardinality(AssignedTo(p)')
    BY DEF Load
  <2>2. CASE p = t
    <3>1. AssignedTo(p)' = AssignedTo(p) \cup {b}
      BY <1>1, <1>4, <2>2 DEF AssignedTo
    <3>2. b \notin AssignedTo(p)
      BY <1>4, IndexFacts DEF AssignedTo
    <3>3. /\ IsFiniteSet(AssignedTo(p) \cup {b})
          /\ Cardinality(AssignedTo(p) \cup {b}) = Cardinality(AssignedTo(p)) + 1
      BY <1>1, <3>2, FS_AddElement
    <3> QED
      BY <2>1, <2>2, <3>1, <3>3
  <2>3. CASE p # t
    <3>1. AssignedTo(p)' = AssignedTo(p)
      BY <1>1, <1>4, <2>3, IndexFacts DEF AssignedTo
    <3> QED
      BY <1>1, <2>1, <2>3, <3>1
  <2> QED
    BY <2>2, <2>3
<1>6. Turns(Load', turn + 1, n)
  <2>1. n \in Nat \ {0} /\ turn \in Nat
    BY <1>1, IndexFacts
  <2>2. Turns(Load, turn, n)
    BY <1>1
  <2>3. \A p \in 1..n : Load'[p] = IF p = (turn % n) + 1 THEN Load[p] + 1 ELSE Load[p]
    BY <1>5, IndexFacts
  <2> HIDE DEF n
  <2> QED
    BY <2>1, <2>2, <2>3, NextTurn
<1>7. turn' \in Nat /\ assigned' \in [Browser -> Rotator!Index \cup {NoProxy}]
  BY <1>1, <1>3, <1>4
<1> QED
  BY <1>4, <1>5, <1>6, <1>7 DEF SpreadOK

\* Every other step leaves the assignment of the browsers alone.
LEMMA SpreadKept ==
    ASSUME SpreadOK, UNCHANGED <<turn, assigned>> PROVE SpreadOK'
  BY DEF SpreadOK, Load, AssignedTo

\* A step of the handler or of a goroutine of connection c.
ConnStep(c) ==
    \/ \E b \in Browser : Local!Accept(c, b)
    \/ Local!AcceptNext(c)
    \/ Local!HandlerStep(c) \/ Local!UpstreamAnswers(c)
    \/ Local!UpEnds(c) \/ Local!DownEnds(c) \/ Local!CloseIdle(c)
    \/ Local!BrowserCloses(c) \/ Local!UpstreamCloses(c)

LEMMA ConnStepKeeps ==
    ASSUME LocalOK, NEW c \in Conn, ConnStep(c)
    PROVE  Local!ProxyTypeOK' /\ HandlerOwns' /\ UNCHANGED <<turn, assigned>>
<1> DEFINE Goal == Local!ProxyTypeOK' /\ HandlerOwns' /\ UNCHANGED <<turn, assigned>>
<1> USE DEF LocalOK, Local!ProxyTypeOK, HandlerOwns, Local!Set, Local!rest, Local!poolVars,
         Local!peerVars, Local!Handler, Local!Reply
<1>1. ASSUME NEW b \in Browser, Local!Accept(c, b) PROVE Goal
  BY <1>1, IndexFacts DEF Local!Accept
<1>2. CASE Local!AcceptNext(c)
  BY <1>2 DEF Local!AcceptNext
<1>3. CASE Local!Refuse(c)
  BY <1>3 DEF Local!Refuse
<1>4. CASE Local!SendOn(c)
  BY <1>4 DEF Local!SendOn
<1>5. CASE Local!PlainEnds(c)
  BY <1>5 DEF Local!PlainEnds
<1>6. CASE Local!Dial(c)
  BY <1>6 DEF Local!Dial
<1>7. CASE Local!Dialed(c)
  BY <1>7 DEF Local!Dialed
<1>8. CASE Local!DialFails(c)
  BY <1>8 DEF Local!DialFails
<1>9. CASE Local!Answered(c)
  BY <1>9 DEF Local!Answered
<1>10. CASE Local!HandshakeFails(c)
  BY <1>10 DEF Local!HandshakeFails
<1>11. CASE Local!Hijack(c)
  BY <1>11 DEF Local!Hijack
<1>12. CASE Local!HijackFails(c)
  BY <1>12 DEF Local!HijackFails
<1>13. CASE Local!TunnelEnds(c)
  BY <1>13 DEF Local!TunnelEnds
<1>14. CASE Local!UpEnds(c)
  BY <1>14 DEF Local!UpEnds
<1>15. CASE Local!DownEnds(c)
  BY <1>15 DEF Local!DownEnds
<1>16. CASE Local!CloseIdle(c)
  BY <1>16 DEF Local!CloseIdle
<1>17. CASE Local!BrowserCloses(c)
  BY <1>17 DEF Local!BrowserCloses
<1>18. CASE Local!UpstreamCloses(c)
  BY <1>18 DEF Local!UpstreamCloses
<1> QED
  BY <1>1, <1>2, <1>3, <1>4, <1>5, <1>6, <1>7, <1>8, <1>9, <1>10, <1>11, <1>12,
     <1>13, <1>14, <1>15, <1>16, <1>17, <1>18
     DEF ConnStep, Local!HandlerStep, Local!UpstreamAnswers

LEMMA LocalStep == LocalOK /\ Local!ProxyNext => LocalOK'
<1> SUFFICES ASSUME LocalOK, Local!ProxyNext PROVE LocalOK'
  OBVIOUS
<1>0. ASSUME Local!ProxyTypeOK' /\ HandlerOwns' /\ UNCHANGED <<turn, assigned>>
      PROVE  LocalOK'
  BY <1>0, SpreadKept DEF LocalOK
<1>1. ASSUME NEW p \in Rotator!Index, Local!StartAuthProxy(p) \/ Local!StartFails(p)
      PROVE  LocalOK'
  BY <1>0, <1>1 DEF Local!StartAuthProxy, Local!StartFails, LocalOK, Local!ProxyTypeOK,
     HandlerOwns, Local!connVars, Local!peerVars
<1>2. ASSUME NEW p \in Rotator!Index, Local!Close(p) \/ Local!CloseReturns(p)
      PROVE  LocalOK'
  BY <1>0, <1>2 DEF Local!Close, Local!CloseReturns, LocalOK, Local!ProxyTypeOK,
     HandlerOwns, Local!poolVars, Local!connVars, Local!peerVars
<1>3. ASSUME NEW b \in Browser, Local!Next(b) PROVE LocalOK'
  BY <1>3, SpreadStep DEF Local!Next, LocalOK, Local!ProxyTypeOK, HandlerOwns,
     Local!connVars, Local!peerVars
<1>4. ASSUME NEW c \in Conn, ConnStep(c) PROVE LocalOK'
  BY <1>0, <1>4, ConnStepKeeps
<1> QED
  BY <1>1, <1>2, <1>3, <1>4 DEF Local!ProxyNext, ConnStep

-----------------------------------------------------------------------------
(***************************************************************************)
(* Both modes.                                                             *)
(***************************************************************************)
IInv == RotatorOK /\ LocalOK /\ mode \in Modes

LEMMA Stutters == IInv /\ UNCHANGED vars => IInv'
<1> SUFFICES ASSUME IInv, UNCHANGED <<rotatorVars, localVars, mode>> PROVE IInv'
  BY DEF vars
<1>1. RotatorOK'
  BY DEF IInv, rotatorVars, RotatorOK, Rotator!RotatorTypeOK, UsesOK, Since, TransportsOK
<1>2. LocalOK'
  BY DEF IInv, localVars, LocalOK, Local!ProxyTypeOK, HandlerOwns, SpreadOK, Load,
     AssignedTo
<1> QED
  BY <1>1, <1>2 DEF IInv

\* The inductive invariant.
THEOREM Invariance == Spec => []IInv
<1>1. Init => IInv
  BY RotatorInitHolds, LocalInitHolds DEF Init, IInv
<1>2. IInv /\ FetchHTTP => IInv'
  BY RotatorStep DEF IInv, FetchHTTP, localVars, LocalOK, Local!ProxyTypeOK,
     HandlerOwns, SpreadOK, Load, AssignedTo
<1>3. IInv /\ FetchJS => IInv'
  BY LocalStep DEF IInv, FetchJS, rotatorVars, RotatorOK, Rotator!RotatorTypeOK,
     UsesOK, Since, TransportsOK
<1> QED
  BY <1>1, <1>2, <1>3, Stutters, PTL DEF Spec, Next

\* Every variable has its type.
THEOREM TypeCorrect == Spec => []TypeOK
<1>1. IInv => TypeOK
  BY DEF IInv, RotatorOK, LocalOK, TypeOK
<1> QED
  BY Invariance, <1>1, PTL

\* For any number of proxies, of requests under way and of runs of the counter,
\* and for any number of browsers, the proxies take turns.
THEOREM RoundRobinAlways == Spec => []RoundRobin
<1>1. IInv => Rotator!EvenUse
  <2> SUFFICES ASSUME IInv, NEW p \in Rotator!Index, NEW q \in Rotator!Index
               PROVE  uses[p] - uses[q] <= 1 + wraps
    BY DEF Rotator!EvenUse
  <2>1. PICK old \in [Rotator!Index -> Int] :
            /\ \A x, y \in Rotator!Index : old[x] - old[y] <= wraps
            /\ Turns(Since(old), current, Rotator!Count)
    BY DEF IInv, RotatorOK, UsesOK
  <2>2. Since(old)[p] - Since(old)[q] <= 1
    BY <2>1, TurnsEven, IndexFacts
  <2>3. /\ uses[p] \in Nat /\ uses[q] \in Nat /\ wraps \in Nat
        /\ old[p] \in Int /\ old[q] \in Int /\ old[p] - old[q] <= wraps
    BY <2>1 DEF IInv, RotatorOK, Rotator!RotatorTypeOK
  <2>4. Since(old)[p] = uses[p] - old[p] /\ Since(old)[q] = uses[q] - old[q]
    BY DEF Since
  <2> QED
    BY <2>2, <2>3, <2>4
<1>2. IInv => Local!EvenSpread
  <2> SUFFICES ASSUME IInv, NEW p \in Rotator!Index, NEW q \in Rotator!Index
               PROVE  Cardinality(AssignedTo(p)) - Cardinality(AssignedTo(q)) <= 1
    BY SameCardinality DEF Local!EvenSpread, AssignedTo
  <2>1. Turns(Load, turn, Rotator!Count)
    BY DEF IInv, LocalOK, SpreadOK
  <2>2. Load[p] - Load[q] <= 1
    BY <2>1, TurnsEven, IndexFacts
  <2> QED
    BY <2>2 DEF Load
<1> QED
  BY Invariance, <1>1, <1>2, PTL DEF RoundRobin

\* If the configured proxies have addresses of their own, each request goes
\* through the proxy that was chosen for it, however requests share the cache.
THEOREM SentThroughChosenProxyAlways ==
    ASSUME Rotator!DistinctURLs
    PROVE  Spec => []SentThroughChosenProxy
<1>1. IInv => SentThroughChosenProxy
  BY DEF IInv, RotatorOK, TransportsOK, SentThroughChosenProxy,
     Rotator!SentThroughChosenProxy, Rotator!DistinctURLs
<1> QED
  BY Invariance, <1>1, PTL

\* For any connections, requests and failures of the peers, a handler that
\* returns leaves no connection open.
THEOREM NoConnectionLeakedAlways == Spec => []NoConnectionLeaked
<1>1. IInv => NoConnectionLeaked
  BY DEF IInv, LocalOK, HandlerOwns, NoConnectionLeaked, Local!NoConnectionLeaked
<1> QED
  BY Invariance, <1>1, PTL
=============================================================================
