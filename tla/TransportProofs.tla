----------------------------- MODULE TransportProofs -----------------------------
(***************************************************************************)
(* The two clients of the network, which share no state.                   *)
(*                                                                         *)
(* TelegramTransport, for any number of routes and clients: the active     *)
(* route is the best one, messages are not doubled, nothing begins after   *)
(* the shutdown, the main task's requests are tried on every route that    *)
(* works, and Telegram is not reported as down while one does.             *)
(*                                                                         *)
(* HHClient, for any number of callers and tokens: no token of the         *)
(* application is wasted, and no call fails for one that was stale when it *)
(* began.                                                                  *)
(***************************************************************************)
EXTENDS TelegramTransport, HHClient, WellFoundedInduction, TLAPS

USE TransportAssumption

\* The part of the types that the arguments need.
TypeInv ==
  /\ cool \in [Routes -> Nat]
  /\ active \in Routes
  /\ request \in [Clients -> [route : 0..RouteCount, left : SUBSET Routes, seen : [Routes -> Nat]]]
  /\ phase \in Phases

-----------------------------------------------------------------------------
(* The order of the routes *)

LEMMA LeastNat ==
  ASSUME NEW S \in SUBSET Nat, S # {}
  PROVE  \E n \in S : \A m \in S : n <= m
<1>1. PICK n \in S : \A m \in S : ~(<<m, n>> \in OpToRel(<, Nat))
  BY NatLessThanWellFounded, WFMin
<1>2. ASSUME NEW m \in S PROVE n <= m
  <2>1. ~(m < n)
    BY <1>1 DEF OpToRel
  <2> QED BY <2>1
<1> QED BY <1>2

\* The first of a set of routes comes before all of them.
LEMMA FirstIsLeast ==
  ASSUME NEW cooling \in [Routes -> Nat], NEW S \in SUBSET Routes, S # {}
  PROVE  First(S, cooling) \in S /\ \A s \in S : Before(cooling, First(S, cooling), s)
<1>1. {cooling[r] : r \in S} \in SUBSET Nat /\ {cooling[r] : r \in S} # {}
  OBVIOUS
<1>2. PICK n \in {cooling[r] : r \in S} : \A m \in {cooling[r] : r \in S} : n <= m
  BY <1>1, LeastNat
<1> DEFINE T == {r \in S : cooling[r] = n}
<1>3. T \in SUBSET Nat /\ T # {} /\ T \subseteq S
  <2>1. Routes \subseteq Nat
    BY DEF Routes
  <2>2. \E r \in S : cooling[r] = n
    BY <1>2
  <2> QED BY <2>1, <2>2
<1>4. PICK r \in T : \A s \in T : r <= s
  BY <1>3, LeastNat
<1>5. ASSUME NEW s \in S PROVE Before(cooling, r, s)
  <2>1. cooling[r] = n /\ cooling[r] <= cooling[s] /\ cooling[r] \in Nat /\ cooling[s] \in Nat
    BY <1>2, <1>4
  <2>2. CASE cooling[s] = n
    BY <1>4, <2>1, <2>2 DEF Before
  <2>3. CASE cooling[s] # n
    BY <2>1, <2>3 DEF Before
  <2> QED BY <2>2, <2>3
<1>6. \E x \in S : \A s \in S : Before(cooling, x, s)
  BY <1>4, <1>5
<1> QED BY <1>6 DEF First

LEMMA OrderIsNotEmpty ==
  ASSUME NEW cooling \in [Routes -> Nat]
  PROVE  RouteOrder(cooling) \in SUBSET Routes /\ RouteOrder(cooling) # {}
<1>1. 1 \in Routes
  BY DEF Routes
<1> QED BY <1>1 DEF RouteOrder

\* Best is what ActiveIsBest says of the active route.
Best(cooling, r) == cooling[r] > 0 => \A s \in Routes : cooling[r] <= cooling[s]

LEMMA FirstIsBest ==
  ASSUME NEW cooling \in [Routes -> Nat]
  PROVE  LET first == First(RouteOrder(cooling), cooling)
         IN first \in Routes /\ Best(cooling, first)
<1> DEFINE first == First(RouteOrder(cooling), cooling)
<1>1. /\ first \in RouteOrder(cooling) /\ first \in Routes
      /\ \A s \in RouteOrder(cooling) : Before(cooling, first, s)
  BY OrderIsNotEmpty, FirstIsLeast
<1>2. CASE \E r \in Routes : cooling[r] = 0
  <2>1. cooling[first] = 0
    BY <1>1, <1>2 DEF RouteOrder
  <2> QED BY <1>1, <2>1 DEF Best
<1>3. CASE ~\E r \in Routes : cooling[r] = 0
  <2>1. RouteOrder(cooling) = Routes
    BY <1>3 DEF RouteOrder
  <2> QED BY <1>1, <2>1 DEF Best, Before
<1> QED BY <1>2, <1>3
-----------------------------------------------------------------------------
(* The invariant *)

\* The active route is the one to prefer; a handler's request has no route left
\* to go on to.
RouteInv ==
  /\ Best(cool, active)
  /\ \A h \in Handlers : request[h].left = {}

Inv == TypeInv /\ RouteInv

LEMMA InitInv == Init => Inv
<1> SUFFICES ASSUME Init PROVE Inv
  OBVIOUS
<1>1. 1 \in Routes /\ 0 \in 0..RouteCount
  BY DEF Routes
<1> QED BY <1>1 DEF Init, Inv, TypeInv, RouteInv, Best, NoRequest, Phases, Clients

\* Handlers are clients other than the main task.
LEMMA HandlersAreClients == \A h \in Handlers : h \in Clients /\ h # Main
BY DEF Clients

RequestStates == [route : 0..RouteCount, left : SUBSET Routes, seen : [Routes -> Nat]]

\* A request that ends, or takes on a state with its type, keeps the types.
LEMMA RequestKept ==
  ASSUME TypeInv, NEW c \in Clients, NEW s \in RequestStates,
         request' = [request EXCEPT ![c] = s]
  PROVE  /\ request' \in [Clients -> RequestStates]
         /\ request'[c] = s
         /\ \A d \in Clients : d # c => request'[d] = request[d]
BY DEF TypeInv, RequestStates

LEMMA NoRequestType == NoRequest \in RequestStates /\ NoRequest.left = {}
BY DEF NoRequest, RequestStates, Routes

\* A route is marked, and the active one chosen.
LEMMA MarkedBest ==
  ASSUME TypeInv, NEW r \in Routes, MarkSuccess(r) \/ MarkFailure(r)
  PROVE  cool' \in [Routes -> Nat] /\ active' \in Routes /\ Best(cool', active')
<1>1. CASE MarkSuccess(r)
  BY <1>1 DEF MarkSuccess, Best, TypeInv
<1>2. CASE MarkFailure(r)
  <2>1. cool' \in [Routes -> Nat]
    BY <1>2 DEF MarkFailure, TypeInv
  <2> QED BY <1>2, <2>1, FirstIsBest DEF MarkFailure
<1> QED BY <1>1, <1>2

LEMMA NextInv == Inv /\ Next => Inv'
<1> SUFFICES ASSUME Inv, Next PROVE Inv'
  OBVIOUS
<1>t. TypeInv /\ RouteInv
  BY DEF Inv
<1>h. \A h \in Handlers : h \in Clients /\ h # Main
  BY HandlersAreClients
<1>p. AfterFailure \in Phases
  BY <1>t DEF AfterFailure, TypeInv, Phases
\* Ending a request disturbs nothing.
<1>e. ASSUME NEW c \in Clients, End(c)
      PROVE  /\ request' \in [Clients -> RequestStates]
             /\ \A h \in Handlers : request'[h].left = {}
  <2>1. request' = [request EXCEPT ![c] = NoRequest]
    BY <1>e DEF End
  <2> QED BY <1>t, <1>h, <2>1, NoRequestType, RequestKept DEF RouteInv
<1>1. ASSUME NEW c \in Clients, Ask(c) PROVE Inv'
  <2> DEFINE order == RouteOrder(cool)
             first == First(order, cool)
             left == IF MayRetry(c) THEN order \ {first} ELSE {}
             s == [route |-> first, left |-> left,
                   seen |-> [r \in Routes |-> IF r \in left THEN cool[r] ELSE 0]]
  <2>1. request' = [request EXCEPT ![c] = s]
    BY <1>1 DEF Ask
  <2>2. first \in Routes /\ order \subseteq Routes
    BY <1>t, OrderIsNotEmpty, FirstIsLeast DEF TypeInv
  <2>3. s \in RequestStates
    BY <1>t, <2>2 DEF RequestStates, Routes, TypeInv
  <2>4. c \in Handlers => left = {}
    BY <1>h DEF MayRetry
  <2>5. /\ request' \in [Clients -> RequestStates] /\ request'[c] = s
        /\ \A d \in Clients : d # c => request'[d] = request[d]
    BY <1>t, <2>1, <2>3, RequestKept
  <2>6. \A h \in Handlers : request'[h].left = {}
    BY <1>t, <1>h, <2>4, <2>5 DEF RouteInv
  <2> QED BY <1>t, <1>1, <2>5, <2>6
          DEF Ask, Inv, TypeInv, RouteInv, RequestStates, routing
<1>2. ASSUME NEW c \in Clients, Succeed(c) PROVE Inv'
  <2>1. request[c].route \in Routes
    BY <1>t, <1>2 DEF Succeed, Busy, TypeInv, Routes
  <2>2. cool' \in [Routes -> Nat] /\ active' \in Routes /\ Best(cool', active')
    BY <1>t, <1>2, <2>1, MarkedBest DEF Succeed
  <2>3. phase' \in Phases
    BY <1>t, <1>2 DEF Succeed, TypeInv, Phases
  <2>4. End(c)
    BY <1>2 DEF Succeed
  <2> QED BY <1>e, <2>2, <2>3, <2>4 DEF Inv, TypeInv, RouteInv, RequestStates
<1>3. ASSUME NEW c \in Clients, Refuse(c) PROVE Inv'
  <2>1. End(c) /\ phase' \in Phases /\ UNCHANGED <<cool, active>>
    BY <1>t, <1>p, <1>3 DEF Refuse, TypeInv, Phases, routing
  <2> QED BY <1>e, <1>t, <2>1 DEF Inv, TypeInv, RouteInv, RequestStates
<1>4. ASSUME NEW c \in Clients, Fail(c) PROVE Inv'
  <2>1. CASE End(c) /\ UNCHANGED <<cool, active, phase>>
    BY <1>e, <1>t, <2>1 DEF Inv, TypeInv, RouteInv, RequestStates
  <2>2. CASE MarkFailure(request[c].route)
    <3>1. request[c].route \in Routes
      BY <1>t, <1>4 DEF Fail, Busy, TypeInv, Routes
    <3>2. cool' \in [Routes -> Nat] /\ active' \in Routes /\ Best(cool', active')
      BY <1>t, <2>2, <3>1, MarkedBest
    <3>3. CASE End(c) /\ phase' \in {phase, AfterFailure}
      BY <1>e, <1>t, <1>p, <3>2, <3>3 DEF Inv, TypeInv, RouteInv, RequestStates
    <3>4. CASE request[c].left # {} /\ ~End(c)
      <4> DEFINE q == request[c]
                 next == First(q.left, q.seen)
                 s == [q EXCEPT !.route = next, !.left = q.left \ {next}]
      <4>1. request' = [request EXCEPT ![c] = s] /\ UNCHANGED phase
        BY <1>4, <3>4 DEF Fail
      <4>2. q.left \in SUBSET Routes /\ q.seen \in [Routes -> Nat]
        BY <1>t DEF TypeInv
      <4>3. next \in Routes
        BY <3>4, <4>2, FirstIsLeast
      <4>4. s \in RequestStates
        <5>1. q \in RequestStates
          BY <1>t DEF TypeInv, RequestStates
        <5>2. next \in 0..RouteCount /\ q.left \ {next} \in SUBSET Routes
          BY <4>2, <4>3 DEF Routes
        <5> QED BY <5>1, <5>2 DEF RequestStates
      <4>5. \A h \in Handlers : h # c
        BY <1>t, <3>4 DEF RouteInv
      <4>6. /\ request' \in [Clients -> RequestStates]
            /\ \A d \in Clients : d # c => request'[d] = request[d]
        BY <1>t, <4>1, <4>4, RequestKept
      <4> QED BY <1>t, <1>h, <3>2, <4>1, <4>5, <4>6 DEF Inv, TypeInv, RouteInv, RequestStates
    <3> QED BY <1>4, <2>2, <3>3, <3>4 DEF Fail
  <2> QED BY <1>4, <2>1, <2>2 DEF Fail, routing
<1>5. CASE Wake
  BY <1>t, <1>5 DEF Wake, Inv, TypeInv, RouteInv, Phases, routing
<1>6. CASE Signal \/ Close
  <2>1. phase' \in Phases /\ UNCHANGED <<cool, active>>
    BY <1>6 DEF Signal, Close, Phases, routing
  <2>2. \/ request' = [c \in Clients |-> NoRequest]
        \/ request' = [request EXCEPT ![Main] = NoRequest]
    BY <1>6 DEF Signal, Close
  <2>3. Main \in Clients
    BY DEF Clients
  <2>4. /\ request' \in [Clients -> RequestStates]
        /\ \A h \in Handlers : request'[h].left = {}
    BY <1>t, <1>h, <2>2, <2>3, NoRequestType, RequestKept DEF RouteInv
  <2> QED BY <1>t, <2>1, <2>4 DEF Inv, TypeInv, RouteInv, RequestStates
<1>7. CASE Tick
  <2>1. \A r \in Routes : cool'[r] = IF cool[r] = 0 THEN 0 ELSE cool[r] - 1
    BY <1>7 DEF Tick
  <2>2. cool' \in [Routes -> Nat]
    <3>1. \A r \in Routes : (IF cool[r] = 0 THEN 0 ELSE cool[r] - 1) \in Nat
      BY <1>t DEF TypeInv
    <3>2. cool' = [r \in Routes |-> IF cool[r] = 0 THEN 0 ELSE cool[r] - 1]
      BY <1>7 DEF Tick
    <3> QED BY <3>1, <3>2
  <2>3. Best(cool', active)
    BY <1>t, <2>1 DEF Best, TypeInv, RouteInv
  <2> QED BY <1>t, <1>7, <2>2, <2>3 DEF Tick, Inv, TypeInv, RouteInv
<1>8. CASE \E r \in Routes : RouteDown(r) \/ RouteUp(r)
  BY <1>t, <1>8 DEF RouteDown, RouteUp, Inv, TypeInv, RouteInv, routing
<1>9. CASE UNCHANGED vars
  BY <1>t, <1>9 DEF vars, Inv, TypeInv, RouteInv
<1> QED BY <1>1, <1>2, <1>3, <1>4, <1>5, <1>6, <1>7, <1>8, <1>9 DEF Next, Attempt

LEMMA SpecInv == Spec => []Inv
<1>1. Inv /\ UNCHANGED vars => Inv'
  BY DEF vars, Inv, TypeInv, RouteInv
<1> QED BY <1>1, InitInv, NextInv, PTL DEF Spec

-----------------------------------------------------------------------------
(* The theorems *)

\* The active route is available, or is the first to become available again,
\* whatever the order in which the clients' attempts end.
THEOREM ActiveRoute == Spec => []ActiveIsBest
<1>1. Inv => ActiveIsBest
  BY DEF Inv, RouteInv, Best, ActiveIsBest
<1> QED BY <1>1, SpecInv, PTL

\* A message is put on one route only.
THEOREM NoDoubledMessage == Spec => MessagesAreNotDoubled
<1> DEFINE A == \A h \in Handlers :
                  Busy(h) /\ Busy(h)' => request'[h].route = request[h].route
<1>1. Inv /\ Next => A
  <2> SUFFICES ASSUME Inv, Next, NEW h \in Handlers, Busy(h), Busy(h)'
               PROVE  request'[h].route = request[h].route
    OBVIOUS
  <2>1. /\ h \in Clients /\ request[h].left = {} /\ TypeInv
        /\ NoRequest.route = 0
    BY HandlersAreClients DEF Inv, RouteInv, NoRequest
  <2>2. ASSUME NEW c \in Clients, Ask(c) \/ Attempt(c), c # h PROVE request'[h] = request[h]
    BY <2>1, <2>2 DEF Ask, Attempt, Succeed, Refuse, Fail, End, TypeInv
  <2>3. ~Ask(h)
    BY DEF Ask
  <2>4. ~Attempt(h)
    <3>1. Attempt(h) => End(h)
      BY <2>1 DEF Attempt, Succeed, Refuse, Fail
    <3>2. End(h) => request'[h] = NoRequest
      BY <2>1 DEF End, TypeInv
    <3> QED BY <2>1, <3>1, <3>2 DEF Busy
  <2>5. CASE \E c \in Clients : Ask(c) \/ Attempt(c)
    BY <2>2, <2>3, <2>4, <2>5
  <2>6. CASE Signal \/ Close
    BY <2>1, <2>6 DEF Signal, Close, Busy, TypeInv
  <2>7. CASE UNCHANGED request
    BY <2>7
  <2> QED BY <2>5, <2>6, <2>7 DEF Next, Wake, Tick, RouteDown, RouteUp, vars
<1>2. Inv /\ [Next]_vars => [A]_vars
  BY <1>1
<1> QED BY <1>2, SpecInv, PTL DEF MessagesAreNotDoubled, Spec

\* Once the shutdown began, nothing is put on a route: neither a new request
\* nor one that fails over.
THEOREM NothingAfterShutdown == Spec => NothingBeginsAfterShutdown
<1> DEFINE A == closing => \A c \in Clients :
                  Busy(c)' => request'[c].route = request[c].route
<1>1. Inv /\ Next => A
  <2> SUFFICES ASSUME Inv, Next, closing, NEW c \in Clients, Busy(c)'
               PROVE  request'[c].route = request[c].route
    OBVIOUS
  <2>1. TypeInv /\ NoRequest.route = 0 /\ Main \in Clients
    BY DEF Inv, NoRequest, Clients
  <2>2. ASSUME NEW d \in Clients, Ask(d) \/ Attempt(d) PROVE End(d)
    BY <2>2 DEF Ask, Attempt, Succeed, Refuse, Fail, Running
  <2>3. ASSUME NEW d \in Clients, End(d) PROVE request'[c].route = request[c].route
    BY <2>1, <2>3 DEF End, Busy, TypeInv
  <2>4. CASE \E d \in Clients : Ask(d) \/ Attempt(d)
    BY <2>2, <2>3, <2>4
  <2>5. CASE Signal \/ Close
    BY <2>1, <2>5 DEF Signal, Close, Busy, TypeInv
  <2>6. CASE UNCHANGED request
    BY <2>6
  <2> QED BY <2>4, <2>5, <2>6 DEF Next, Wake, Tick, RouteDown, RouteUp, vars
<1>2. Inv /\ [Next]_vars => [A]_vars
  BY <1>1
<1> QED BY <1>2, SpecInv, PTL DEF NothingBeginsAfterShutdown, Spec

-----------------------------------------------------------------------------
(* The main task's request *)

\* The routes that worked throughout are among those that the request is on or
\* may still try.  A shutdown that began has stopped the main task.
SteadyInv ==
  /\ up \subseteq Routes
  /\ closing => phase \in {"stopping", "stopped"}
  /\ steady \subseteq up
  /\ steady \subseteq {request[Main].route} \cup request[Main].left

\* What the invariant says of a request of the main task.
Covers(q, routes) == routes \subseteq {q.route} \cup q.left

LEMMA InitSteady == Init => SteadyInv
BY DEF Init, SteadyInv, Clients, NoRequest

\* A client's request ends: what remains is covered.
LEMMA EndSteady ==
  ASSUME TypeInv, SteadyInv, NEW c \in Clients, End(c), UNCHANGED up
  PROVE  steady' \subseteq up' /\ Covers(request'[Main], steady')
<1>1. Main \in Clients
  BY DEF Clients
<1>2. CASE c = Main
  BY <1>2 DEF End, Covers
<1>3. CASE c # Main
  <2>1. request'[Main] = request[Main] /\ steady' = steady
    BY <1>1, <1>3 DEF End, TypeInv
  <2> QED BY <2>1 DEF SteadyInv, Covers
<1> QED BY <1>2, <1>3

LEMMA NextSteady == Inv /\ SteadyInv /\ Next => SteadyInv'
<1> SUFFICES ASSUME Inv, SteadyInv, Next PROVE SteadyInv'
  OBVIOUS
<1>t. TypeInv /\ Main \in Clients
  BY DEF Inv, Clients
<1>1. ASSUME NEW c \in Clients, Ask(c) PROVE SteadyInv'
  <2> DEFINE order == RouteOrder(cool)
             first == First(order, cool)
             left == IF MayRetry(c) THEN order \ {first} ELSE {}
             s == [route |-> first, left |-> left,
                   seen |-> [r \in Routes |-> IF r \in left THEN cool[r] ELSE 0]]
  <2>1. /\ request' = [request EXCEPT ![c] = s]
        /\ steady' = IF c = Main THEN order \cap up ELSE steady
        /\ UNCHANGED <<up, closing, phase>>
    BY <1>1 DEF Ask, environment
  <2>2. CASE c = Main
    <3>1. s.route = first /\ s.left = order \ {first}
      BY <2>2 DEF MayRetry
    <3>2. request'[Main] = s
      BY <1>t, <2>1, <2>2 DEF TypeInv
    <3> HIDE DEF s, first, order
    <3>3. steady' = order \cap up
      BY <2>1, <2>2
    <3> QED BY <2>1, <3>1, <3>2, <3>3 DEF SteadyInv
  <2>3. CASE c # Main
    <3>1. request'[Main] = request[Main] /\ steady' = steady
      BY <1>t, <2>1, <2>3 DEF TypeInv
    <3> QED BY <2>1, <3>1 DEF SteadyInv
  <2> QED BY <2>2, <2>3
<1>2. ASSUME NEW c \in Clients, Succeed(c) PROVE SteadyInv'
  <2>1. End(c) /\ UNCHANGED <<up, closing>>
    BY <1>2 DEF Succeed, environment
  <2>2. phase \in {"stopping", "stopped"} => phase' = phase
    BY <1>2 DEF Succeed
  <2> QED BY <1>t, <2>1, <2>2, EndSteady DEF SteadyInv, Covers
<1>3. ASSUME NEW c \in Clients, Refuse(c) PROVE SteadyInv'
  <2>1. End(c) /\ UNCHANGED <<up, closing>>
    BY <1>3 DEF Refuse
  <2>2. phase \in {"stopping", "stopped"} => phase' \in {"stopping", "stopped"}
    BY <1>3 DEF Refuse, AfterFailure
  <2> QED BY <1>t, <2>1, <2>2, EndSteady DEF SteadyInv, Covers
<1>4. ASSUME NEW c \in Clients, Fail(c) PROVE SteadyInv'
  <2>1. UNCHANGED <<up, closing>>
    BY <1>4 DEF Fail, environment
  <2>2. phase \in {"stopping", "stopped"} => phase' = phase
    BY <1>4 DEF Fail, AfterFailure
  <2>3. CASE End(c)
    BY <1>t, <2>1, <2>2, <2>3, EndSteady DEF SteadyInv, Covers
  <2>4. CASE ~End(c)
    <3> DEFINE q == request[c]
               next == First(q.left, q.seen)
               s == [q EXCEPT !.route = next, !.left = q.left \ {next}]
    <3>1. /\ request' = [request EXCEPT ![c] = s]
          /\ steady' = steady
          /\ request[c].route \notin up
      BY <1>4, <2>4 DEF Fail
    <3>2. CASE c # Main
      <4>1. request'[Main] = request[Main]
        BY <1>t, <3>1, <3>2 DEF TypeInv
      <4> QED BY <2>1, <2>2, <3>1, <4>1 DEF SteadyInv
    <3>3. CASE c = Main
      <4>1. request'[Main] = s
        BY <1>t, <3>1, <3>3 DEF TypeInv
      <4>2. s.route = next /\ s.left = request[Main].left \ {next}
        BY <1>t, <3>3 DEF TypeInv
      <4> HIDE DEF s, next
      <4>3. steady \subseteq request[Main].left
        BY <3>1, <3>3 DEF SteadyInv
      <4>4. Covers(request'[Main], steady')
        BY <3>1, <4>1, <4>2, <4>3 DEF Covers
      <4> QED BY <2>1, <2>2, <3>1, <4>4 DEF SteadyInv, Covers
    <3> QED BY <3>2, <3>3
  <2> QED BY <2>3, <2>4
<1>5. CASE Wake
  BY <1>5 DEF Wake, SteadyInv, environment
<1>6. CASE Signal \/ Close
  <2>1. steady' = {} /\ UNCHANGED up
    BY <1>6 DEF Signal, Close, environment
  <2>2. phase' \in {"stopping", "stopped"}
    BY <1>6 DEF Signal, Close
  <2> QED BY <2>1, <2>2 DEF SteadyInv
<1>7. CASE Tick
  BY <1>7 DEF Tick, SteadyInv, environment
<1>8. ASSUME NEW r \in Routes, RouteDown(r) \/ RouteUp(r) PROVE SteadyInv'
  <2>1. /\ UNCHANGED <<closing, phase, request>>
        /\ \/ up' = up \ {r} /\ steady' = steady \ {r}
           \/ up' = up \cup {r} /\ steady' = steady
    BY <1>8 DEF RouteDown, RouteUp
  <2> QED BY <2>1 DEF SteadyInv
<1>9. CASE UNCHANGED vars
  BY <1>9 DEF vars, SteadyInv
<1> QED BY <1>1, <1>2, <1>3, <1>4, <1>5, <1>6, <1>7, <1>8, <1>9 DEF Next, Attempt

LEMMA SpecSteady == Spec => []SteadyInv
<1>1. SteadyInv /\ UNCHANGED vars => SteadyInv'
  BY DEF vars, SteadyInv
<1> QED BY <1>1, InitSteady, NextSteady, SpecInv, PTL DEF Spec

\* A request that may be repeated does not fail while a route of its order
\* worked throughout, however the handlers' requests mark the routes meanwhile
\* and the routes come and go.
THEOREM SafeRequests == Spec => SafeRequestsPersist
<1> DEFINE A == /\ Busy(Main) /\ ~Busy(Main)'
                /\ request[Main].route \notin up
                /\ ~closing'
                => steady = {}
<1>1. Inv /\ SteadyInv /\ Next => A
  <2> SUFFICES ASSUME Inv, SteadyInv, Next,
                      Busy(Main), ~Busy(Main)', request[Main].route \notin up,
                      ~closing'
               PROVE  steady = {}
    OBVIOUS
  <2>1. TypeInv /\ Main \in Clients
    BY DEF Inv, Clients
  <2>2. ASSUME NEW c \in Clients, c # Main, Ask(c) \/ Attempt(c) PROVE FALSE
    <3>1. request'[Main] = request[Main]
      BY <2>1, <2>2 DEF Ask, Attempt, Succeed, Refuse, Fail, End, TypeInv
    <3> QED BY <3>1 DEF Busy
  <2>3. ~Ask(Main) /\ ~Succeed(Main) /\ ~Refuse(Main)
    BY DEF Ask, Succeed, Refuse
  <2>4. ASSUME Fail(Main) PROVE steady = {}
    <3>3. Running
      BY <2>4 DEF Fail, Running
    <3>4. request[Main].left = {}
      <4> SUFFICES ASSUME request[Main].left # {} PROVE FALSE
        OBVIOUS
      <4> DEFINE q == request[Main]
                 next == First(q.left, q.seen)
                 s == [q EXCEPT !.route = next, !.left = q.left \ {next}]
      <4>1. request' = [request EXCEPT ![Main] = s]
        BY <2>4, <3>3 DEF Fail
      <4>2. q.left \in SUBSET Routes /\ q.seen \in [Routes -> Nat]
        BY <2>1 DEF TypeInv
      <4>3. next \in Routes
        BY <4>2, FirstIsLeast
      <4>4. request'[Main].route = next
        BY <2>1, <4>1 DEF TypeInv
      <4> QED BY <4>3, <4>4 DEF Busy, Routes
    <3> QED BY <3>4 DEF SteadyInv
  <2>5. CASE \E c \in Clients : Ask(c) \/ Attempt(c)
    BY <2>2, <2>3, <2>4, <2>5 DEF Attempt
  <2>6. ~Signal /\ ~Close
    BY DEF Signal, Close
  <2>7. ~(UNCHANGED request)
    BY DEF Busy
  <2> QED BY <2>5, <2>6, <2>7 DEF Next, Wake, Tick, RouteDown, RouteUp, vars
<1>2. Inv /\ SteadyInv /\ [Next]_vars => [A]_vars
  BY <1>1
<1> QED BY <1>2, SpecInv, SpecSteady, PTL DEF SafeRequestsPersist, Spec

-----------------------------------------------------------------------------
(* What is reported *)

\* A route that cools down failed when it was last tried.
DownInv ==
  /\ failed \subseteq Routes
  /\ \A r \in Routes : cool[r] > 0 => r \in failed
  /\ DownIsTrue

\* Telegram is reported as down only if every route failed when it was last
\* tried: one route that works is enough, whichever client found out.
THEOREM DownTruth == Spec => []DownIsTrue
<1>1. Init => DownInv
  BY DEF Init, DownInv, DownIsTrue
<1>2. Inv /\ DownInv /\ Next => DownInv'
  <2> SUFFICES ASSUME Inv, DownInv, Next PROVE DownInv'
    OBVIOUS
  <2>1. TypeInv
    BY DEF Inv
  <2>2. CASE UNCHANGED <<cool, failed, telegram>>
    BY <2>2 DEF DownInv, DownIsTrue
  <2>3. ASSUME NEW c \in Clients, Succeed(c) PROVE DownInv'
    <3>1. request[c].route \in Routes
      BY <2>1, <2>3 DEF Succeed, Busy, TypeInv, Routes
    <3> DEFINE r == request[c].route
    <3>2. /\ cool' = [cool EXCEPT ![r] = 0]
          /\ failed' = failed \ {r}
          /\ telegram' = Reported(c, cool')
      BY <2>3 DEF Succeed, MarkSuccess
    <3> HIDE DEF r
    <3>3. cool'[r] = 0 /\ r \in Routes
      BY <2>1, <3>1, <3>2 DEF TypeInv, r
    <3>4. telegram' # "down"
      BY <3>2, <3>3 DEF Reported, Report
    <3>5. \A s \in Routes : cool'[s] > 0 => s \in failed'
      BY <2>1, <3>2, <3>3 DEF DownInv, TypeInv
    <3> QED BY <3>2, <3>4, <3>5 DEF DownInv, DownIsTrue
  <2>4. ASSUME NEW c \in Clients, MarkFailure(request[c].route), Busy(c) PROVE DownInv'
    <3>1. request[c].route \in Routes
      BY <2>1, <2>4 DEF Busy, TypeInv, Routes
    <3> DEFINE r == request[c].route
    <3>2. /\ cool' = [cool EXCEPT ![r] = Cooldown]
          /\ failed' = failed \cup {r}
          /\ telegram' = Report(cool')
      BY <2>4 DEF MarkFailure
    <3>3. r \in Routes
      BY <3>1
    <3> HIDE DEF r
    <3>4. \A s \in Routes : cool'[s] > 0 => s \in failed'
      BY <2>1, <3>2, <3>3 DEF DownInv, TypeInv
    <3>5. telegram' = "down" => \A s \in Routes : cool'[s] > 0
      BY <3>2 DEF Report
    <3> QED BY <3>2, <3>3, <3>4, <3>5 DEF DownInv, DownIsTrue
  <2>5. ASSUME NEW c \in Clients, Fail(c) PROVE DownInv'
    <3>1. Busy(c) /\ (UNCHANGED routing \/ MarkFailure(request[c].route))
      BY <2>5 DEF Fail
    <3> QED BY <2>2, <2>4, <3>1 DEF routing
  <2>6. CASE Tick
    <3>1. \A r \in Routes : cool'[r] > 0 => cool[r] > 0
      BY <2>1, <2>6 DEF Tick, TypeInv
    <3>2. UNCHANGED <<failed, telegram>>
      BY <2>6 DEF Tick
    <3> QED BY <3>1, <3>2 DEF DownInv, DownIsTrue
  <2> QED BY <2>2, <2>3, <2>5, <2>6
          DEF Next, Attempt, Ask, Refuse, Wake, Signal, Close, RouteDown, RouteUp, routing, vars
<1>3. DownInv /\ UNCHANGED vars => DownInv'
  BY DEF DownInv, DownIsTrue, vars
<1>4. DownInv => DownIsTrue
  BY DEF DownInv
<1> QED BY <1>1, <1>2, <1>3, <1>4, SpecInv, PTL DEF Spec

-----------------------------------------------------------------------------
(* The client of HeadHunter *)

USE ClientAssumption

\* Everything but the queue for the lock, which the properties do not need.
Calls == [at : Steps, token : Nat, try : Nat, round : {0, 1}, dead : SUBSET Nat]

CallsInv ==
  /\ issued \in Nat
  /\ cached \in Nat
  /\ valid \subseteq 1..issued
  /\ received \subseteq 1..issued
  /\ call \in [Callers -> Calls]

\* Steps between taking the lock and handing it on.
HoldingSteps == {"locked", "post", "answer"}

\* The token that works, if the client has one, is the cached one; while one is
\* fetched there is none, and the one on its way is new.
TokenInv ==
  /\ \A c \in Callers : call[c].at \in HoldingSteps => lock = c
  /\ \A c \in Callers : call[c].at \in {"post", "answer"} => cached = 0
  /\ received \cap valid \subseteq {cached}
  /\ cached # 0 => cached \in received
  /\ \A c \in Callers : call[c].at = "answer" => call[c].token \in (1..issued) \ received
  /\ \A c \in Callers : call[c].at = "get" => call[c].token \in received

\* A call that has sent its request, or is about to send it again, will meet no
\* other token that was revoked before it began.
Met(c) == call[c].at = "get" \/ call[c].round = 1

DeadTokens(c) ==
  /\ call[c].dead \subseteq (1..issued) \ valid
  /\ Met(c) =>
       /\ cached \in call[c].dead => call[c].round = 0 /\ call[c].token = cached
       /\ \A q \in Callers : call[q].at = "answer" => call[q].token \notin call[c].dead
  /\ call[c].at = "get" /\ call[c].round = 1 => call[c].token \notin call[c].dead

StaleInv == \A c \in Callers : DeadTokens(c)

ClientInv == CallsInv /\ TokenInv /\ StaleInv

LEMMA InitClient == ClientInit => ClientInv
BY DEF ClientInit, ClientInv, CallsInv, TokenInv, StaleInv, DeadTokens, Met, Calls, Idle,
       Steps, HoldingSteps

\* The step of one call leaves the others where they are.
LEMMA OthersStay ==
  ASSUME CallsInv, NEW c \in Callers, NEW s, Become(c, s)
  PROVE  call'[c] = s /\ \A q \in Callers : q # c => call'[q] = call[q]
BY DEF Become, CallsInv

\* The fields of a call that goes on.
LEMMA Fields ==
  ASSUME CallsInv, NEW c \in Callers, NEW at, NEW token, NEW try, NEW round
  PROVE  /\ LET s == Asking(c, token)
            IN s.at = "get" /\ s.token = token
                 /\ s.round = call[c].round /\ s.dead = call[c].dead
         /\ LET s == [call[c] EXCEPT !.at = at]
            IN s.at = at /\ s.token = call[c].token
                 /\ s.round = call[c].round /\ s.dead = call[c].dead
         /\ LET s == [call[c] EXCEPT !.at = at, !.try = try]
            IN s.at = at /\ s.token = call[c].token
                 /\ s.round = call[c].round /\ s.dead = call[c].dead
         /\ LET s == [call[c] EXCEPT !.at = at, !.round = round]
            IN s.at = at /\ s.token = call[c].token
                 /\ s.round = round /\ s.dead = call[c].dead
<1>1. call[c] \in Calls
  BY DEF CallsInv
<1> QED BY <1>1 DEF Calls, Asking

LEMMA CallsStep == ClientInv /\ ClientNext => CallsInv'
<1> SUFFICES ASSUME ClientInv, ClientNext PROVE CallsInv'
  OBVIOUS
<1>t. CallsInv /\ 1..issued \subseteq Nat
  BY DEF ClientInv, CallsInv
\* The state a call is left in has its type.
<1>c. ASSUME NEW c \in Callers, NEW s \in Calls, Become(c, s)
      PROVE  call' \in [Callers -> Calls]
  BY <1>t, <1>c DEF Become, CallsInv
<1>i. \A c \in Callers : call[c] \in Calls
  BY <1>t DEF CallsInv
<1>a. \A c \in Callers, token \in Nat : Asking(c, token) \in Calls
  BY <1>i DEF Asking, Calls, Steps
<1>n. Idle \in Calls
  BY DEF Idle, Calls, Steps
<1>p. \A c \in Callers, at \in Steps, try \in Nat, round \in {0, 1} :
        /\ [call[c] EXCEPT !.at = at] \in Calls
        /\ [call[c] EXCEPT !.at = at, !.try = try] \in Calls
        /\ [call[c] EXCEPT !.try = try] \in Calls
        /\ [call[c] EXCEPT !.at = at, !.round = round] \in Calls
  BY <1>i DEF Calls
<1>1. ASSUME NEW c \in Callers, Call(c) PROVE CallsInv'
  <2>1. [Idle EXCEPT !.at = "token", !.dead = (1..issued) \ valid] \in Calls
    BY <1>t DEF Idle, Calls, Steps
  <2> QED BY <1>t, <1>1, <1>c, <2>1 DEF Call, server, CallsInv
<1>2. ASSUME NEW c \in Callers, GetToken(c) PROVE CallsInv'
  <2>1. "queued" \in Steps /\ cached \in Nat
    BY <1>t DEF Steps, CallsInv
  <2>2. call' \in [Callers -> Calls]
    BY <1>2, <1>c, <1>a, <1>p, <2>1 DEF GetToken
  <2> QED BY <1>t, <1>2, <2>2 DEF GetToken, server, CallsInv
<1>3. ASSUME NEW c \in Callers, TakeLock(c) PROVE CallsInv'
  <2>1. "locked" \in Steps
    BY DEF Steps
  <2> QED BY <1>t, <1>3, <1>c, <1>p, <2>1 DEF TakeLock, server, CallsInv
<1>4. ASSUME NEW c \in Callers, Recheck(c) PROVE CallsInv'
  <2>1. "post" \in Steps /\ cached \in Nat /\ 1 \in Nat
    BY <1>t DEF Steps, CallsInv
  <2>2. call' \in [Callers -> Calls]
    <3>1. CASE Renewed
      BY <1>4, <1>c, <1>a, <2>1, <3>1 DEF Recheck
    <3>2. CASE ~Renewed
      BY <1>4, <1>c, <1>p, <2>1, <3>2 DEF Recheck
    <3> QED BY <3>1, <3>2
  <2> QED BY <1>t, <1>4, <2>2 DEF Recheck, server, CallsInv
<1>5. ASSUME NEW c \in Callers, Issue(c) PROVE CallsInv'
  <2>1. [call[c] EXCEPT !.at = "answer", !.token = issued'] \in Calls
    <3>1. issued' \in Nat
      BY <1>t, <1>5 DEF Issue, CallsInv
    <3> QED BY <3>1, <1>i DEF Calls, Steps
  <2>2. call' \in [Callers -> Calls]
    BY <1>5, <1>c, <2>1 DEF Issue
  <2>3. /\ issued' = issued + 1 /\ issued' \in Nat /\ issued' \in 1..issued'
        /\ 1..issued \subseteq 1..issued'
    BY <1>t, <1>5 DEF Issue, CallsInv
  <2>4. valid' \subseteq 1..issued'
    BY <1>t, <1>5, <2>3 DEF Issue, CallsInv
  <2> QED BY <1>t, <1>5, <2>2, <2>3, <2>4 DEF Issue, CallsInv
<1>6. ASSUME NEW c \in Callers, TokenArrives(c) PROVE CallsInv'
  <2>1. call[c].token \in 1..issued
    BY <1>6 DEF TokenArrives, ClientInv, TokenInv
  <2>2. call' \in [Callers -> Calls]
    BY <1>t, <1>6, <1>c, <1>a, <2>1 DEF TokenArrives
  <2> QED BY <1>t, <1>6, <2>1, <2>2 DEF TokenArrives, server, CallsInv
<1>7. ASSUME NEW c \in Callers, TokenRefused(c) PROVE CallsInv'
  BY <1>t, <1>7, <1>c, <1>n DEF TokenRefused, GiveUp, server, CallsInv
<1>8. ASSUME NEW c \in Callers, TokenFails(c) PROVE CallsInv'
  <2>1. "post" \in Steps /\ call[c].try + 1 \in Nat
    BY <1>i DEF Calls, Steps
  <2>2. call' \in [Callers -> Calls]
    BY <1>8, <1>c, <1>n, <1>p, <2>1 DEF TokenFails, GiveUp
  <2> QED BY <1>t, <1>8, <2>2 DEF TokenFails, server, CallsInv
<1>9. ASSUME NEW c \in Callers, Answered(c) PROVE CallsInv'
  BY <1>t, <1>9, <1>c, <1>n DEF Answered, server, CallsInv
<1>10. ASSUME NEW c \in Callers, Unauthorized(c) PROVE CallsInv'
  <2>1. "token" \in Steps
    BY DEF Steps
  <2>2. call' \in [Callers -> Calls]
    BY <1>10, <1>c, <1>n, <1>p, <2>1 DEF Unauthorized
  <2>3. cached' \in Nat
    BY <1>t, <1>10 DEF Unauthorized, Drop, CallsInv
  <2> QED BY <1>t, <1>10, <2>2, <2>3 DEF Unauthorized, server, CallsInv
<1>11. ASSUME NEW c \in Callers, RequestFails(c) PROVE CallsInv'
  <2>1. call[c].try + 1 \in Nat
    BY <1>i DEF Calls
  <2>2. PICK failure \in Failures :
          Become(c, IF Repeats(c, TRUE, failure)
                    THEN [call[c] EXCEPT !.try = @ + 1] ELSE Idle)
    BY <1>11 DEF RequestFails
  <2>3. call' \in [Callers -> Calls]
    <3>1. CASE Repeats(c, TRUE, failure)
      <4>1. [call[c] EXCEPT !.try = @ + 1] \in Calls
        BY <1>i, <2>1 DEF Calls
      <4> QED BY <1>c, <2>2, <3>1, <4>1
    <3>2. CASE ~Repeats(c, TRUE, failure)
      BY <1>c, <1>n, <2>2, <3>2
    <3> QED BY <3>1, <3>2
  <2> QED BY <1>t, <1>11, <2>3 DEF RequestFails, server, CallsInv
<1>12. CASE Revoke
  BY <1>t, <1>12 DEF Revoke, CallsInv
<1> QED BY <1>1, <1>2, <1>3, <1>4, <1>5, <1>6, <1>7, <1>8, <1>9, <1>10, <1>11, <1>12
        DEF ClientNext, Proceed

LEMMA TokenStep ==
  ASSUME ClientInv, ClientNext
  PROVE  TokenInv'
<1> SUFFICES ASSUME ClientInv, ClientNext PROVE TokenInv'
  OBVIOUS
<1> USE DEF ClientInv, CallsInv, Calls, Steps, Become, Idle,
            Asking, TokenInv, HoldingSteps
<1>1. ASSUME NEW c \in Callers, Call(c) PROVE TokenInv'
  BY <1>1 DEF Call, server
<1>2. ASSUME NEW c \in Callers, GetToken(c) PROVE TokenInv'
  <2>1. UNCHANGED <<cached, issued, valid, received, lock>>
    BY <1>2 DEF GetToken, server
  <2>2. CASE cached # 0
    <3>0. call'[c] = Asking(c, cached)
      BY <1>2, <2>2 DEF GetToken
    <3>1. /\ call'[c].at = "get" /\ call'[c].token = cached
          /\ call'[c].round = call[c].round /\ call'[c].dead = call[c].dead
      BY ONLY <3>0, Fields, ClientInv, c \in Callers DEF ClientInv
    <3>2. \A q \in Callers : q # c => call'[q] = call[q]
      BY <1>2, <2>2 DEF GetToken
    <3> QED BY <1>2, <2>1, <2>2, <3>0, <3>1, <3>2 DEF GetToken
  <2>3. CASE cached = 0
    <3>0. call'[c] = [call[c] EXCEPT !.at = "queued"]
      BY <1>2, <2>3 DEF GetToken
    <3>1. /\ call'[c].at = "queued" /\ call'[c].token = call[c].token
          /\ call'[c].round = call[c].round /\ call'[c].dead = call[c].dead
      BY ONLY <3>0, Fields, ClientInv, c \in Callers DEF ClientInv
    <3>2. \A q \in Callers : q # c => call'[q] = call[q]
      BY <1>2, <2>3 DEF GetToken
    <3> QED BY <1>2, <2>1, <2>3, <3>0, <3>1, <3>2 DEF GetToken
  <2> QED BY <2>2, <2>3
<1>3. ASSUME NEW c \in Callers, TakeLock(c) PROVE TokenInv'
  <2>1. /\ lock = None /\ lock' = c /\ UNCHANGED <<cached, issued, valid, received>>
        /\ call[c].at = "queued"
    BY <1>3 DEF TakeLock, Free, server
  <2>2. /\ call'[c] = [call[c] EXCEPT !.at = "locked"]
        /\ \A q \in Callers : q # c => call'[q] = call[q]
    BY <1>3 DEF TakeLock
  <2>3. call'[c].at = "locked"
    BY ONLY <2>2, Fields, ClientInv, c \in Callers DEF ClientInv
  <2>4. \A q \in Callers : call[q].at \notin HoldingSteps
    BY <2>1
  <2> QED BY <2>1, <2>2, <2>3, <2>4
<1>4. ASSUME NEW c \in Callers, Recheck(c) PROVE TokenInv'
  <2>1. call[c].at = "locked" /\ UNCHANGED <<cached, issued, valid, received>>
    BY <1>4 DEF Recheck, server
  <2>2. CASE Renewed
    <3>0. /\ call'[c] = Asking(c, cached)
          /\ \A q \in Callers : q # c => call'[q] = call[q]
      BY <1>4, <2>2 DEF Recheck
    <3>1. /\ call'[c].at = "get" /\ call'[c].token = cached
          /\ call'[c].round = call[c].round /\ call'[c].dead = call[c].dead
      BY ONLY <3>0, Fields, ClientInv, c \in Callers DEF ClientInv
    <3> QED BY <2>1, <2>2, <3>0, <3>1 DEF Renewed
  <2>3. CASE ~Renewed
    <3>0. /\ call'[c] = [call[c] EXCEPT !.at = "post", !.try = 1]
          /\ \A q \in Callers : q # c => call'[q] = call[q]
          /\ UNCHANGED lock
      BY <1>4, <2>3 DEF Recheck
    <3>1. /\ call'[c].at = "post" /\ call'[c].token = call[c].token
          /\ call'[c].round = call[c].round /\ call'[c].dead = call[c].dead
      BY ONLY <3>0, Fields, ClientInv, c \in Callers DEF ClientInv
    <3> QED BY <2>1, <2>3, <3>0, <3>1 DEF Renewed
  <2> QED BY <2>2, <2>3
<1>5. ASSUME NEW c \in Callers, Issue(c) PROVE TokenInv'
  BY <1>5 DEF Issue
<1>6. ASSUME NEW c \in Callers, TokenArrives(c) PROVE TokenInv'
  BY <1>6 DEF TokenArrives, Release, server
<1>7. ASSUME NEW c \in Callers, TokenRefused(c) PROVE TokenInv'
  BY <1>7 DEF TokenRefused, GiveUp, Release, server
<1>8. ASSUME NEW c \in Callers, TokenFails(c) PROVE TokenInv'
  <2>1. call[c].at \in {"post", "answer"} /\ UNCHANGED <<cached, issued, valid, received>>
    BY <1>8 DEF TokenFails, server
  <2>2. CASE Become(c, [call[c] EXCEPT !.at = "post", !.try = @ + 1]) /\ UNCHANGED lock
    <3>1. /\ call'[c] = [call[c] EXCEPT !.at = "post", !.try = @ + 1]
          /\ \A q \in Callers : q # c => call'[q] = call[q]
      BY <2>2
    <3> QED BY <2>1, <2>2, <3>1
  <2>3. CASE GiveUp(c)
    <3>1. /\ call'[c] = Idle
          /\ \A q \in Callers : q # c => call'[q] = call[q]
      BY <2>3 DEF GiveUp
    <3> QED BY <2>1, <2>3, <3>1 DEF GiveUp, Release
  <2> QED BY <1>8, <2>2, <2>3 DEF TokenFails
<1>9. ASSUME NEW c \in Callers, Answered(c) PROVE TokenInv'
  BY <1>9 DEF Answered, server
<1>10. ASSUME NEW c \in Callers, Unauthorized(c) PROVE TokenInv'
  <2>1. /\ call[c].at = "get" /\ call[c].token \notin valid
        /\ UNCHANGED <<issued, valid, received, lock>>
    BY <1>10 DEF Unauthorized, server
  <2>2. CASE call[c].round = 0
    <3>0. /\ call'[c] = [call[c] EXCEPT !.at = "token", !.round = 1]
          /\ \A q \in Callers : q # c => call'[q] = call[q]
      BY <1>10, <2>2 DEF Unauthorized
    <3>1. /\ call'[c].at = "token" /\ call'[c].token = call[c].token
          /\ call'[c].round = 1 /\ call'[c].dead = call[c].dead
      BY ONLY <3>0, Fields, ClientInv, c \in Callers DEF ClientInv
    <3>2. cached' = IF cached = call[c].token THEN 0 ELSE cached
      BY <1>10, <2>2 DEF Unauthorized, Drop
    <3> QED BY <2>1, <2>2, <3>0, <3>1, <3>2
  <2>3. CASE call[c].round = 1
    <3>1. /\ call'[c] = Idle
          /\ \A q \in Callers : q # c => call'[q] = call[q]
          /\ UNCHANGED cached
      BY <1>10, <2>3 DEF Unauthorized
    <3> QED BY <2>1, <2>3, <3>1
  <2> QED BY <2>2, <2>3
<1>11. ASSUME NEW c \in Callers, RequestFails(c) PROVE TokenInv'
  <2>1. call[c].at = "get" /\ UNCHANGED <<cached, issued, valid, received, lock>>
    BY <1>11 DEF RequestFails, server
  <2>2. /\ call'[c] = [call[c] EXCEPT !.try = @ + 1] \/ call'[c] = Idle
        /\ \A q \in Callers : q # c => call'[q] = call[q]
    BY <1>11 DEF RequestFails
  <2>3. CASE call'[c] = [call[c] EXCEPT !.try = @ + 1]
    BY <2>1, <2>2, <2>3
  <2>4. CASE call'[c] = Idle
    BY <2>1, <2>2, <2>4
  <2> QED BY <2>2, <2>3, <2>4
<1>12. CASE Revoke
  BY <1>12 DEF Revoke
<1> QED BY <1>1, <1>2, <1>3, <1>4, <1>5, <1>6, <1>7, <1>8, <1>9, <1>10, <1>11, <1>12
        DEF ClientNext, Proceed

\* A step that brings no token leaves the calls of the others as they are.
LEMMA OthersKeepTheirDead ==
  ASSUME ClientInv, NEW c \in Callers, call'[c].at # "answer",
         \A q \in Callers : q # c => call'[q] = call[q],
         UNCHANGED <<issued, valid>>, cached' \in {0, cached},
         NEW d \in Callers, d # c
  PROVE  DeadTokens(d)'
<1>1. call'[d] = call[d] /\ DeadTokens(d)
  BY DEF ClientInv, StaleInv
<1>2. \A q \in Callers : call'[q].at = "answer" => call'[q] = call[q]
  OBVIOUS
<1>3. 0 \notin call[d].dead
  BY <1>1 DEF DeadTokens, ClientInv, CallsInv
<1> QED BY <1>1, <1>2, <1>3 DEF DeadTokens, Met

LEMMA StaleStep == ClientInv /\ ClientNext => StaleInv'
<1> SUFFICES ASSUME ClientInv, ClientNext PROVE StaleInv'
  OBVIOUS
<1> USE DEF ClientInv, CallsInv, Calls, Steps, Become, Idle, Asking,
            TokenInv, HoldingSteps, StaleInv, DeadTokens, Met
<1>1. ASSUME NEW c \in Callers, Call(c) PROVE StaleInv'
  BY <1>1 DEF Call, server
<1>2. ASSUME NEW c \in Callers, GetToken(c) PROVE StaleInv'
  <2>1. UNCHANGED <<cached, issued, valid, received, lock>>
    BY <1>2 DEF GetToken, server
  <2>2. CASE cached # 0
    <3>0. call'[c] = Asking(c, cached)
      BY <1>2, <2>2 DEF GetToken
    <3>1. /\ call'[c].at = "get" /\ call'[c].token = cached
          /\ call'[c].round = call[c].round /\ call'[c].dead = call[c].dead
      BY ONLY <3>0, Fields, ClientInv, c \in Callers DEF ClientInv
    <3>2. \A q \in Callers : q # c => call'[q] = call[q]
      BY <1>2, <2>2 DEF GetToken
    <3>9. DeadTokens(c)'
      BY <2>1, <2>2, <3>1, <3>2
    <3> QED BY <2>1, <3>1, <3>2, <3>9, OthersKeepTheirDead
  <2>3. CASE cached = 0
    <3>0. call'[c] = [call[c] EXCEPT !.at = "queued"]
      BY <1>2, <2>3 DEF GetToken
    <3>1. /\ call'[c].at = "queued" /\ call'[c].token = call[c].token
          /\ call'[c].round = call[c].round /\ call'[c].dead = call[c].dead
      BY ONLY <3>0, Fields, ClientInv, c \in Callers DEF ClientInv
    <3>2. \A q \in Callers : q # c => call'[q] = call[q]
      BY <1>2, <2>3 DEF GetToken
    <3>3. DeadTokens(c) /\ 0 \notin call[c].dead
      BY ONLY ClientInv, c \in Callers DEF ClientInv, CallsInv, Calls, StaleInv, DeadTokens
    <3>9. DeadTokens(c)'
      BY ONLY <2>1, <2>3, <3>1, <3>2, <3>3 DEF DeadTokens, Met
    <3> QED BY <2>1, <3>1, <3>2, <3>9, OthersKeepTheirDead
  <2> QED BY <2>2, <2>3
<1>3. ASSUME NEW c \in Callers, TakeLock(c) PROVE StaleInv'
  BY <1>3 DEF TakeLock, server
<1>4. ASSUME NEW c \in Callers, Recheck(c) PROVE StaleInv'
  <2>1. call[c].at = "locked" /\ UNCHANGED <<cached, issued, valid, received>>
    BY <1>4 DEF Recheck, server
  <2>2. CASE Renewed
    <3>0. /\ call'[c] = Asking(c, cached)
          /\ \A q \in Callers : q # c => call'[q] = call[q]
      BY <1>4, <2>2 DEF Recheck
    <3>1. /\ call'[c].at = "get" /\ call'[c].token = cached
          /\ call'[c].round = call[c].round /\ call'[c].dead = call[c].dead
      BY ONLY <3>0, Fields, ClientInv, c \in Callers DEF ClientInv
    <3>2. \A q \in Callers : call[q].at # "answer" /\ call'[q].at # "answer"
      <4>1. \A q \in Callers : call[q].at # "answer"
        BY ONLY <2>1, ClientInv, c \in Callers DEF ClientInv, TokenInv, HoldingSteps
      <4> QED BY ONLY <3>0, <3>1, <4>1
    <3>3. DeadTokens(c) /\ (call[c].round = 1 => Met(c)) /\ call[c].round \in {0, 1}
      BY ONLY ClientInv, c \in Callers DEF ClientInv, StaleInv, Met, CallsInv, Calls
    <3>9. DeadTokens(c)'
      BY ONLY <2>1, <3>1, <3>2, <3>3 DEF DeadTokens, Met
    <3> QED BY <2>1, <3>0, <3>1, <3>9, OthersKeepTheirDead
  <2>3. CASE ~Renewed
    <3>0. /\ call'[c] = [call[c] EXCEPT !.at = "post", !.try = 1]
          /\ \A q \in Callers : q # c => call'[q] = call[q]
          /\ UNCHANGED lock
      BY <1>4, <2>3 DEF Recheck
    <3>1. /\ call'[c].at = "post" /\ call'[c].token = call[c].token
          /\ call'[c].round = call[c].round /\ call'[c].dead = call[c].dead
      BY ONLY <3>0, Fields, ClientInv, c \in Callers DEF ClientInv
    <3>3. DeadTokens(c) /\ 0 \notin call[c].dead /\ cached = 0
      BY ONLY <2>3, ClientInv, c \in Callers
         DEF ClientInv, CallsInv, Calls, StaleInv, DeadTokens, Renewed
    <3>9. DeadTokens(c)'
      BY ONLY <2>1, <3>0, <3>1, <3>3 DEF DeadTokens, Met
    <3> QED BY <2>1, <3>0, <3>1, <3>9, OthersKeepTheirDead
  <2> QED BY <2>2, <2>3
<1>5. ASSUME NEW c \in Callers, Issue(c) PROVE StaleInv'
  BY <1>5 DEF Issue
<1>6. ASSUME NEW c \in Callers, TokenArrives(c) PROVE StaleInv'
  BY <1>6 DEF TokenArrives, server
<1>7. ASSUME NEW c \in Callers, TokenRefused(c) PROVE StaleInv'
  BY <1>7 DEF TokenRefused, GiveUp, server
<1>8. ASSUME NEW c \in Callers, TokenFails(c) PROVE StaleInv'
  <2>1. call[c].at \in {"post", "answer"} /\ UNCHANGED <<cached, issued, valid, received>>
    BY <1>8 DEF TokenFails, server
  <2>2. CASE Become(c, [call[c] EXCEPT !.at = "post", !.try = @ + 1]) /\ UNCHANGED lock
    <3>1. /\ call'[c] = [call[c] EXCEPT !.at = "post", !.try = @ + 1]
          /\ \A q \in Callers : q # c => call'[q] = call[q]
      BY <2>2
    <3> QED BY <2>1, <2>2, <3>1
  <2>3. CASE GiveUp(c)
    <3>1. /\ call'[c] = Idle
          /\ \A q \in Callers : q # c => call'[q] = call[q]
      BY <2>3 DEF GiveUp
    <3> QED BY <2>1, <2>3, <3>1 DEF GiveUp, Release
  <2> QED BY <1>8, <2>2, <2>3 DEF TokenFails
<1>9. ASSUME NEW c \in Callers, Answered(c) PROVE StaleInv'
  BY <1>9 DEF Answered, server
<1>10. ASSUME NEW c \in Callers, Unauthorized(c) PROVE StaleInv'
  <2>1. /\ call[c].at = "get" /\ call[c].token \notin valid
        /\ UNCHANGED <<issued, valid, received, lock>>
    BY <1>10 DEF Unauthorized, server
  <2>2. CASE call[c].round = 0
    <3>0. /\ call'[c] = [call[c] EXCEPT !.at = "token", !.round = 1]
          /\ \A q \in Callers : q # c => call'[q] = call[q]
      BY <1>10, <2>2 DEF Unauthorized
    <3>1. /\ call'[c].at = "token" /\ call'[c].token = call[c].token
          /\ call'[c].round = 1 /\ call'[c].dead = call[c].dead
      BY ONLY <3>0, Fields, ClientInv, c \in Callers DEF ClientInv
    <3>2. cached' = IF cached = call[c].token THEN 0 ELSE cached
      BY <1>10, <2>2 DEF Unauthorized, Drop
    <3>3. DeadTokens(c) /\ Met(c) /\ 0 \notin call[c].dead
      BY ONLY <2>1, ClientInv, c \in Callers DEF ClientInv, StaleInv, DeadTokens, Met, CallsInv
    <3>4. \A q \in Callers : call'[q].at = "answer" => call'[q] = call[q]
      BY <3>0, <3>1
    <3>9. DeadTokens(c)'
      BY ONLY <2>1, <3>1, <3>2, <3>3, <3>4 DEF DeadTokens, Met
    <3> QED BY <2>1, <3>0, <3>1, <3>2, <3>9, OthersKeepTheirDead
  <2>3. CASE call[c].round = 1
    <3>1. /\ call'[c] = Idle
          /\ \A q \in Callers : q # c => call'[q] = call[q]
          /\ UNCHANGED cached
      BY <1>10, <2>3 DEF Unauthorized
    <3> QED BY <2>1, <2>3, <3>1
  <2> QED BY <2>2, <2>3
<1>11. ASSUME NEW c \in Callers, RequestFails(c) PROVE StaleInv'
  <2>1. call[c].at = "get" /\ UNCHANGED <<cached, issued, valid, received, lock>>
    BY <1>11 DEF RequestFails, server
  <2>2. /\ call'[c] = [call[c] EXCEPT !.try = @ + 1] \/ call'[c] = Idle
        /\ \A q \in Callers : q # c => call'[q] = call[q]
    BY <1>11 DEF RequestFails
  <2>3. CASE call'[c] = [call[c] EXCEPT !.try = @ + 1]
    BY <2>1, <2>2, <2>3
  <2>4. CASE call'[c] = Idle
    BY <2>1, <2>2, <2>4
  <2> QED BY <2>2, <2>3, <2>4
<1>12. CASE Revoke
  BY <1>12 DEF Revoke
<1> QED BY <1>1, <1>2, <1>3, <1>4, <1>5, <1>6, <1>7, <1>8, <1>9, <1>10, <1>11, <1>12
        DEF ClientNext, Proceed

LEMMA StutterClient == ClientInv /\ UNCHANGED clientVars => ClientInv'
BY DEF ClientInv, CallsInv, TokenInv, StaleInv, DeadTokens, Met, clientVars, server

LEMMA ClientInvariant == ClientSpec => []ClientInv
<1>1. ClientInv /\ [ClientNext]_clientVars => ClientInv'
  BY CallsStep, TokenStep, StaleStep, StutterClient DEF ClientInv
<1> QED BY <1>1, InitClient, PTL DEF ClientSpec

\* While a token is being fetched, none of those the client was given works:
\* the one that does is the cached one, and nobody asks while there is one.
THEOREM NoTokenIsWasted == ClientSpec => []TokensAreNotWasted
<1>1. ClientInv => TokensAreNotWasted
  BY DEF ClientInv, CallsInv, TokenInv, TokensAreNotWasted
<1> QED BY <1>1, ClientInvariant, PTL

\* A call that is refused twice was refused the second time with a token that
\* HeadHunter revoked after the call began.
THEOREM StaleTokenIsSurvived == ClientSpec => OneStaleTokenIsSurvived
<1> DEFINE A == \A c \in Callers : Unauthorized(c) /\ call'[c].at = "idle"
                                    => call[c].token \notin call[c].dead
<1>1. ClientInv => A
  <2> SUFFICES ASSUME ClientInv, NEW c \in Callers, Unauthorized(c), call'[c].at = "idle"
      PROVE  call[c].token \notin call[c].dead
    OBVIOUS
  <2>1. call[c].at = "get" /\ call[c].round = 1
    BY DEF Unauthorized, Become, ClientInv, CallsInv, Calls
  <2> QED BY <2>1 DEF ClientInv, StaleInv, DeadTokens
<1>2. ClientInv /\ [ClientNext]_clientVars => [A]_clientVars
  BY <1>1
<1> QED BY <1>2, ClientInvariant, PTL DEF OneStaleTokenIsSurvived, ClientSpec
=============================================================================
