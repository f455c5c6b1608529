--------------------------- MODULE TelegramTransport ---------------------------
(***************************************************************************)
(* The routes to Telegram: the failover session that every request goes    *)
(* through, the bootstrap and the long polling of the main task, the       *)
(* handlers that send messages beside it, shutdown, and what the health    *)
(* registry says of it.                                                    *)
(*                                                                         *)
(* Modelled from app/network/telegram.py, app/main.py and app/health.py.   *)
(* A request is suspended only while a route works for it: the state lock  *)
(* is never held across an await, so marking a route and reporting it are  *)
(* one step.  What a route does is the environment's: it goes down and     *)
(* comes back, and an attempt that fails may have been carried out.  A     *)
(* cooldown counts down, 0 being unavailable_until in the past.            *)
(* stream_content has no caller.                                           *)
(***************************************************************************)
EXTENDS Naturals, FiniteSets

CONSTANTS
  RouteCount,   \* direct first, then the proxies, in the order of preference
  Handlers,     \* handlers, jobs and callbacks that send and edit messages
  Main,         \* the main task: bootstrap, then long polling
  Cooldown,     \* telegram_route_cooldown_seconds, in ticks
  MaxTroubles   \* bound: outages of routes and errors that Telegram answers

ASSUME TransportAssumption ==
  /\ RouteCount \in Nat \ {0}
  /\ Main \notin Handlers
  /\ Cooldown \in Nat \ {0}
  /\ MaxTroubles \in Nat

Routes == 1..RouteCount
Clients == Handlers \cup {Main}

VARIABLES
  up,        \* the routes that work
  troubles,  \* outages and errors so far
  cool,      \* what is left of unavailable_until
  active,    \* _active_index
  closing,   \* _closing
  phase,     \* where the main task is
  telegram,  \* the component's status in the health registry
  request,   \* the request of each client
  failed,    \* the routes whose last attempt failed
  steady     \* the routes that worked throughout the main task's request

environment == <<up, troubles>>
routing == <<cool, active, telegram, failed>>
vars == <<up, troubles, cool, active, closing, phase, telegram, request, failed, steady>>

\* set_my_commands, delete_webhook, the sleep between two tries, start_polling
\* with aiogram's getMe and its polling, and the finally block before and after
\* it closed the session.
Phases ==
  {"commands", "webhook", "backoff", "get_me", "polling", "stopping", "stopped"}

\* A request waits for a route; left are those of its order that it may still
\* try, with the cooldowns seen when it began.
NoRequest == [route |-> 0, left |-> {}, seen |-> [r \in Routes |-> 0]]

Busy(c) == request[c].route # 0

-----------------------------------------------------------------------------
(* Choosing and marking routes *)

\* _route_order: the routes not cooling down, and all of them if there is none.
RouteOrder(cooling) ==
  LET healthy == {r \in Routes : cooling[r] = 0}
  IN IF healthy = {} THEN Routes ELSE healthy

\* The order itself: by unavailable_until, then by preference.
Before(cooling, r, s) ==
  \/ cooling[r] < cooling[s]
  \/ cooling[r] = cooling[s] /\ r <= s

First(routes, cooling) ==
  CHOOSE r \in routes : \A s \in routes : Before(cooling, r, s)

\* update_telegram_health.
Report(cooling) ==
  IF \A r \in Routes : cooling[r] > 0 THEN "down"
  ELSE IF \E r \in Routes : cooling[r] > 0 THEN "degraded" ELSE "ok"

MarkSuccess(r) ==
  /\ cool' = [cool EXCEPT ![r] = 0]
  /\ active' = r
  /\ failed' = failed \ {r}

\* Fault: the active route is left alone.
ActiveKept(r) ==
  /\ cool' = [cool EXCEPT ![r] = Cooldown]
  /\ active' = active
  /\ failed' = failed \cup {r}
  /\ telegram' = Report(cool')

MarkFailure(r) ==
  /\ cool' = [cool EXCEPT ![r] = Cooldown]
  /\ active' = First(RouteOrder(cool'), cool')
  /\ failed' = failed \cup {r}
  /\ telegram' = Report(cool')

-----------------------------------------------------------------------------
(* Requests *)

\* The main task asks while it bootstraps and while it polls, one request at a
\* time; the callback server and the handlers send until the session is closed.
MayAsk(c) ==
  IF c = Main THEN phase \in {"commands", "webhook", "get_me", "polling"}
  ELSE phase # "stopped"

\* Fault: a request does not look at the shutdown when it begins.
AlwaysRunning == TRUE

\* _ensure_running.
Running == ~closing

\* Faults: every method is tried on the next route, or none is.
RetriesEverything(c) == TRUE
RetriesNothing(c) == FALSE

\* SAFE_RETRY_METHODS: what the main task asks for may be repeated, a message
\* that a handler sends may not.
MayRetry(c) == c = Main

\* make_request, up to its first attempt.
Ask(c) ==
  /\ ~Busy(c)
  /\ MayAsk(c)
  /\ Running
  /\ LET order == RouteOrder(cool)
         first == First(order, cool)
         left == IF MayRetry(c) THEN order \ {first} ELSE {}
     IN /\ request' = [request EXCEPT ![c] =
             [route |-> first, left |-> left,
              seen |-> [r \in Routes |-> IF r \in left THEN cool[r] ELSE 0]]]
        /\ steady' = IF c = Main THEN order \cap up ELSE steady
  /\ UNCHANGED <<environment, routing, closing, phase>>

End(c) ==
  /\ request' = [request EXCEPT ![c] = NoRequest]
  /\ steady' = IF c = Main THEN {} ELSE steady

\* What a failed request means to the main task: wait_for_telegram sleeps and
\* starts over, getMe leaves start_polling with its exception, polling goes on.
AfterFailure ==
  CASE phase \in {"commands", "webhook"} -> "backoff"
    [] phase = "get_me" -> "stopping"
    [] OTHER -> phase

\* Fault: only failures are reported.
SuccessUnreported(c, cooling) == telegram

\* What is reported after a success.  The last call of the bootstrap marks the
\* component as ok, whatever else cools down.
Reported(c, cooling) ==
  IF c = Main /\ phase = "webhook" THEN "ok" ELSE Report(cooling)

Succeed(c) ==
  LET r == request[c].route
  IN /\ Busy(c)
     /\ r \in up
     /\ MarkSuccess(r)
     /\ telegram' = Reported(c, cool')
     /\ phase' = IF c # Main THEN phase
                 ELSE CASE phase = "commands" -> "webhook"
                        [] phase = "webhook" -> "get_me"
                        [] phase = "get_me" -> "polling"
                        [] OTHER -> phase
     /\ End(c)
     /\ UNCHANGED <<environment, closing>>

\* Telegram answers with an error: the route works, nothing is marked.  A call
\* that may not be repeated (a wrong token) ends the bootstrap.
Refuse(c) ==
  /\ Busy(c)
  /\ request[c].route \in up
  /\ troubles < MaxTroubles
  /\ troubles' = troubles + 1
  /\ End(c)
  /\ \/ phase' = IF c = Main THEN AfterFailure ELSE phase
     \/ /\ c = Main
        /\ phase \in {"commands", "webhook"}
        /\ phase' = "stopping"
  /\ UNCHANGED <<up, routing, closing>>

\* The attempt fails, before or after Telegram carried the request out: the
\* request goes on to the next route of its order, or ends.
Fail(c) ==
  LET q == request[c]
      next == First(q.left, q.seen)
  IN /\ Busy(c)
     /\ q.route \notin up
     /\ IF ~Running
        THEN End(c) /\ UNCHANGED <<routing, phase>>
        ELSE /\ MarkFailure(q.route)
             /\ IF q.left # {}
                THEN /\ request' = [request EXCEPT ![c] =
                          [q EXCEPT !.route = next, !.left = @ \ {next}]]
                     /\ UNCHANGED <<phase, steady>>
                ELSE /\ End(c)
                     /\ phase' = IF c = Main THEN AfterFailure ELSE phase
     /\ UNCHANGED <<environment, closing>>

\* The sleep of wait_for_telegram is over.
Wake ==
  /\ phase = "backoff"
  /\ phase' = "commands"
  /\ UNCHANGED <<environment, routing, closing, request, steady>>

-----------------------------------------------------------------------------
(* Shutdown and the environment *)

\* The signal handler: no new attempts, and the main task is cancelled unless it
\* was before.  Cancelled in the finally block, which the bootstrap reaches by an
\* error too, it leaves the rest of it out.
Signal ==
  /\ phase # "stopped" /\ ~closing
  /\ closing' = TRUE
  /\ phase' = IF phase = "stopping" THEN "stopped" ELSE "stopping"
  /\ request' = IF phase' = "stopped" THEN [c \in Clients |-> NoRequest]
                ELSE [request EXCEPT ![Main] = NoRequest]
  /\ steady' = {}
  /\ UNCHANGED <<environment, routing>>

\* The finally block closes the session, and with it what is under way.
Close ==
  /\ phase = "stopping"
  /\ closing' = TRUE
  /\ phase' = "stopped"
  /\ request' = [c \in Clients |-> NoRequest]
  /\ steady' = {}
  /\ UNCHANGED <<environment, routing>>

RouteDown(r) ==
  /\ r \in up
  /\ troubles < MaxTroubles
  /\ troubles' = troubles + 1
  /\ up' = up \ {r}
  /\ steady' = steady \ {r}
  /\ UNCHANGED <<routing, closing, phase, request>>

RouteUp(r) ==
  /\ r \notin up
  /\ up' = up \cup {r}
  /\ UNCHANGED <<troubles, routing, closing, phase, request, steady>>

\* Time passes.
Tick ==
  /\ \E r \in Routes : cool[r] > 0
  /\ cool' = [r \in Routes |-> IF cool[r] = 0 THEN 0 ELSE cool[r] - 1]
  /\ UNCHANGED <<environment, active, telegram, failed, closing, phase, request, steady>>

Init ==
  /\ up \in SUBSET Routes
  /\ troubles = 0
  /\ cool = [r \in Routes |-> 0]
  /\ active = 1
  /\ closing = FALSE
  /\ phase = "commands"
  /\ telegram = "starting"
  /\ request = [c \in Clients |-> NoRequest]
  /\ failed = {}
  /\ steady = {}

Attempt(c) == Succeed(c) \/ Refuse(c) \/ Fail(c)

Next ==
  \/ \E c \in Clients : Ask(c) \/ Attempt(c)
  \/ Wake \/ Signal \/ Close \/ Tick
  \/ \E r \in Routes : RouteDown(r) \/ RouteUp(r)
  \/ phase = "stopped" /\ UNCHANGED vars

Spec == Init /\ [][Next]_vars

\* Every attempt ends (the session's timeout), the main task goes on, routes
\* come back and time passes.  Nobody is obliged to send a message.
FairSpec ==
  /\ Spec
  /\ \A c \in Clients : WF_vars(Attempt(c))
  /\ WF_vars(Ask(Main)) /\ WF_vars(Wake) /\ WF_vars(Close) /\ WF_vars(Tick)
  /\ \A r \in Routes : WF_vars(RouteUp(r))

-----------------------------------------------------------------------------
(* Properties *)

HealthStatuses == {"starting", "ok", "degraded", "down"}

Requests ==
  [route : 0..RouteCount, left : SUBSET Routes, seen : [Routes -> 0..Cooldown]]

TypeOK ==
  /\ up \subseteq Routes
  /\ troubles \in 0..MaxTroubles
  /\ cool \in [Routes -> 0..Cooldown]
  /\ active \in Routes
  /\ closing \in BOOLEAN
  /\ phase \in Phases
  /\ telegram \in HealthStatuses
  /\ request \in [Clients -> Requests]
  /\ failed \subseteq Routes
  /\ steady \subseteq Routes

\* HealthRegistry.snapshot.
ServiceStatus ==
  IF phase \in {"stopping", "stopped"} THEN "stopping"
  ELSE IF phase \in {"commands", "webhook", "backoff"} THEN "starting"
  ELSE IF telegram \in {"degraded", "down"} THEN "degraded" ELSE "ok"

\* A message that was put on one route is not put on another: the attempt that
\* failed may have been carried out, and the message doubled.
MessagesAreNotDoubled ==
  [][\A h \in Handlers :
       Busy(h) /\ Busy(h)' => request'[h].route = request[h].route]_vars

\* The active route is the one to prefer: when it cools down they all do, and
\* it is the first to be available again, however the requests of several
\* clients mark routes that others are waiting for.
ActiveIsBest ==
  cool[active] > 0 => \A r \in Routes : cool[active] <= cool[r]

\* Telegram is reported as down only if every route failed when it was last
\* tried: one route that works is enough.
DownIsTrue == telegram = "down" => failed = Routes

\* Until the shutdown, a request that may be repeated fails only if no route of
\* its order worked throughout, whatever the other clients do to the routes.
SafeRequestsPersist ==
  [][/\ Busy(Main) /\ ~Busy(Main)'
     /\ request[Main].route \notin up
     /\ ~closing'
     => steady = {}]_vars

\* Once the shutdown began, no request is put on a route: an AiohttpSession
\* that was closed would open itself again (begin_shutdown).
NothingBeginsAfterShutdown ==
  [][closing => \A c \in Clients :
       Busy(c)' => request'[c].route = request[c].route]_vars

\* When the outages end, the program is ready and healthy again, or stopping.
HealthComesBack == <>[](ServiceStatus \in {"ok", "stopping"})

\* While Telegram cannot be reached the process lives on and tries again
\* (docs/DEPLOYMENT.md:59).  Not so right after the bootstrap: a getMe that fails
\* on every route ends it.
OutagesAreSurvived ==
  [][/\ phase' = "stopping" /\ phase # "stopping"
     /\ request[Main].route \in Routes \ up
     => closing']_vars
=============================================================================
