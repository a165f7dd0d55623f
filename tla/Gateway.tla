------------------------------- MODULE Gateway --------------------------------
(***************************************************************************)
(* The proxy handler (main.py) with everything it puts together: the route *)
(* table, which the file watcher may replace at any time, the load         *)
(* balancer's list and the circuit breaker of each service, the health     *)
(* checks, and the requests in flight.                                     *)
(*                                                                         *)
(* A handler runs on the event loop without a pause from the lookup of its *)
(* route to the first await of forward_request: one step (Arrive).  It     *)
(* then waits for the body, for one of the connections of the httpx client *)
(* that all services share, for the backend, and ends in one step more:    *)
(* the breaker hears the result and the connection counter goes down.      *)
(* The times between probe and verdict are LoadBalancer's subject; here a  *)
(* health round is one step.                                               *)
(***************************************************************************)
EXTENDS BreakerOps, BalancerOps, RouterOps

CONSTANTS
    Requests,     \* requests in flight at once
    Paths,        \* paths clients ask for
    Files,        \* the lists of routes the routes file may hold
    Direct,       \* services without a balancer: the models of the LLM gateway,
    Fallback,     \* and that of all requests without a route
    Target,       \* the one backend of each of them (LLM_BACKENDS, backend_url)
    BackendUrls,  \* all backends
    MaxConnections,  \* connections of the shared httpx client (100 by default)
    Idle          \* a request not in flight

Routes == UNION {{f[i] : i \in DOMAIN f} : f \in Files}

\* A breaker belongs to a service; so does a list of the load balancer, which is
\* empty except for the services of routes.
Services == {route.prefix : route \in Routes} \cup Direct

\* A prefix that a path can match begins with a slash or is empty; the names of
\* the models and "fallback" do neither (main.py:151-172).
ASSUME GatewayAssumption ==
    /\ IsFiniteSet(Requests)
    /\ Fallback \in Direct
    /\ MaxConnections \in Nat \ {0}
    /\ Target \in [Direct -> BackendUrls]
    /\ \A route \in Routes : /\ route.prefix \in RoutePrefixes \ Direct
                             /\ route.backends \in Seq(BackendUrls)

\* A request in flight: where its handler waits, the service, the backend it was
\* sent to and, as in CircuitBreaker, how the breaker let it through.
InFlight == [at : {"body", "pool", "backend"}, service : Services, target : BackendUrls,
             pass : {"regular", "probe", "stale"}]

ASSUME IdleAssumption == Idle \notin InFlight

VARIABLES
    table,     \* the route table's routes
    lists,     \* LoadBalancer._backends
    breaker,   \* CircuitBreakerRegistry._breakers
    request,   \* the requests
    up,        \* whether each backend answers in time, and below 500
    failed     \* history: the services whose own requests have failed since a
               \* success last left their breaker closed

vars == <<table, lists, breaker, request, up, failed>>

TypeOK ==
    /\ table \in {LoadFromList(f) : f \in Files}
    /\ lists \in [Services -> Seq(BackendInstance(BackendUrls))]
    /\ breaker \in [Services -> Breaker]
    /\ request \in [Requests -> InFlight \cup {Idle}]
    /\ up \in [BackendUrls -> BOOLEAN]
    /\ failed \subseteq Services

\* The gateway has started: the routes file is loaded.  get_or_create makes a
\* breaker when a service is first used, and one that was never used is new.
Init ==
    /\ table \in {LoadFromList(f) : f \in Files}
    /\ lists = [s \in Services |-> <<>>]
    /\ breaker = [s \in Services |-> NewBreaker]
    /\ request = [r \in Requests |-> Idle]
    /\ up = [u \in BackendUrls |-> TRUE]
    /\ failed = {}

Busy(s) == {r \in Requests : request[r] # Idle /\ request[r].service = s}
ProbesOf(s) == {r \in Busy(s) : request[r].pass = "probe"}

\* The requests f once the breaker of s is next: a half-open round ends with it.
Settled(f, s, next) ==
    IF next.state = "half_open" THEN f
    ELSE [r \in Requests |->
             IF f[r] # Idle /\ f[r].service = s /\ f[r].pass = "probe"
             THEN [f[r] EXCEPT !.pass = "stale"]
             ELSE f[r]]

-------------------------------------------------------------------------------
(* A request arrives.                                                      *)

\* Mutant: the connection is counted before the breaker is asked.
CountedFirst(list, u, admitted) == AfterRequestStart(list, u)

\* mark_request_start comes after can_execute, which may send the request away.
CountedIf(list, u, admitted) == IF admitted THEN AfterRequestStart(list, u) ELSE list

\* The end of Arrive: the breaker of service s lets request r through to u, or
\* it is answered 503.
Admission(r, s, u, list) ==
    LET admitted == CanExecute(breaker[s])
        next == AfterCanExecute(breaker[s])
        taken == [at |-> "body", service |-> s, target |-> u,
                  pass |-> IF next.state = "closed" THEN "regular" ELSE "probe"]
    IN  /\ breaker' = [breaker EXCEPT ![s] = next]
        /\ lists' = [lists EXCEPT ![s] = CountedIf(list, u, admitted)]
        /\ request' = Settled(IF admitted THEN [request EXCEPT ![r] = taken] ELSE request,
                              s, next)
        /\ UNCHANGED <<table, up, failed>>

\* register() for every backend of the route, in the route's order: those that
\* are not in the list yet are added, once each.
RegisterAll(list, urls) ==
    LET added == Sublist(urls, {i \in DOMAIN urls :
                                   /\ urls[i] \notin Urls(list)
                                   /\ \A j \in 1 .. i - 1 : urls[j] # urls[i]})
    IN  list \o [k \in DOMAIN added |-> NewBackend(added[k])]

ArriveRouted(r, path) ==
    /\ request[r] = Idle
    /\ \E route \in Routes :
       /\ route = Resolve(table, path)
       /\ \E list \in {RegisterAll(lists[route.prefix], route.backends)} :
            \/ \* 503, "No healthy backends available"
               /\ HealthyBackends(list) = {}
               /\ lists' = [lists EXCEPT ![route.prefix] = list]
               /\ UNCHANGED <<table, breaker, request, up, failed>>
            \/ \E i \in HealthyBackends(list), u \in BackendUrls :
               /\ i = LeastConnections(list) /\ u = list[i].url
               /\ Admission(r, route.prefix, u, list)

\* The LLM middleware has set request.state.llm_backend, or there is no route.
ArriveDirect(r, s) ==
    /\ request[r] = Idle
    /\ s = Fallback => \E path \in Paths : Resolve(table, path) = NoRoute
    /\ Admission(r, s, Target[s], lists[s])

-------------------------------------------------------------------------------
(* forward_request, and what follows it.                                   *)

BodyRead(r) ==
    /\ request[r] # Idle /\ request[r].at = "body"
    /\ request' = [request EXCEPT ![r].at = "pool"]
    /\ UNCHANGED <<table, lists, breaker, up, failed>>

\* The requests that hold a connection of the shared client.
Connected == {r \in Requests : request[r] # Idle /\ request[r].at = "backend"}

PoolFull == Cardinality(Connected) >= MaxConnections

\* client.request() gets a connection ...
Connect(r) ==
    /\ request[r] # Idle /\ request[r].at = "pool"
    /\ ~PoolFull
    /\ request' = [request EXCEPT ![r].at = "backend"]
    /\ UNCHANGED <<table, lists, breaker, up, failed>>

\* Mutant: only an answer counts as a failure; an exception records nothing.
ExceptionUnrecorded(b) == b

AfterException(b) == AfterFailure(b)

\* Mutant: one breaker for all services.
RecordedForAll(s, next) == [t \in Services |-> next]

Recorded(s, next) == [breaker EXCEPT ![s] = next]

\* The result goes to the breaker of the service, `finally` uncounts the
\* connection, and the client gets its answer.
Finish(r, next, success) ==
    LET s == request[r].service
    IN  /\ breaker' = Recorded(s, next)
        /\ lists' = [lists EXCEPT ![s] = AfterRequestEnd(@, request[r].target)]
        /\ request' = Settled([request EXCEPT ![r] = Idle], s, next)
        /\ failed' = CASE ~success -> failed \cup {s}
                        [] success /\ next.state = "closed" -> failed \ {s}
                        [] OTHER -> failed
        /\ UNCHANGED <<table, up>>

\* The client goes away while its body is read: request.body() raises, and the
\* handler treats that like any other exception.
ClientAborts(r) ==
    /\ request[r] # Idle /\ request[r].at = "body"
    /\ Finish(r, AfterException(breaker[request[r].service]), FALSE)

\* ... or none for 30 s, and raises PoolTimeout: the backend was never asked, and
\* the handler records a failure all the same.
PoolTimeout(r) ==
    /\ request[r] # Idle /\ request[r].at = "pool"
    /\ PoolFull
    /\ Finish(r, AfterException(breaker[request[r].service]), FALSE)

\* The backend answers below 500.
Succeed(r) ==
    /\ request[r] # Idle /\ request[r].at = "backend"
    /\ up[request[r].target]
    /\ Finish(r, AfterSuccess(breaker[request[r].service]), TRUE)

\* It answers with a 5xx ...
AnswerError(r) ==
    /\ request[r] # Idle /\ request[r].at = "backend"
    /\ ~up[request[r].target]
    /\ Finish(r, AfterFailure(breaker[request[r].service]), FALSE)

\* ... or not at all: refused, reset or timed out.
NoAnswer(r) ==
    /\ request[r] # Idle /\ request[r].at = "backend"
    /\ ~up[request[r].target]
    /\ Finish(r, AfterException(breaker[request[r].service]), FALSE)

-------------------------------------------------------------------------------
(* The rest of the gateway, and the world.                                 *)

\* The file watcher installs what the routes file holds by now.
Reload(f) ==
    /\ table' = LoadFromList(f)
    /\ UNCHANGED <<lists, breaker, request, up, failed>>

\* A round of the health thread, for the lists of all services.
HealthRound ==
    /\ lists' = [s \in Services |-> [i \in DOMAIN lists[s] |->
           IF up[lists[s][i].url] THEN Reinstated(lists[s][i]) ELSE Struck(lists[s][i])]]
    /\ UNCHANGED <<table, breaker, request, up, failed>>

Tick ==
    /\ breaker' = [s \in Services |-> AfterTick(breaker[s])]
    /\ UNCHANGED <<table, lists, request, up, failed>>

Flips(u) ==
    /\ up' = [up EXCEPT ![u] = ~@]
    /\ UNCHANGED <<table, lists, breaker, request, failed>>

Arrive(r) ==
    \/ \E path \in Paths : ArriveRouted(r, path)
    \/ \E s \in Direct : ArriveDirect(r, s)

Answer(r) == Succeed(r) \/ AnswerError(r) \/ NoAnswer(r)

Next ==
    \/ \E r \in Requests :
          \/ Arrive(r) \/ BodyRead(r) \/ ClientAborts(r)
          \/ Connect(r) \/ PoolTimeout(r) \/ Answer(r)
    \/ \E f \in Files : Reload(f)
    \/ HealthRound
    \/ Tick
    \/ \E u \in BackendUrls : Flips(u)

Spec == Init /\ [][Next]_vars

\* Requests end (httpx has a timeout for the connection and for the answer, a body
\* arrives or its client goes away), the health thread and the clock go on.  Clients keep asking for everything,
\* because a breaker moves on only when it is asked.
FairSpec ==
    /\ Spec
    /\ \A r \in Requests : /\ WF_vars(BodyRead(r) \/ ClientAborts(r))
                           /\ WF_vars(Connect(r) \/ PoolTimeout(r))
                           /\ WF_vars(Answer(r))
    /\ WF_vars(HealthRound) /\ WF_vars(Tick)
    /\ \A path \in Paths : SF_vars(\E r \in Requests : ArriveRouted(r, path))
    /\ \A s \in Direct : SF_vars(\E r \in Requests : ArriveDirect(r, s))

-------------------------------------------------------------------------------
(* Safety.                                                                 *)

\* Every request that takes a probe slot gives it back, whichever way it ends:
\* answered, failed, timed out, or left by its client, and also a request that
\* is turned away for want of a backend takes none (main.py:178-219).
SlotsMatchProbes ==
    \A s \in Services : breaker[s].half_open_calls = Cardinality(ProbesOf(s))

\* The connection counters that least-connections compares are the requests in
\* flight, for every service and backend, whatever reloads come in between; a
\* request refused by the breaker is not counted (main.py:195-219, lb.py:61).
ConnectionsExact ==
    \A s \in Services : \A i \in DOMAIN lists[s] :
        lists[s][i].active_connections =
            Cardinality({r \in Busy(s) : request[r].target = lists[s][i].url})

\* The breaker of a service leaves the closed state only after failures of requests
\* of that very service, however many other services, on the same backends or not,
\* are failing (cb.py:349-376).  Those failures need not be its backends' doing:
\* see Unstarved.
NoCascade == \A s \in Services : breaker[s].state # "closed" => s \in failed

\* The cascade that the breaker is there to prevent (cb.py:12-22): a slow service
\* exhausts what all share, and callers of healthy ones time out.  A request waits
\* for a connection in vain only behind requests of its own service.  Violated: the
\* breakers of all services let requests into one pool of connections.
Unstarved ==
    [][\A r \in Requests :
          PoolTimeout(r) => \E q \in Connected : request[q].service = request[r].service]_vars

-------------------------------------------------------------------------------
(* Liveness.                                                               *)

\* When all backends are back for good, clients stop going away and connections
\* suffice, everything is served again: no registered backend stays evicted, no
\* breaker stays open (main.py:178-219, lb.py:391-414).
ServiceRecovers ==
    <>[](\A u \in BackendUrls : up[u])
        /\ <>[][\A r \in Requests : ~ClientAborts(r) /\ ~PoolTimeout(r)]_vars
    => <>[](\A s \in Services :
               /\ breaker[s].state = "closed"
               /\ \A i \in DOMAIN lists[s] : lists[s][i].healthy)
===============================================================================
