----------------------------- MODULE LoadBalancer -----------------------------
(***************************************************************************)
(* The load balancer (loadbalancer/lb.py) for one service: the request     *)
(* handlers that register, select and count connections, and the health    *)
(* thread that probes the backends.  Services share only the lock, so one  *)
(* stands for all.                                                         *)
(*                                                                         *)
(* The handlers run on the event loop and do not wait between select and   *)
(* mark_request_start (main.py:174-201), so the two are one step.  The     *)
(* health thread is a real thread: it takes the lock for its snapshot,     *)
(* gives it up while it probes, and takes it again to apply the results,   *)
(* and everything else comes in between.                                   *)
(***************************************************************************)
EXTENDS BalancerOps

CONSTANTS BackendUrls,   \* URLs a route may name
          Requests,      \* requests in flight at once
          Threads,       \* health threads that may be created
          Idle,          \* a request not in flight
          NoThread,      \* _health_thread is None
          RRPeriod       \* where the modelled round-robin counter wraps

\* The code's counter does not wrap and is only used modulo the number of
\* healthy backends: a common multiple of those loses nothing.
ASSUME BalancerAssumption ==
    /\ IsFiniteSet(BackendUrls) /\ IsFiniteSet(Requests)
    /\ Idle \notin BackendUrls /\ NoThread \notin Threads
    /\ RRPeriod \in Nat \ {0}
    /\ \A n \in 1 .. Cardinality(BackendUrls) : RRPeriod % n = 0

VARIABLES
    backends,       \* _backends[service]
    rr_counter,     \* _rr_counters[service]
    request,        \* the backend each request was sent to, or Idle
    loop,           \* the health threads
    health_thread,  \* _health_thread: the thread the balancer knows of
    stop,           \* _health_check_stop is set
    stopping,       \* a caller waits in the join of stop_health_checks
    up,             \* whether each backend answers its /health with a 2xx
    strikes,        \* history: failed probes since the last good one
    picks,          \* history: round-robin picks since the healthy set changed
    orphaned        \* history: backends deregistered under a request in flight

serving == <<backends, rr_counter, request, picks, orphaned>>
lifecycle == <<health_thread, stop, stopping>>
health == <<loop, strikes>>
vars == <<serving, lifecycle, health, up>>

\* A thread between rounds, and one that holds no round's data any more.
Waiting == [pc |-> "waiting", todo |-> <<>>, results |-> {}]
Off == [pc |-> "off", todo |-> <<>>, results |-> {}]

\* A round has one result for each entry, so that their order means nothing.
Result == [url : BackendUrls, ok : BOOLEAN]

TypeOK ==
    /\ backends \in Seq(BackendInstance(BackendUrls))
    /\ rr_counter \in 0 .. RRPeriod - 1
    /\ request \in [Requests -> BackendUrls \cup {Idle}]
    /\ loop \in [Threads -> [pc : {"off", "waiting", "probing"},
                             todo : Seq(BackendUrls), results : SUBSET Result]]
    /\ health_thread \in Threads \cup {NoThread}
    /\ stop \in BOOLEAN /\ stopping \in BOOLEAN
    /\ up \in [BackendUrls -> BOOLEAN]
    /\ strikes \in [BackendUrls -> 0 .. ProbeThreshold]
    /\ picks \in [BackendUrls -> Nat]
    /\ orphaned \subseteq BackendUrls

NoPicks == [u \in BackendUrls |-> 0]

Init ==
    /\ backends = <<>> /\ rr_counter = 0
    /\ request = [r \in Requests |-> Idle]
    /\ loop = [t \in Threads |-> Off]
    /\ health_thread = NoThread /\ stop = FALSE /\ stopping = FALSE
    /\ up = [u \in BackendUrls |-> TRUE]
    /\ strikes = [u \in BackendUrls |-> 0]
    /\ picks = NoPicks
    /\ orphaned = {}

-------------------------------------------------------------------------------
(* The request handlers.                                                   *)

\* The list becomes next; a new healthy set starts the count of picks anew.
List(next) ==
    /\ backends' = next
    /\ picks' = IF HealthyUrls(next) = HealthyUrls(backends) THEN picks ELSE NoPicks

\* register: again and again, by every request of a route that names u.
Register(u) ==
    /\ List(AfterRegister(backends, u))
    /\ UNCHANGED <<rr_counter, request, orphaned, lifecycle, health, up>>

\* Picks are counted up to a common amount.
Level(f) ==
    IF \A u \in HealthyUrls(backends) : f[u] > 0
    THEN [u \in BackendUrls |-> IF u \in HealthyUrls(backends) THEN f[u] - 1 ELSE 0]
    ELSE f

Send(r, i) ==
    LET u == backends[i].url
    IN  /\ request' = [request EXCEPT ![r] = u]
        /\ backends' = AfterRequestStart(backends, u)

\* select(service) and mark_request_start, with the default strategy.
DispatchRoundRobin(r) ==
    /\ request[r] = Idle
    /\ HealthyBackends(backends) # {}
    /\ LET i == RoundRobin(backends, rr_counter)
       IN  /\ Send(r, i)
           /\ picks' = Level([picks EXCEPT ![backends[i].url] = @ + 1])
    /\ rr_counter' = (rr_counter + 1) % RRPeriod
    /\ UNCHANGED <<orphaned, lifecycle, health, up>>

\* The same with "least-connections", the strategy the gateway asks for.
DispatchLeastConnections(r) ==
    /\ request[r] = Idle
    /\ HealthyBackends(backends) # {}
    /\ Send(r, LeastConnections(backends))
    /\ UNCHANGED <<rr_counter, picks, orphaned, lifecycle, health, up>>

\* mark_request_end, when the response is complete or the request failed.
End(r) ==
    /\ request[r] # Idle
    /\ backends' = AfterRequestEnd(backends, request[r])
    /\ request' = [request EXCEPT ![r] = Idle]
    /\ orphaned' = orphaned \cap {request'[q] : q \in Requests}
    /\ UNCHANGED <<rr_counter, picks, lifecycle, health, up>>

Serving(u) == {r \in Requests : request[r] = u}

\* deregister: part of the balancer's interface; the gateway never calls it.
\* A round that still holds the removed entry updates an object that nobody
\* reads any more.
Deregister(u) ==
    /\ u \in Urls(backends)
    /\ List(AfterDeregister(backends, u))
    /\ loop' = [t \in Threads |->
           [loop[t] EXCEPT !.todo = Sublist(@, {i \in DOMAIN @ : @[i] # u}),
                           !.results = {x \in @ : x.url # u}]]
    /\ strikes' = [strikes EXCEPT ![u] = 0]
    /\ orphaned' = IF Serving(u) = {} THEN orphaned ELSE orphaned \cup {u}
    /\ UNCHANGED <<rr_counter, request, lifecycle, up>>

-------------------------------------------------------------------------------
(* The health threads.                                                     *)

NoneAlive == \A t \in Threads : health_thread = t => loop[t].pc = "off"

StartHealthChecks(t) ==
    /\ NoneAlive
    /\ loop[t].pc = "off"
    /\ stop' = FALSE
    /\ health_thread' = t
    /\ loop' = [loop EXCEPT ![t] = Waiting]
    /\ UNCHANGED <<serving, stopping, strikes, up>>

\* stop_health_checks sets the event and joins the thread ...
StopHealthChecks ==
    /\ ~stopping
    /\ stop' = TRUE
    /\ stopping' = (health_thread # NoThread)
    /\ UNCHANGED <<serving, health_thread, health, up>>

\* ... until the thread ends or, as it may be in the middle of a probe, for 5 s,
\* and forgets it in both cases.
JoinReturns ==
    /\ stopping
    /\ loop[health_thread].pc # "waiting"
    /\ stopping' = FALSE
    /\ health_thread' = NoThread
    /\ UNCHANGED <<serving, stop, health, up>>

\* The thread starts, or wakes from its wait, and sees the event set ...
Exit(t) ==
    /\ loop[t].pc = "waiting" /\ stop
    /\ loop' = [loop EXCEPT ![t] = Off]
    /\ UNCHANGED <<serving, lifecycle, strikes, up>>

\* ... or not: it snapshots the list.
Snapshot(t) ==
    /\ loop[t].pc = "waiting" /\ ~stop
    /\ loop' = [loop EXCEPT ![t] =
           [pc |-> "probing", todo |-> [i \in DOMAIN backends |-> backends[i].url],
            results |-> {}]]
    /\ UNCHANGED <<serving, lifecycle, strikes, up>>

\* _probe: the answer, or the lack of one, is taken here and applied later.
Probe(t) ==
    /\ loop[t].pc = "probing" /\ loop[t].todo # <<>>
    /\ LET u == Head(loop[t].todo)
       IN  /\ loop' = [loop EXCEPT ![t].todo = Tail(@),
                                   ![t].results = @ \cup {[url |-> u, ok |-> up[u]]}]
           /\ strikes' = [strikes EXCEPT ![u] =
                  IF up[u] THEN 0 ELSE IF @ < ProbeThreshold THEN @ + 1 ELSE @]
    /\ UNCHANGED <<serving, lifecycle, up>>

\* All results of the round, under the lock.
Apply(t) ==
    /\ loop[t].pc = "probing" /\ loop[t].todo = <<>>
    /\ List(AfterProbes(backends, loop[t].results))
    /\ loop' = [loop EXCEPT ![t] = Waiting]
    /\ UNCHANGED <<rr_counter, request, orphaned, lifecycle, strikes, up>>

Flips(u) ==
    /\ up' = [up EXCEPT ![u] = ~@]
    /\ UNCHANGED <<serving, lifecycle, health>>

-------------------------------------------------------------------------------

Serve ==
    \/ \E u \in BackendUrls : Register(u) \/ Deregister(u) \/ Flips(u)
    \/ \E r \in Requests :
           DispatchRoundRobin(r) \/ DispatchLeastConnections(r) \/ End(r)

HealthRound(t) == Snapshot(t) \/ Probe(t) \/ Apply(t)

\* The gateway starts the checks when it starts and stops them when it stops;
\* here anybody does, again and again.
Lifecycle ==
    \/ \E t \in Threads : StartHealthChecks(t) \/ Exit(t)
    \/ StopHealthChecks
    \/ JoinReturns

Next == Serve \/ Lifecycle \/ \E t \in Threads : HealthRound(t)
Spec == Init /\ [][Next]_vars

\* The thread gets its turns, and the urllib timeout ends every probe.
FairSpec == Spec /\ \A t \in Threads : WF_vars(HealthRound(t))

-------------------------------------------------------------------------------
(* Safety.                                                                 *)

\* A URL is in the list at most once, although every request of a route
\* registers its backends again: two entries would halve what each strategy and
\* the connection counter see (lb.py:155-175).
NoDuplicates ==
    \A i, j \in DOMAIN backends : backends[i].url = backends[j].url => i = j

\* "Number of in-flight requests currently routed to this backend" (lb.py:61):
\* what least-connections compares is the truth, whatever registrations and
\* health rounds come between the start and the end of a request.  A backend
\* deregistered under its requests and registered again starts from zero: it is
\* undercounted, never overcounted, until the last request it was serving ends.
ConnectionsExact ==
    \A i \in DOMAIN backends :
        LET u == backends[i].url
        IN  /\ backends[i].active_connections <= Cardinality(Serving(u))
            /\ u \notin orphaned =>
                   backends[i].active_connections = Cardinality(Serving(u))

\* A result of the backend that some thread has and has not applied.
Pending(u) == \E t \in Threads : \E x \in loop[t].results : x.url = u

\* A backend is in rotation exactly while fewer than the threshold of its latest
\* probes failed in a row, whatever comes between a probe and the time its
\* result is applied (lb.py:376-414).
RotationMatchesProbes ==
    \A i \in DOMAIN backends :
        LET u == backends[i].url
        IN  ~Pending(u) => (backends[i].healthy <=> strikes[u] < ProbeThreshold)

\* "Every backend receives exactly the same share of traffic over time"
\* (lb.py:236): while the healthy set is the same, the numbers of round-robin
\* picks differ by at most one, from whatever value the counter has by then.
RoundRobinFair ==
    \A u, v \in HealthyUrls(backends) : picks[u] <= picks[v] + 1

-------------------------------------------------------------------------------
(* Liveness.                                                               *)

Checked(u) == health_thread # NoThread /\ ~stop /\ u \in Urls(backends)

\* While the checks run, a registered backend that is down for good leaves the
\* rotation for good (lb.py:401-414), and one that is up for good is in it for
\* good (lb.py:393-400), whatever was started, stopped and probed before.
RotationConverges ==
    \A u \in BackendUrls :
        <>[]Checked(u) /\ <>[][~Flips(u)]_vars
            => <>[](u \in HealthyUrls(backends) <=> up[u])
===============================================================================
