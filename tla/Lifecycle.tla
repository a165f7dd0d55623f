------------------------------- MODULE Lifecycle ------------------------------
(***************************************************************************)
(* The gateway's startup and shutdown hooks (main.py:95-125) and what they *)
(* start and stop: a watcher of the routes file, the health thread, and    *)
(* the HTTP client all requests share (proxy/reverse_proxy.py:26-45).      *)
(*                                                                         *)
(* All of these are globals of their modules and outlive a shutdown, and   *)
(* the hooks clear what they can so that the application may be started    *)
(* again in the same process.  The server (uvicorn) stops accepting        *)
(* requests and waits for those it has accepted before it runs the         *)
(* shutdown hook; they may reach the proxy in the meantime.  The hook      *)
(* itself blocks the event loop in its joins.                              *)
(***************************************************************************)
EXTENDS Integers, FiniteSets

CONSTANTS Requests,    \* requests accepted at once
          MaxStarts    \* how often the application is started

ASSUME LifecycleAssumption == MaxStarts \in Nat /\ IsFiniteSet(Requests)

\* Threads and clients are called by the start that made them; 0 is None.
Starts == 1 .. MaxStarts

VARIABLES
    starts,          \* starts so far
    phase,           \* where the server is
    watcher,         \* the watchers' threads
    file_watcher,    \* _file_watcher
    watcher_stop,    \* the watchers whose _stop_event is set
    checker,         \* the balancer's health threads
    health_thread,   \* LoadBalancer._health_thread
    health_stop,     \* LoadBalancer._health_check_stop is set
    gave_up,         \* history: a join gave up on a busy health thread
    client,          \* reverse_proxy._client
    open,            \* clients not closed
    accepted,        \* the requests the server has accepted and not answered
    request          \* the client each of them uses, 0 if it has none

watchers == <<watcher, file_watcher, watcher_stop>>
checkers == <<checker, health_thread, health_stop, gave_up>>
proxying == <<client, open, accepted, request>>
vars == <<starts, phase, watchers, checkers, proxying>>

ThreadState == {"off", "waiting", "busy"}

TypeOK ==
    /\ starts \in 0 .. MaxStarts
    /\ phase \in {"down", "up", "draining", "joining_watcher", "joining_checker", "closing"}
    /\ watcher \in [Starts -> ThreadState] /\ checker \in [Starts -> ThreadState]
    /\ file_watcher \in 0 .. starts /\ health_thread \in 0 .. starts
    /\ watcher_stop \subseteq Starts
    /\ health_stop \in BOOLEAN /\ gave_up \in BOOLEAN
    /\ client \in 0 .. starts /\ open \subseteq Starts
    /\ accepted \subseteq Requests
    /\ request \in [Requests -> 0 .. starts]

Init ==
    /\ starts = 0 /\ phase = "down"
    /\ watcher = [n \in Starts |-> "off"] /\ checker = [n \in Starts |-> "off"]
    /\ file_watcher = 0 /\ health_thread = 0
    /\ watcher_stop = {} /\ health_stop = FALSE /\ gave_up = FALSE
    /\ client = 0 /\ open = {}
    /\ accepted = {}
    /\ request = [r \in Requests |-> 0]

Alive(threads) == {n \in Starts : threads[n] # "off"}

-------------------------------------------------------------------------------
(* The hooks.                                                              *)

\* A watcher is started if there is a routes file, and has loaded it by then.
StartWatcher(n) ==
    \/ /\ file_watcher' = n
       /\ watcher' = [watcher EXCEPT ![n] = "waiting"]
    \/ UNCHANGED <<watcher, file_watcher>>

\* start_health_checks, unless the thread the balancer knows of is alive.
StartChecker(n) ==
    IF health_thread \in Alive(checker)
    THEN UNCHANGED <<checker, health_thread, health_stop>>
    ELSE /\ health_stop' = FALSE
         /\ health_thread' = n
         /\ checker' = [checker EXCEPT ![n] = "waiting"]

Startup ==
    /\ phase = "down" /\ starts < MaxStarts
    /\ starts' = starts + 1 /\ phase' = "up"
    /\ StartWatcher(starts + 1)
    /\ StartChecker(starts + 1)
    /\ UNCHANGED <<watcher_stop, gave_up, proxying>>

\* The server is told to stop.
Drain ==
    /\ phase = "up" /\ phase' = "draining"
    /\ UNCHANGED <<starts, watchers, checkers, proxying>>

\* RouteFileWatcher.stop() of whichever watcher there is, the last one if
\* this start made none ...
StopWatcher ==
    /\ phase = "draining" /\ accepted = {}
    /\ phase' = "joining_watcher"
    /\ watcher_stop' = watcher_stop \cup ({file_watcher} \ {0})
    /\ UNCHANGED <<starts, watcher, file_watcher, checkers, proxying>>

\* Mutant: no join.
JoinSkipped(n, threads) == TRUE

\* A join ends with its thread, or gives up on one that is busy; one that waits
\* for its event has been woken by it.
JoinEnds(n, threads) == n # 0 => threads[n] # "waiting"

\* ... and stop_health_checks() ...
StopChecker ==
    /\ phase = "joining_watcher" /\ JoinEnds(file_watcher, watcher)
    /\ phase' = "joining_checker"
    /\ health_stop' = TRUE
    /\ UNCHANGED <<starts, watchers, checker, health_thread, gave_up, proxying>>

\* Mutant: the event is made ready for the next start.
EventCleared == FALSE

EventStays == health_stop

\* ... which forgets the thread, ended or not; close_client() ...
Close ==
    /\ phase = "joining_checker" /\ JoinEnds(health_thread, checker)
    /\ phase' = "closing"
    /\ health_thread' = 0
    /\ gave_up' = (gave_up \/ (health_thread # 0 /\ checker[health_thread] = "busy"))
    /\ health_stop' = EventStays
    /\ open' = open \ {client}
    /\ UNCHANGED <<starts, watchers, checker, client, accepted, request>>

\* Mutant: the closed client is not forgotten.
ClientKept == client

ClientForgotten == 0

\* ... and the end of its aclose().
Closed ==
    /\ phase = "closing" /\ phase' = "down"
    /\ client' = ClientForgotten
    /\ UNCHANGED <<starts, watchers, checkers, open, accepted, request>>

-------------------------------------------------------------------------------
(* The requests and the threads.                                           *)

\* The server hands a request to the application.
Accept(r) ==
    /\ phase = "up" /\ r \notin accepted
    /\ accepted' = accepted \cup {r}
    /\ UNCHANGED <<starts, phase, watchers, checkers, client, open, request>>

\* forward_request, by when the server may be draining: get_client makes a client
\* if there is none.
Forward(r) ==
    /\ r \in accepted /\ request[r] = 0
    /\ client' = IF client = 0 THEN starts ELSE client
    /\ open' = IF client = 0 THEN open \cup {starts} ELSE open
    /\ request' = [request EXCEPT ![r] = client']
    /\ UNCHANGED <<starts, phase, watchers, checkers, accepted>>

\* A request is answered, forwarded or not.
End(r) ==
    /\ r \in accepted
    /\ accepted' = accepted \ {r}
    /\ request' = [request EXCEPT ![r] = 0]
    /\ UNCHANGED <<starts, phase, watchers, checkers, client, open>>

\* A thread's loop: a round, then a wait that the event ends.
Loop(threads, n, stop) ==
    \/ threads[n] = "waiting" /\ threads' = [threads EXCEPT ![n] = IF stop THEN "off" ELSE "busy"]
    \/ threads[n] = "busy" /\ threads' = [threads EXCEPT ![n] = "waiting"]

Watch(n) ==
    /\ Loop(watcher, n, n \in watcher_stop)
    /\ UNCHANGED <<starts, phase, file_watcher, watcher_stop, checkers, proxying>>

Check(n) ==
    /\ Loop(checker, n, health_stop)
    /\ UNCHANGED <<starts, phase, watchers, health_thread, health_stop, gave_up, proxying>>

Shutdown == StopWatcher \/ StopChecker \/ Close \/ Closed

Next ==
    \/ Startup \/ Drain \/ Shutdown
    \/ \E r \in Requests : Accept(r) \/ Forward(r) \/ End(r)
    \/ \E n \in Starts : Watch(n) \/ Check(n)

Spec == Init /\ [][Next]_vars

\* What has begun ends: requests and probes have timeouts, a reload is a file
\* that is read, and the hook goes on when its join returns.  Nobody has to
\* start the gateway, to stop it, or to send requests.
FairSpec ==
    /\ Spec /\ WF_vars(Shutdown)
    /\ \A r \in Requests : WF_vars(End(r))
    /\ \A n \in Starts : WF_vars(Watch(n)) /\ WF_vars(Check(n))

-------------------------------------------------------------------------------

\* "Health-check thread is already running" (lb.py:337): at most one health
\* thread is alive, however often the gateway is started and stopped, unless a
\* join gave up on one in the middle of a round: the balancer has forgotten that
\* one, and the next start clears the event it was to see.
OneChecker == Cardinality(Alive(checker)) > 1 => gave_up

\* "A single client is created at startup and reused for all proxied requests"
\* (reverse_proxy.py:21): every request in flight has a client that is open, no
\* client but the shared one is, and a gateway that is down has closed it.
ClientShared ==
    /\ \A r \in Requests : request[r] # 0 => request[r] \in open
    /\ open \subseteq {client}
    /\ phase = "down" => open = {}

\* "Signal the background health-check thread to stop" (lb.py:358, router.py:189):
\* when the gateway is down for good its threads have ended, those that a join
\* gave up on and a later start revived included.
ThreadsEnd ==
    <>[](phase = "down") => <>[](Alive(watcher) \cup Alive(checker) = {})
===============================================================================
