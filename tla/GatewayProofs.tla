----------------------------- MODULE GatewayProofs ----------------------------
(***************************************************************************)
(* TLAPS proofs about Gateway, for every set of routes files, services,    *)
(* backends and requests, and for every breaker configuration.  First the  *)
(* breakers: each service's holds exactly the slots of its own probes, and *)
(* leaves the closed state only after failures of its own (IInv; as in     *)
(* CircuitBreakerProofs, a breaker that is not half-open has no probes);   *)
(* and it implements BreakerContract.                                      *)
(* Then the balancer's lists, on top of it (ListsInv): the connections     *)
(* counted for a backend are those of its requests in flight.              *)
(***************************************************************************)
EXTENDS Gateway, BalancerOpsProofs

FlightTypes ==
    /\ breaker \in [Services -> Breaker]
    /\ request \in [Requests -> InFlight \cup {Idle}]
    /\ failed \subseteq Services

\* The probes of service s among the requests f.
ProbesIn(f, s) == {r \in Requests : f[r] # Idle /\ f[r].service = s /\ f[r].pass = "probe"}

\* Breaker b fits the probes P of its service.
Fits(b, P) ==
    /\ b.half_open_calls = Cardinality(P)
    /\ b.state # "half_open" => P = {}

IInv ==
    /\ FlightTypes
    /\ \A s \in Services : Fits(breaker[s], ProbesIn(request, s))
    /\ NoCascade

-------------------------------------------------------------------------------
(* The breaker's methods.                                                  *)

LEMMA MethodTypes ==
    ASSUME NEW b \in Breaker
    PROVE  /\ NewBreaker \in Breaker /\ AfterCanExecute(b) \in Breaker
           /\ AfterSuccess(b) \in Breaker /\ AfterFailure(b) \in Breaker
           /\ AfterTick(b) \in Breaker
<1> USE BreakerAssumption DEF BreakerAssumption
<1>0. /\ 0 \in 0 .. FailureThreshold /\ 0 \in 0 .. HalfOpenMaxCalls
      /\ 0 \in 0 .. RecoveryTimeout /\ RecoveryTimeout \in 0 .. RecoveryTimeout
    OBVIOUS
<1>1. NewBreaker \in Breaker
    BY <1>0 DEF NewBreaker, Breaker, CircuitState
<1>2. AfterCanExecute(b) \in Breaker
    <2>1. [b EXCEPT !.state = "half_open", !.half_open_calls = 0] \in Breaker
        BY <1>0, Zenon DEF Breaker, CircuitState
    <2>2. Promote(b) \in Breaker
        BY <2>1 DEF Promote
    <2> QED  BY <2>2 DEF AfterCanExecute, HasProbeSlot, Breaker
<1>3. AfterSuccess(b) \in Breaker
    BY <1>0 DEF AfterSuccess, Breaker, CircuitState
<1>4. AfterFailure(b) \in Breaker
    <2>1. Counted(b) \in Breaker
        BY DEF Counted, UpTo, Breaker
    <2>2. TripOpen(Counted(b)) \in Breaker
        BY <1>0, <2>1 DEF TripOpen, Breaker, CircuitState
    <2> QED  BY <2>1, <2>2 DEF AfterFailure
<1>5. AfterTick(b) \in Breaker
    BY DEF AfterTick, UpTo, Breaker
<1> QED  BY <1>1, <1>2, <1>3, <1>4, <1>5

\* A result ends the half-open round and leaves no slot taken (cb.py:239-281).
LEMMA ResultMethods ==
    ASSUME NEW b \in Breaker, b.state # "half_open" => b.half_open_calls = 0,
           NEW next \in {AfterSuccess(b), AfterFailure(b)}
    PROVE  next.state # "half_open" /\ next.half_open_calls = 0
BY DEF AfterSuccess, AfterFailure, Counted, TripOpen, Breaker, CircuitState

LEMMA Successes ==
    ASSUME NEW b \in Breaker
    PROVE  AfterSuccess(b).state # "closed" => b.state # "closed"
BY DEF AfterSuccess, Breaker, CircuitState

\* can_execute takes one slot if it lets a probe through, and starts a round from
\* none (cb.py:199-237).
LEMMA AskingMethod ==
    ASSUME NEW b \in Breaker, b.state # "half_open" => b.half_open_calls = 0
    PROVE  LET next == AfterCanExecute(b)
           IN  /\ next.state = "closed" <=> b.state = "closed"
               /\ next.state # "half_open" => next.half_open_calls = 0
               /\ CanExecute(b) => next.state \in {"closed", "half_open"}
               /\ next.state = "half_open" /\ CanExecute(b) =>
                      next.half_open_calls = b.half_open_calls + 1
               /\ next.state = "half_open" /\ ~CanExecute(b) =>
                      next.half_open_calls = b.half_open_calls
BY BreakerAssumption
   DEF AfterCanExecute, CanExecute, HasProbeSlot, Promote, Breaker, CircuitState,
       BreakerAssumption

-------------------------------------------------------------------------------
(* What a step of one service leaves alone.                                *)

LEMMA CountProbes ==
    ASSUME NEW P \in SUBSET Requests, NEW r \in Requests
    PROVE  /\ IsFiniteSet(P) /\ Cardinality(P) \in Nat
           /\ r \notin P => Cardinality(P \cup {r}) = Cardinality(P) + 1
           /\ Cardinality({}) = 0
<1>1. IsFiniteSet(P)
    BY GatewayAssumption, FS_Subset DEF GatewayAssumption
<1> QED  BY <1>1, FS_CardinalityType, FS_AddElement, FS_EmptySet

LEMMA SettledProbes ==
    ASSUME NEW f \in [Requests -> InFlight \cup {Idle}], NEW s \in Services, NEW next
    PROVE  /\ Settled(f, s, next) \in [Requests -> InFlight \cup {Idle}]
           /\ ProbesIn(Settled(f, s, next), s) =
                  IF next.state = "half_open" THEN ProbesIn(f, s) ELSE {}
           /\ \A t \in Services \ {s} : ProbesIn(Settled(f, s, next), t) = ProbesIn(f, t)
<1>1. CASE next.state = "half_open"
    BY <1>1 DEF Settled, ProbesIn
<1>2. CASE next.state # "half_open"
    <2> DEFINE g == Settled(f, s, next)
    <2>1. ASSUME NEW r \in Requests, f[r] # Idle
          PROVE  /\ [f[r] EXCEPT !.pass = "stale"] \in InFlight
                 /\ [f[r] EXCEPT !.pass = "stale"].pass = "stale"
                 /\ [f[r] EXCEPT !.pass = "stale"].service = f[r].service
        BY <2>1 DEF InFlight
    <2>2. g = [r \in Requests |->
                  IF f[r] # Idle /\ f[r].service = s /\ f[r].pass = "probe"
                  THEN [f[r] EXCEPT !.pass = "stale"] ELSE f[r]]
        BY <1>2 DEF Settled
    <2>3. g \in [Requests -> InFlight \cup {Idle}]
        BY <2>1, <2>2
    <2>4. ASSUME NEW r \in Requests
          PROVE  /\ ~(g[r] # Idle /\ g[r].service = s /\ g[r].pass = "probe")
                 /\ \A t \in Services \ {s} :
                      (g[r] # Idle /\ g[r].service = t /\ g[r].pass = "probe")
                          <=> (f[r] # Idle /\ f[r].service = t /\ f[r].pass = "probe")
        BY <2>1, <2>2
    <2> HIDE DEF g
    <2>5. ProbesIn(g, s) = {} /\ \A t \in Services \ {s} : ProbesIn(g, t) = ProbesIn(f, t)
        BY <2>4 DEF ProbesIn
    <2> QED  BY <1>2, <2>3, <2>5 DEF g
<1> QED  BY <1>1, <1>2

\* The breaker of s becomes next, and its probes those of f.
LEMMA ServiceStep ==
    ASSUME IInv, NEW s \in Services, NEW next \in Breaker,
           NEW f \in [Requests -> InFlight \cup {Idle}],
           \A t \in Services \ {s} : ProbesIn(f, t) = ProbesIn(request, t),
           next.state = "half_open" => next.half_open_calls = Cardinality(ProbesIn(f, s)),
           next.state # "half_open" => next.half_open_calls = 0,
           breaker' = [breaker EXCEPT ![s] = next], request' = Settled(f, s, next),
           failed' \subseteq Services, failed \ {s} \subseteq failed',
           next.state # "closed" => s \in failed'
    PROVE  IInv'
<1>1. /\ request' \in [Requests -> InFlight \cup {Idle}]
      /\ ProbesIn(request', s) = IF next.state = "half_open" THEN ProbesIn(f, s) ELSE {}
      /\ \A t \in Services \ {s} : ProbesIn(request', t) = ProbesIn(request, t)
    BY SettledProbes
<1>2. /\ breaker' \in [Services -> Breaker] /\ breaker'[s] = next
      /\ \A t \in Services \ {s} : breaker'[t] = breaker[t]
    BY DEF IInv, FlightTypes
<1>3. Fits(next, ProbesIn(request', s))
    BY <1>1, FS_EmptySet DEF Fits
<1>4. ASSUME NEW t \in Services  PROVE Fits(breaker'[t], ProbesIn(request', t))
    BY <1>1, <1>2, <1>3 DEF IInv
<1>5. NoCascade'
    BY <1>2 DEF IInv, NoCascade
<1> QED  BY <1>1, <1>2, <1>4, <1>5 DEF IInv, FlightTypes, ProbesIn

-------------------------------------------------------------------------------

LEMMA InitIInv == Init => IInv
<1> SUFFICES ASSUME Init  PROVE IInv
    OBVIOUS
<1>1. NewBreaker \in Breaker /\ NewBreaker.state = "closed" /\ NewBreaker.half_open_calls = 0
    BY BreakerAssumption DEF NewBreaker, Breaker, CircuitState, BreakerAssumption
<1>2. \A s \in Services : ProbesIn(request, s) = {}
    BY DEF Init, ProbesIn
<1> QED  BY <1>1, <1>2, FS_EmptySet DEF Init, IInv, FlightTypes, Fits, NoCascade

\* Whether the breaker lets the request through or not, its slots are its probes
\* (main.py:193-201).
LEMMA AdmissionKeepsIInv ==
    ASSUME IInv, NEW r \in Requests, request[r] = Idle, NEW s \in Services,
           NEW u \in BackendUrls, NEW list, Admission(r, s, u, list)
    PROVE  IInv'
<1> DEFINE next == AfterCanExecute(breaker[s])
           taken == [at |-> "body", service |-> s, target |-> u,
                     pass |-> IF next.state = "closed" THEN "regular" ELSE "probe"]
           f == IF CanExecute(breaker[s]) THEN [request EXCEPT ![r] = taken] ELSE request
           P == ProbesIn(request, s)
<1>1. /\ breaker[s] \in Breaker /\ breaker[s].half_open_calls = Cardinality(P)
      /\ breaker[s].state # "half_open" => P = {} /\ breaker[s].half_open_calls = 0
    BY FS_EmptySet DEF IInv, FlightTypes, Fits
<1>2. /\ next \in Breaker
      /\ next.state = "closed" <=> breaker[s].state = "closed"
      /\ next.state # "half_open" => next.half_open_calls = 0
      /\ next.state = "half_open" /\ CanExecute(breaker[s]) =>
             next.half_open_calls = breaker[s].half_open_calls + 1
      /\ next.state = "half_open" /\ ~CanExecute(breaker[s]) =>
             next.half_open_calls = breaker[s].half_open_calls
    BY <1>1, MethodTypes, AskingMethod
<1>3. /\ taken \in InFlight /\ taken # Idle /\ taken.service = s
      /\ taken.pass = "probe" <=> next.state # "closed"
    BY IdleAssumption DEF InFlight, IdleAssumption
<1>4. /\ breaker' = [breaker EXCEPT ![s] = next] /\ request' = Settled(f, s, next)
      /\ failed' = failed
    BY DEF Admission
<1> HIDE DEF next, taken
<1>5. f \in [Requests -> InFlight \cup {Idle}]
    BY <1>3 DEF IInv, FlightTypes
<1>6. \A t \in Services \ {s} : ProbesIn(f, t) = ProbesIn(request, t)
    BY <1>3 DEF ProbesIn, IInv, FlightTypes
<1>7. ASSUME next.state = "half_open"  PROVE next.half_open_calls = Cardinality(ProbesIn(f, s))
    <2>1. CASE CanExecute(breaker[s])
        <3>1. ProbesIn(f, s) = P \cup {r} /\ r \notin P
            BY <1>3, <1>7, <2>1 DEF ProbesIn, IInv, FlightTypes
        <3>2. P \subseteq Requests
            BY DEF ProbesIn
        <3> QED  BY <1>1, <1>2, <1>7, <2>1, <3>1, <3>2, CountProbes
    <2>2. CASE ~CanExecute(breaker[s])
        BY <1>1, <1>2, <1>7, <2>2
    <2> QED  BY <2>1, <2>2
<1>8. failed' \subseteq Services /\ (next.state # "closed" => s \in failed')
    BY <1>2, <1>4 DEF IInv, FlightTypes, NoCascade
<1> HIDE DEF f
<1> QED  BY <1>2, <1>4, <1>5, <1>6, <1>7, <1>8, ServiceStep

LEMMA ArriveKeepsIInv ==
    ASSUME IInv, NEW r \in Requests, Arrive(r)
    PROVE  IInv'
<1>1. ASSUME NEW path \in Paths, ArriveRouted(r, path)  PROVE IInv'
    <2>1. PICK route \in Routes :
              \E list \in {RegisterAll(lists[route.prefix], route.backends)} :
                  \/ UNCHANGED <<table, breaker, request, up, failed>>
                  \/ \E u \in BackendUrls : Admission(r, route.prefix, u, list)
        BY <1>1 DEF ArriveRouted
    <2>2. route.prefix \in Services /\ request[r] = Idle
        BY <1>1 DEF Services, ArriveRouted
    <2>3. CASE UNCHANGED <<table, breaker, request, up, failed>>
        BY <2>3 DEF IInv, FlightTypes, NoCascade, ProbesIn
    <2> QED  BY <2>1, <2>2, <2>3, AdmissionKeepsIInv
<1>2. ASSUME NEW s \in Direct, ArriveDirect(r, s)  PROVE IInv'
    <2>1. /\ s \in Services /\ Target[s] \in BackendUrls /\ request[r] = Idle
          /\ Admission(r, s, Target[s], lists[s])
        BY <1>2, GatewayAssumption DEF Services, ArriveDirect, GatewayAssumption
    <2> QED  BY <2>1, AdmissionKeepsIInv
<1> QED  BY <1>1, <1>2 DEF Arrive

\* Whichever way a request ends, its service's breaker hears of it, and no other
\* (main.py:204-219).
LEMMA FinishKeepsIInv ==
    ASSUME IInv, NEW r \in Requests, request[r] # Idle,
           NEW next, NEW success \in BOOLEAN, Finish(r, next, success),
           \/ success /\ next = AfterSuccess(breaker[request[r].service])
           \/ ~success /\ next = AfterFailure(breaker[request[r].service])
    PROVE  IInv'
<1> DEFINE s == request[r].service
           f == [request EXCEPT ![r] = Idle]
<1>1. s \in Services /\ breaker[s] \in Breaker
    BY DEF IInv, FlightTypes, InFlight
<1>2. breaker[s].state # "half_open" => breaker[s].half_open_calls = 0
    BY <1>1, FS_EmptySet DEF IInv, Fits
<1>3. next \in Breaker /\ next.state # "half_open" /\ next.half_open_calls = 0
    BY <1>1, <1>2, MethodTypes, ResultMethods
<1>4. /\ breaker' = [breaker EXCEPT ![s] = next] /\ request' = Settled(f, s, next)
      /\ failed' = CASE ~success -> failed \cup {s}
                     [] success /\ next.state = "closed" -> failed \ {s}
                     [] OTHER -> failed
    BY DEF Finish, Recorded
<1>5. f \in [Requests -> InFlight \cup {Idle}]
    BY DEF IInv, FlightTypes
<1>6. \A t \in Services \ {s} : ProbesIn(f, t) = ProbesIn(request, t)
    BY DEF ProbesIn, IInv, FlightTypes
<1>7. /\ failed' \subseteq Services /\ failed \ {s} \subseteq failed'
      /\ next.state # "closed" => s \in failed'
    <2>1. CASE ~success
        BY <1>1, <1>4, <2>1 DEF IInv, FlightTypes
    <2>2. CASE success /\ next.state = "closed"
        BY <1>4, <2>2 DEF IInv, FlightTypes
    <2>3. CASE success /\ next.state # "closed"
        <3>1. failed' = failed
            BY <1>4, <2>3
        <3>2. breaker[s].state # "closed"
            BY <1>1, <2>3, Successes
        <3> QED  BY <1>1, <3>1, <3>2 DEF IInv, FlightTypes, NoCascade
    <2> QED  BY <2>1, <2>2, <2>3
<1> HIDE DEF s, f
<1> QED  BY <1>1, <1>3, <1>4, <1>5, <1>6, <1>7, ServiceStep

\* A request goes on to its next wait: the connection, the backend.
LEMMA Waits ==
    ASSUME request \in [Requests -> InFlight \cup {Idle}], NEW r \in Requests,
           BodyRead(r) \/ Connect(r)
    PROVE  \E at \in {"pool", "backend"} :
               /\ request[r] \in InFlight
               /\ request' = [request EXCEPT ![r] = [request[r] EXCEPT !.at = at]]
               /\ UNCHANGED <<table, lists, breaker, up, failed>>
<1>1. CASE BodyRead(r)
    BY <1>1 DEF BodyRead
<1>2. CASE Connect(r)
    BY <1>2 DEF Connect
<1> QED  BY <1>1, <1>2

LEMMA RequestKeepsIInv ==
    ASSUME IInv, NEW r \in Requests,
           \/ BodyRead(r) \/ ClientAborts(r)
           \/ Connect(r) \/ PoolTimeout(r) \/ Answer(r)
    PROVE  IInv'
<1>1. CASE BodyRead(r) \/ Connect(r)
    <2>0. PICK at \in {"pool", "backend"} :
              /\ request[r] \in InFlight
              /\ request' = [request EXCEPT ![r] = [request[r] EXCEPT !.at = at]]
              /\ UNCHANGED <<table, lists, breaker, up, failed>>
        BY <1>1, Waits DEF IInv, FlightTypes
    <2> DEFINE waiting == [request[r] EXCEPT !.at = at]
    <2>1. /\ request[r] \in InFlight /\ request[r] # Idle
          /\ request' = [request EXCEPT ![r] = waiting]
        BY <2>0, IdleAssumption DEF IdleAssumption
    <2>2. /\ waiting \in InFlight /\ waiting # Idle
          /\ waiting.service = request[r].service /\ waiting.pass = request[r].pass
        BY <2>1, IdleAssumption DEF InFlight, IdleAssumption
    <2> HIDE DEF waiting
    <2>3. request' \in [Requests -> InFlight \cup {Idle}]
        BY <2>1, <2>2 DEF IInv, FlightTypes
    <2>4. \A s \in Services : ProbesIn(request', s) = ProbesIn(request, s)
        BY <2>1, <2>2 DEF ProbesIn, IInv, FlightTypes
    <2> QED  BY <2>0, <2>3, <2>4 DEF IInv, FlightTypes, NoCascade, ProbesIn
<1>2. CASE ClientAborts(r) \/ PoolTimeout(r) \/ AnswerError(r) \/ NoAnswer(r)
    BY <1>2, FinishKeepsIInv
       DEF ClientAborts, PoolTimeout, AnswerError, NoAnswer, AfterException
<1>3. CASE Succeed(r)
    BY <1>3, FinishKeepsIInv DEF Succeed
<1> QED  BY <1>1, <1>2, <1>3 DEF Answer

LEMMA TickKeepsIInv == IInv /\ Tick => IInv'
<1> SUFFICES ASSUME IInv, Tick  PROVE IInv'
    OBVIOUS
<1>1. ASSUME NEW s \in Services
      PROVE  /\ breaker'[s] \in Breaker /\ breaker'[s].state = breaker[s].state
             /\ breaker'[s].half_open_calls = breaker[s].half_open_calls
    <2>1. breaker[s] \in Breaker /\ breaker'[s] = AfterTick(breaker[s])
        BY DEF Tick, IInv, FlightTypes
    <2> QED  BY <2>1, MethodTypes DEF AfterTick, Breaker
<1>2. breaker' \in [Services -> Breaker]
    BY <1>1 DEF Tick
<1> QED  BY <1>1, <1>2 DEF Tick, IInv, FlightTypes, Fits, NoCascade, ProbesIn

LEMMA NextKeepsIInv == IInv /\ [Next]_vars => IInv'
<1> SUFFICES ASSUME IInv, [Next]_vars  PROVE IInv'
    OBVIOUS
<1>1. CASE \/ \E f \in Files : Reload(f)
           \/ HealthRound
           \/ \E u \in BackendUrls : Flips(u)
           \/ UNCHANGED vars
    BY <1>1 DEF Reload, HealthRound, Flips, vars, IInv, FlightTypes, NoCascade, ProbesIn
<1> QED  BY <1>1, ArriveKeepsIInv, RequestKeepsIInv, TickKeepsIInv DEF Next

LEMMA IInvAlways == Spec => []IInv
BY InitIInv, NextKeepsIInv, PTL DEF Spec

-------------------------------------------------------------------------------
(* The lists of the balancer.  That a counter is the number of requests in *)
(* flight is kept by the end of a request only if the request's backend is *)
(* still in the list of its service: entries are added and never removed,  *)
(* whatever reloads come, and services without a route have no entries.    *)

\* The requests among f that service s has sent to u.
Load(f, s, u) == {r \in Requests : f[r] # Idle /\ f[r].service = s /\ f[r].target = u}

Homed(list, s, f) ==
    \A r \in Requests : f[r] # Idle /\ f[r].service = s => f[r].target \in Urls(list)

ListFits(list, s, f) ==
    /\ list \in Seq(BackendInstance(BackendUrls)) /\ Distinct(list)
    /\ IF s \in Direct THEN DOMAIN list = {} ELSE Homed(list, s, f)
    /\ \A i \in DOMAIN list :
           list[i].active_connections = Cardinality(Load(f, s, list[i].url))

ListsInv ==
    /\ IInv
    /\ lists \in [Services -> Seq(BackendInstance(BackendUrls))]
    /\ \A s \in Services : ListFits(lists[s], s, request)

\* A route's backends are added once each, however often its requests register
\* them (main.py:173-175).
LEMMA RegistersAll ==
    ASSUME NEW list \in Seq(BackendInstance(BackendUrls)), Distinct(list),
           NEW urls \in Seq(BackendUrls)
    PROVE  LET next == RegisterAll(list, urls)
           IN  /\ next \in Seq(BackendInstance(BackendUrls)) /\ Distinct(next)
               /\ Urls(list) \subseteq Urls(next)
               /\ \A i \in DOMAIN next :
                      \/ i \in DOMAIN list /\ next[i] = list[i]
                      \/ next[i].url \notin Urls(list) /\ next[i].active_connections = 0
<1> SUFFICES ASSUME NEW next, next = RegisterAll(list, urls)
             PROVE  /\ next \in Seq(BackendInstance(BackendUrls)) /\ Distinct(next)
                    /\ Urls(list) \subseteq Urls(next)
                    /\ \A i \in DOMAIN next :
                           \/ i \in DOMAIN list /\ next[i] = list[i]
                           \/ next[i].url \notin Urls(list) /\ next[i].active_connections = 0
    OBVIOUS
<1> DEFINE S == {i \in DOMAIN urls : /\ urls[i] \notin Urls(list)
                                    /\ \A j \in 1 .. i - 1 : urls[j] # urls[i]}
           added == Sublist(urls, S)
           new == [k \in DOMAIN added |-> NewBackend(added[k])]
<1>1. next = list \o new
    BY DEF RegisterAll
<1>2. S \in SUBSET DOMAIN urls
    OBVIOUS
<1>3. \A i \in S : urls[i] \notin Urls(list)
    OBVIOUS
<1>4. \A i, j \in S : urls[i] = urls[j] => i = j
    <2> SUFFICES ASSUME NEW i \in S, NEW j \in S, i < j  PROVE urls[i] # urls[j]
        BY <1>2, Entries
    <2>1. i \in 1 .. j - 1
        BY <1>2, Entries
    <2> QED  BY <2>1
<1> HIDE DEF S
<1>5. /\ added \in Seq(BackendUrls) /\ DOMAIN added = 1 .. Cardinality(S)
      /\ \A k \in DOMAIN added : /\ Nth(S, k - 1) \in S /\ Before(S, Nth(S, k - 1)) = k - 1
                                 /\ added[k] = urls[Nth(S, k - 1)]
    <2>1. added \in Seq(BackendUrls) /\ DOMAIN added = 1 .. Cardinality(S)
        BY <1>2, SublistEntries
    <2>2. \A k \in 1 .. Cardinality(S) :
              /\ Nth(S, k - 1) \in S /\ Before(S, Nth(S, k - 1)) = k - 1
              /\ added[k] = urls[Nth(S, k - 1)]
        BY <1>2, SublistEntries
    <2> QED  BY <2>1, <2>2
<1>6. \A k, l \in DOMAIN added : added[k] = added[l] => k = l
    <2> SUFFICES ASSUME NEW k \in DOMAIN added, NEW l \in DOMAIN added, added[k] = added[l]
                 PROVE  k = l
        OBVIOUS
    <2>1. Nth(S, k - 1) = Nth(S, l - 1)
        BY <1>4, <1>5
    <2>2. k - 1 = l - 1 /\ k \in Int /\ l \in Int
        BY <1>5, <2>1
    <2> QED  BY <2>2
<1> HIDE DEF added
<1>7. \A u \in BackendUrls : /\ NewBackend(u) \in BackendInstance(BackendUrls)
                             /\ NewBackend(u).url = u
                             /\ NewBackend(u).active_connections = 0
    <2>1. 0 \in 0 .. ProbeThreshold
        BY ProbeAssumption DEF ProbeAssumption
    <2> QED  BY <2>1 DEF NewBackend, BackendInstance
<1>8. /\ new \in Seq(BackendInstance(BackendUrls)) /\ DOMAIN new = DOMAIN added
      /\ \A k \in DOMAIN new : /\ new[k].url = added[k] /\ added[k] \notin Urls(list)
                               /\ new[k].active_connections = 0
    <2>1. \A k \in DOMAIN added : added[k] \in BackendUrls
        BY <1>5, Entries
    <2>2. new \in [DOMAIN added -> BackendInstance(BackendUrls)]
        BY <1>7, <2>1
    <2>3. DOMAIN added = 1 .. Len(added) /\ Len(added) \in Nat
        BY <1>5, Entries
    <2>4. new \in Seq(BackendInstance(BackendUrls))
        BY <2>2, <2>3, SeqDef
    <2> QED  BY <1>3, <1>5, <1>7, <2>1, <2>4
<1> HIDE DEF new
<1>9. /\ next \in Seq(BackendInstance(BackendUrls)) /\ Len(next) = Len(list) + Len(new)
      /\ \A i \in 1 .. Len(list) + Len(new) :
             next[i] = IF i <= Len(list) THEN list[i] ELSE new[i - Len(list)]
    BY <1>1, <1>8, ConcatProperties
<1>10. /\ DOMAIN list = 1 .. Len(list) /\ Len(list) \in Nat
       /\ DOMAIN new = 1 .. Len(new) /\ Len(new) \in Nat
       /\ DOMAIN next = 1 .. Len(list) + Len(new)
    BY <1>8, <1>9, Entries
<1>11. \A i \in DOMAIN next :
           \/ i \in DOMAIN list /\ next[i] = list[i]
           \/ i - Len(list) \in DOMAIN new /\ next[i] = new[i - Len(list)]
    BY <1>9, <1>10
<1>12. \A i \in DOMAIN list : list[i].url \in Urls(list)
    BY DEF Urls
<1>13. Distinct(next)
    <2> SUFFICES ASSUME NEW i \in DOMAIN next, NEW j \in DOMAIN next,
                        next[i].url = next[j].url
                 PROVE  i = j
        BY DEF Distinct
    <2>1. CASE i \in DOMAIN list /\ next[i] = list[i] /\ j \in DOMAIN list /\ next[j] = list[j]
        BY <2>1 DEF Distinct
    <2>2. CASE /\ i - Len(list) \in DOMAIN new /\ next[i] = new[i - Len(list)]
               /\ j - Len(list) \in DOMAIN new /\ next[j] = new[j - Len(list)]
        <3>1. i - Len(list) = j - Len(list)
            BY <1>6, <1>8, <2>2
        <3> QED  BY <1>10, <3>1
    <2> QED  BY <1>8, <1>11, <1>12, <2>1, <2>2
<1>14. Urls(list) \subseteq Urls(next)
    <2>1. \A i \in DOMAIN list : i \in DOMAIN next /\ next[i] = list[i]
        BY <1>9, <1>10
    <2> QED  BY <2>1 DEF Urls
<1> QED  BY <1>8, <1>9, <1>11, <1>13, <1>14

LEMMA Routed ==
    ASSUME NEW route \in Routes
    PROVE  /\ route.prefix \in Services /\ route.prefix \notin Direct
           /\ route.backends \in Seq(BackendUrls)
BY GatewayAssumption DEF GatewayAssumption, Services

\* The end of a half-open round does not change who a request was sent to.
LEMMA SettledLoad ==
    ASSUME NEW f \in [Requests -> InFlight \cup {Idle}], NEW t \in Services, NEW next,
           NEW list, NEW s
    PROVE  ListFits(list, s, Settled(f, t, next)) <=> ListFits(list, s, f)
<1> DEFINE g == Settled(f, t, next)
<1>1. ASSUME NEW r \in Requests
      PROVE  /\ g[r] # Idle <=> f[r] # Idle
             /\ f[r] # Idle => g[r].service = f[r].service /\ g[r].target = f[r].target
    <2>1. CASE next.state = "half_open" \/ f[r] = Idle
        BY <2>1 DEF Settled
    <2>2. CASE next.state # "half_open" /\ f[r] # Idle
        <3> DEFINE stale == [f[r] EXCEPT !.pass = "stale"]
        <3>1. f[r] \in InFlight
            BY <2>2
        <3>2. /\ stale \in InFlight /\ stale # Idle
              /\ stale.service = f[r].service /\ stale.target = f[r].target
            BY <3>1, IdleAssumption DEF InFlight, IdleAssumption
        <3>3. g[r] = f[r] \/ g[r] = stale
            BY <2>2 DEF Settled
        <3> HIDE DEF stale, g
        <3> QED  BY <2>2, <3>2, <3>3
    <2> QED  BY <2>1, <2>2
<1> HIDE DEF g
<1>2. \A u : Load(g, s, u) = Load(f, s, u)
    BY <1>1 DEF Load
<1>3. Homed(list, s, g) <=> Homed(list, s, f)
    BY <1>1 DEF Homed
<1> QED  BY <1>2, <1>3 DEF ListFits, g

LEMMA CountLoad ==
    ASSUME NEW f, NEW s, NEW u, NEW r \in Requests
    PROVE  LET L == Load(f, s, u)
           IN  /\ Cardinality(L) \in Nat
               /\ r \notin L => Cardinality(L \cup {r}) = Cardinality(L) + 1
               /\ r \in L => /\ Cardinality(L \ {r}) = Cardinality(L) - 1
                             /\ Cardinality(L) > 0
<1> DEFINE L == Load(f, s, u)
<1>1. L \in SUBSET Requests
    BY DEF Load
<1> HIDE DEF L
<1>2. IsFiniteSet(L)
    BY <1>1, GatewayAssumption, FS_Subset DEF GatewayAssumption
<1>3. Cardinality(L) \in Nat /\ (r \in L => Cardinality(L) # 0)
    BY <1>2, FS_CardinalityType, FS_EmptySet
<1>4. /\ r \notin L => Cardinality(L \cup {r}) = Cardinality(L) + 1
      /\ r \in L => Cardinality(L \ {r}) = Cardinality(L) - 1
    BY <1>2, FS_AddElement, FS_RemoveElement
<1> QED  BY <1>3, <1>4 DEF L

\* Registering again counts nothing and uncounts nothing (main.py:173-175).
LEMMA RegistrationFits ==
    ASSUME NEW f, NEW s, s \notin Direct, NEW list, ListFits(list, s, f),
           NEW urls \in Seq(BackendUrls)
    PROVE  ListFits(RegisterAll(list, urls), s, f)
<1> DEFINE next == RegisterAll(list, urls)
<1>1. /\ next \in Seq(BackendInstance(BackendUrls)) /\ Distinct(next)
      /\ Urls(list) \subseteq Urls(next)
      /\ \A i \in DOMAIN next :
             \/ i \in DOMAIN list /\ next[i] = list[i]
             \/ next[i].url \notin Urls(list) /\ next[i].active_connections = 0
    BY RegistersAll DEF ListFits
<1> HIDE DEF next
<1>2. Homed(list, s, f) /\ Homed(next, s, f)
    BY <1>1 DEF ListFits, Homed
<1>3. ASSUME NEW i \in DOMAIN next
      PROVE  next[i].active_connections = Cardinality(Load(f, s, next[i].url))
    <2>1. CASE i \in DOMAIN list /\ next[i] = list[i]
        BY <2>1 DEF ListFits
    <2>2. CASE next[i].url \notin Urls(list) /\ next[i].active_connections = 0
        <3>1. Load(f, s, next[i].url) = {}
            BY <1>2, <2>2 DEF Homed, Load
        <3> QED  BY <2>2, <3>1, FS_EmptySet
    <2> QED  BY <1>1, <2>1, <2>2
<1>4. ListFits(next, s, f)
    BY <1>1, <1>2, <1>3 DEF ListFits
<1> QED  BY <1>4 DEF next

\* A request is counted where it is sent, and nowhere else (main.py:200-201).
LEMMA StartFits ==
    ASSUME NEW f \in [Requests -> InFlight \cup {Idle}], NEW s \in Services, NEW list,
           ListFits(list, s, f), NEW r \in Requests, f[r] = Idle,
           NEW taken \in InFlight, taken.service = s,
           s \notin Direct => taken.target \in Urls(list)
    PROVE  /\ ListFits(AfterRequestStart(list, taken.target), s, [f EXCEPT ![r] = taken])
           /\ \A other, t : t # s => (ListFits(other, t, [f EXCEPT ![r] = taken])
                                         <=> ListFits(other, t, f))
<1> DEFINE u == taken.target
           g == [f EXCEPT ![r] = taken]
           next == AfterRequestStart(list, u)
<1>1. taken # Idle
    BY IdleAssumption DEF IdleAssumption
<1>2. \A v : Load(g, s, v) = IF v = u THEN Load(f, s, v) \cup {r} ELSE Load(f, s, v)
    BY <1>1 DEF Load
<1>3. \A t, v : t # s => Load(g, t, v) = Load(f, t, v)
    BY <1>1 DEF Load
<1>4. \A other, t : t # s => (Homed(other, t, g) <=> Homed(other, t, f))
    BY <1>1 DEF Homed
<1>5. /\ next \in Seq(BackendInstance(BackendUrls)) /\ Distinct(next)
      /\ DOMAIN next = DOMAIN list /\ Urls(next) = Urls(list)
      /\ \A i \in DOMAIN list : /\ next[i].url = list[i].url
                                /\ list[i].url # u => next[i] = list[i]
    BY CountsRequest DEF ListFits, Recounted
<1>6. s \notin Direct => Homed(next, s, g)
    BY <1>1, <1>5 DEF Homed, ListFits
<1>7. r \notin Load(f, s, u)
    BY DEF Load
<1>8. ASSUME NEW i \in DOMAIN list
      PROVE  next[i].active_connections = Cardinality(Load(g, s, next[i].url))
    <2>1. list[i].active_connections = Cardinality(Load(f, s, list[i].url))
        BY DEF ListFits
    <2>2. CASE list[i].url = u
        <3>1. next[i].active_connections = list[i].active_connections + 1
            BY <2>2, CountsOne DEF ListFits
        <3>2. Cardinality(Load(f, s, u) \cup {r}) = Cardinality(Load(f, s, u)) + 1
            BY <1>7, CountLoad
        <3> HIDE DEF next, g, u
        <3> QED  BY <1>2, <1>5, <2>1, <2>2, <3>1, <3>2
    <2>3. CASE list[i].url # u
        <3> HIDE DEF next, g, u
        <3> QED  BY <1>2, <1>5, <2>1, <2>3
    <2> QED  BY <2>2, <2>3
<1> HIDE DEF next, g, u
<1>9. ListFits(next, s, g)
    BY <1>5, <1>6, <1>8 DEF ListFits
<1>10. ASSUME NEW other, NEW t, t # s  PROVE ListFits(other, t, g) <=> ListFits(other, t, f)
    <2>1. /\ \A v : Load(g, t, v) = Load(f, t, v)
          /\ Homed(other, t, g) <=> Homed(other, t, f)
        BY <1>3, <1>4, <1>10
    <2> QED  BY <2>1 DEF ListFits
<1> QED  BY <1>9, <1>10 DEF next, g, u

\* Whichever way a request ends, it is uncounted where it was counted
\* (main.py:218-219).
LEMMA EndFits ==
    ASSUME NEW f \in [Requests -> InFlight \cup {Idle}], NEW r \in Requests, f[r] # Idle,
           NEW s, s = f[r].service, NEW list, ListFits(list, s, f)
    PROVE  /\ ListFits(AfterRequestEnd(list, f[r].target), s, [f EXCEPT ![r] = Idle])
           /\ \A other, t : t # s => (ListFits(other, t, [f EXCEPT ![r] = Idle])
                                         <=> ListFits(other, t, f))
<1> DEFINE u == f[r].target
           g == [f EXCEPT ![r] = Idle]
           next == AfterRequestEnd(list, u)
<1>1. \A v : Load(g, s, v) = IF v = u THEN Load(f, s, v) \ {r} ELSE Load(f, s, v)
    BY DEF Load
<1>2. \A t, v : t # s => Load(g, t, v) = Load(f, t, v)
    BY DEF Load
<1>3. \A other, t : t # s => (Homed(other, t, g) <=> Homed(other, t, f))
    BY DEF Homed
<1>4. /\ next \in Seq(BackendInstance(BackendUrls)) /\ Distinct(next)
      /\ DOMAIN next = DOMAIN list /\ Urls(next) = Urls(list)
      /\ \A i \in DOMAIN list : /\ next[i].url = list[i].url
                                /\ list[i].url # u => next[i] = list[i]
    BY CountsRequest DEF ListFits, Recounted
<1>5. s \notin Direct => Homed(next, s, g)
    BY <1>4 DEF Homed, ListFits
<1>6. r \in Load(f, s, u)
    BY DEF Load
<1>7. ASSUME NEW i \in DOMAIN list
      PROVE  next[i].active_connections = Cardinality(Load(g, s, next[i].url))
    <2>1. list[i].active_connections = Cardinality(Load(f, s, list[i].url))
        BY DEF ListFits
    <2>2. CASE list[i].url = u
        <3>1. LET n == list[i].active_connections
              IN  next[i].active_connections = IF n > 0 THEN n - 1 ELSE 0
            BY <2>2, CountsOne DEF ListFits
        <3>2. /\ Cardinality(Load(f, s, u) \ {r}) = Cardinality(Load(f, s, u)) - 1
              /\ Cardinality(Load(f, s, u)) > 0
            BY <1>6, CountLoad
        <3> HIDE DEF next, g, u
        <3> QED  BY <1>1, <1>4, <2>1, <2>2, <3>1, <3>2
    <2>3. CASE list[i].url # u
        <3> HIDE DEF next, g, u
        <3> QED  BY <1>1, <1>4, <2>1, <2>3
    <2> QED  BY <2>2, <2>3
<1> HIDE DEF next, g, u
<1>8. ListFits(next, s, g)
    BY <1>4, <1>5, <1>7 DEF ListFits
<1>9. ASSUME NEW other, NEW t, t # s  PROVE ListFits(other, t, g) <=> ListFits(other, t, f)
    <2>1. /\ \A v : Load(g, t, v) = Load(f, t, v)
          /\ Homed(other, t, g) <=> Homed(other, t, f)
        BY <1>2, <1>3, <1>9
    <2> QED  BY <2>1 DEF ListFits
<1> QED  BY <1>8, <1>9 DEF next, g, u

\* The requests become g and the list of s becomes list, and no other list changes.
LEMMA ListStep ==
    ASSUME ListsInv, IInv', NEW s \in Services, NEW list,
           lists' = [lists EXCEPT ![s] = list],
           ListFits(list, s, request'),
           \A t \in Services \ {s} :
               ListFits(lists[t], t, request) => ListFits(lists[t], t, request')
    PROVE  ListsInv'
<1>1. list \in Seq(BackendInstance(BackendUrls))
    BY DEF ListFits
<1>2. \A t \in Services : ListFits(lists'[t], t, request')
    BY DEF ListsInv
<1> QED  BY <1>1, <1>2 DEF ListsInv, ListFits, Homed, Load, Distinct, Urls

LEMMA InitLists == Init => ListsInv
<1> SUFFICES ASSUME Init  PROVE ListsInv
    OBVIOUS
<1>1. <<>> \in Seq(BackendInstance(BackendUrls)) /\ DOMAIN <<>> = {}
    BY EmptySeq
<1>2. lists = [s \in Services |-> <<>>]
    BY DEF Init
<1>3. \A s \in Services : ListFits(lists[s], s, request)
    BY <1>1, <1>2 DEF Init, ListFits, Homed, Distinct
<1> QED  BY <1>1, <1>2, <1>3, InitIInv DEF ListsInv

LEMMA AdmissionKeepsLists ==
    ASSUME ListsInv, IInv', NEW r \in Requests, request[r] = Idle, NEW s \in Services,
           NEW u \in BackendUrls, NEW list, Admission(r, s, u, list),
           ListFits(list, s, request), s \notin Direct => u \in Urls(list)
    PROVE  ListsInv'
<1> DEFINE next == AfterCanExecute(breaker[s])
           taken == [at |-> "body", service |-> s, target |-> u,
                     pass |-> IF next.state = "closed" THEN "regular" ELSE "probe"]
           admitted == CanExecute(breaker[s])
           f == IF admitted THEN [request EXCEPT ![r] = taken] ELSE request
           counted == IF admitted THEN AfterRequestStart(list, u) ELSE list
<1>1. lists' = [lists EXCEPT ![s] = counted] /\ request' = Settled(f, s, next)
    BY DEF Admission, CountedIf
<1>2. taken \in InFlight /\ taken.service = s /\ taken.target = u
    BY DEF InFlight
<1>3. request \in [Requests -> InFlight \cup {Idle}]
    BY DEF ListsInv, IInv, FlightTypes
<1> HIDE DEF next, taken
<1>4. f \in [Requests -> InFlight \cup {Idle}]
    BY <1>2, <1>3
<1>5. /\ ListFits(counted, s, f)
      /\ \A t \in Services \ {s} : ListFits(lists[t], t, request) => ListFits(lists[t], t, f)
    <2>1. CASE admitted
        BY <1>2, <1>3, <2>1, StartFits
    <2>2. CASE ~admitted
        BY <2>2
    <2> QED  BY <2>1, <2>2
<1> HIDE DEF f, counted
<1>6. /\ ListFits(counted, s, request')
      /\ \A t \in Services \ {s} : ListFits(lists[t], t, request')
             <=> ListFits(lists[t], t, f)
    BY <1>1, <1>4, <1>5, SettledLoad
<1> QED  BY <1>1, <1>5, <1>6, ListStep

LEMMA ArriveKeepsLists ==
    ASSUME ListsInv, IInv', NEW r \in Requests, Arrive(r)
    PROVE  ListsInv'
<1>1. ASSUME NEW path \in Paths, ArriveRouted(r, path)  PROVE ListsInv'
    <2>1. request[r] = Idle
        BY <1>1 DEF ArriveRouted
    <2>2. PICK route \in Routes :
              LET s == route.prefix
                  list == RegisterAll(lists[s], route.backends)
              IN  \/ lists' = [lists EXCEPT ![s] = list] /\ UNCHANGED request
                  \/ \E i \in HealthyBackends(list), u \in BackendUrls :
                         u = list[i].url /\ Admission(r, s, u, list)
        BY <1>1 DEF ArriveRouted
    <2> DEFINE s == route.prefix
               list == RegisterAll(lists[s], route.backends)
    <2>3. s \in Services /\ s \notin Direct /\ route.backends \in Seq(BackendUrls)
        BY Routed
    <2>4. ListFits(list, s, request)
        BY <2>3, RegistrationFits DEF ListsInv
    <2>5. CASE lists' = [lists EXCEPT ![s] = list] /\ UNCHANGED request
        <3> HIDE DEF s, list
        <3> QED  BY <2>3, <2>4, <2>5, ListStep
    <2>6. CASE \E i \in HealthyBackends(list), u \in BackendUrls :
                   u = list[i].url /\ Admission(r, s, u, list)
        <3>1. PICK i \in HealthyBackends(list), u \in BackendUrls :
                  u = list[i].url /\ Admission(r, s, u, list)
            BY <2>6
        <3> HIDE DEF s, list
        <3>2. u \in Urls(list)
            BY <3>1 DEF Urls, HealthyBackends
        <3> QED  BY <2>1, <2>3, <2>4, <3>1, <3>2, AdmissionKeepsLists
    <2> QED  BY <2>2, <2>5, <2>6
<1>2. ASSUME NEW s \in Direct, ArriveDirect(r, s)  PROVE ListsInv'
    <2>1. /\ s \in Services /\ Target[s] \in BackendUrls /\ request[r] = Idle
          /\ Admission(r, s, Target[s], lists[s])
        BY <1>2, GatewayAssumption DEF Services, ArriveDirect, GatewayAssumption
    <2>2. ListFits(lists[s], s, request)
        BY <2>1 DEF ListsInv
    <2> QED  BY <2>1, <2>2, AdmissionKeepsLists
<1> QED  BY <1>1, <1>2 DEF Arrive

LEMMA FinishKeepsLists ==
    ASSUME ListsInv, IInv', NEW r \in Requests, request[r] # Idle,
           NEW next, NEW success, Finish(r, next, success)
    PROVE  ListsInv'
<1> DEFINE s == request[r].service
           f == [request EXCEPT ![r] = Idle]
           list == AfterRequestEnd(lists[s], request[r].target)
<1>1. request \in [Requests -> InFlight \cup {Idle}] /\ s \in Services
    BY DEF ListsInv, IInv, FlightTypes, InFlight
<1>2. request' = Settled(f, s, next) /\ lists' = [lists EXCEPT ![s] = list]
    <2>1. lists \in [Services -> Seq(BackendInstance(BackendUrls))]
        BY DEF ListsInv
    <2> QED  BY <1>1, <2>1 DEF Finish
<1>3. f \in [Requests -> InFlight \cup {Idle}]
    BY <1>1
<1>4. /\ ListFits(list, s, f)
      /\ \A t \in Services \ {s} : ListFits(lists[t], t, request) => ListFits(lists[t], t, f)
    BY <1>1, EndFits DEF ListsInv
<1> HIDE DEF f, list, s
<1>5. /\ ListFits(list, s, request')
      /\ \A t \in Services \ {s} : ListFits(lists[t], t, request') <=> ListFits(lists[t], t, f)
    BY <1>1, <1>2, <1>3, <1>4, SettledLoad
<1> QED  BY <1>1, <1>2, <1>4, <1>5, ListStep

\* A health round changes no counter (lb.py:391-414).
LEMMA RoundKeepsLists ==
    ASSUME ListsInv, IInv', HealthRound
    PROVE  ListsInv'
<1>1. ASSUME NEW s \in Services
      PROVE  /\ lists'[s] \in Seq(BackendInstance(BackendUrls))
             /\ ListFits(lists'[s], s, request)
    <2> DEFINE list == lists[s]
               next == lists'[s]
    <2>1. list \in Seq(BackendInstance(BackendUrls)) /\ Distinct(list)
        BY DEF ListsInv, ListFits
    <2>2. /\ next = [i \in DOMAIN list |-> next[i]]
          /\ \A i \in DOMAIN list : next[i] \in {list[i], Reinstated(list[i]), Struck(list[i])}
        BY DEF HealthRound
    <2>3. ListFits(list, s, request)
        BY DEF ListsInv
    <2> HIDE DEF list, next
    <2>4. /\ next \in Seq(BackendInstance(BackendUrls)) /\ Distinct(next)
          /\ Urls(next) = Urls(list)
          /\ \A i \in DOMAIN list :
                 /\ next[i].url = list[i].url
                 /\ next[i].active_connections = list[i].active_connections
        BY <2>1, <2>2, Applies
    <2>5. DOMAIN next = DOMAIN list
        BY <2>2
    <2>6. ListFits(next, s, request)
        BY <2>3, <2>4, <2>5 DEF ListFits, Homed
    <2> QED  BY <2>4, <2>6 DEF next
<1>2. lists' \in [Services -> Seq(BackendInstance(BackendUrls))]
    BY <1>1 DEF HealthRound
<1>3. request' = request
    BY DEF HealthRound
<1> QED  BY <1>1, <1>2, <1>3 DEF ListsInv, ListFits, Homed, Load, Distinct, Urls

LEMMA NextKeepsLists == ListsInv /\ [Next]_vars => ListsInv'
<1> SUFFICES ASSUME ListsInv, [Next]_vars  PROVE ListsInv'
    OBVIOUS
<1>1. IInv'
    BY NextKeepsIInv DEF ListsInv
<1>2. CASE \/ \E f \in Files : Reload(f)
           \/ Tick
           \/ \E u \in BackendUrls : Flips(u)
           \/ UNCHANGED vars
    <2>1. lists' = lists /\ request' = request
        BY <1>2 DEF Reload, Tick, Flips, vars
    <2>2. \A s \in Services : ListFits(lists[s], s, request)
        BY DEF ListsInv
    <2>3. \A s \in Services : ListFits(lists'[s], s, request')
        BY <2>1, <2>2
    <2>4. lists' \in [Services -> Seq(BackendInstance(BackendUrls))]
        BY <2>1 DEF ListsInv
    <2> QED
        BY <1>1, <2>3, <2>4 DEF ListsInv, ListFits, Homed, Load, Distinct, Urls
<1>3. ASSUME NEW r \in Requests, BodyRead(r) \/ Connect(r)  PROVE ListsInv'
    <2>0. PICK at \in {"pool", "backend"} :
              /\ request[r] \in InFlight
              /\ request' = [request EXCEPT ![r] = [request[r] EXCEPT !.at = at]]
              /\ UNCHANGED <<table, lists, breaker, up, failed>>
        BY <1>3, Waits DEF ListsInv, IInv, FlightTypes
    <2> DEFINE waiting == [request[r] EXCEPT !.at = at]
    <2>1. /\ request[r] \in InFlight /\ request' = [request EXCEPT ![r] = waiting]
          /\ request \in [Requests -> InFlight \cup {Idle}] /\ lists' = lists
          /\ request[r] # Idle
        BY <2>0, IdleAssumption DEF ListsInv, IInv, FlightTypes, IdleAssumption
    <2>2. /\ waiting # Idle /\ waiting.service = request[r].service
          /\ waiting.target = request[r].target
        BY <2>1, IdleAssumption DEF InFlight, IdleAssumption
    <2> HIDE DEF waiting
    <2>3. \A s, u : Load(request', s, u) = Load(request, s, u)
        BY <2>1, <2>2 DEF Load
    <2>4. \A s \in Services : Homed(lists[s], s, request) <=> Homed(lists[s], s, request')
        BY <2>1, <2>2 DEF Homed
    <2>5. \A s \in Services : ListFits(lists[s], s, request')
        BY <2>3, <2>4 DEF ListsInv, ListFits
    <2> QED  BY <1>1, <2>1, <2>5 DEF ListsInv, ListFits, Homed, Load, Distinct, Urls
<1>4. ASSUME NEW r \in Requests, ClientAborts(r) \/ PoolTimeout(r) \/ Answer(r)
      PROVE  ListsInv'
    BY <1>1, <1>4, FinishKeepsLists
       DEF ClientAborts, PoolTimeout, Answer, Succeed, AnswerError, NoAnswer
<1>5. HealthRound => ListsInv'
    BY <1>1, RoundKeepsLists
<1>6. \A r \in Requests : Arrive(r) => ListsInv'
    BY <1>1, ArriveKeepsLists
<1> QED  BY <1>2, <1>3, <1>4, <1>5, <1>6 DEF Next

LEMMA ListsInvAlways == Spec => []ListsInv
BY InitLists, NextKeepsLists, PTL DEF Spec

-------------------------------------------------------------------------------
(* The contract of every service's breaker.                                *)

\* What a caller of service s sees of its breaker (cb.py:78-87).
Contract(s) == INSTANCE BreakerContract WITH
    CoolDown <- RecoveryTimeout, ProbeSlots <- HalfOpenMaxCalls,
    mode <- breaker[s].state,
    wait <- IF breaker[s].state = "open" THEN RecoveryTimeout - breaker[s].elapsed ELSE 0,
    spent <- breaker[s].half_open_calls

\* What the methods of a breaker, and the clock, make of it (cb.py:174-281).
Methods(b) == {b, AfterCanExecute(b), AfterSuccess(b), AfterFailure(b), AfterTick(b)}

\* Whatever a step does to the breaker of a service is one method of it
\* (main.py:193-219).
LEMMA MethodsOnly ==
    ASSUME IInv, [Next]_vars, NEW s \in Services
    PROVE  breaker'[s] \in Methods(breaker[s])
<1>1. breaker \in [Services -> Breaker] /\ request \in [Requests -> InFlight \cup {Idle}]
    BY DEF IInv, FlightTypes
<1>2. ASSUME NEW t \in Services, NEW next \in Methods(breaker[t]),
             breaker' = [breaker EXCEPT ![t] = next]
      PROVE  breaker'[s] \in Methods(breaker[s])
    BY <1>1, <1>2 DEF Methods
<1>3. CASE UNCHANGED breaker
    BY <1>3 DEF Methods
<1>4. ASSUME NEW r \in Requests, NEW t \in Services, NEW u, NEW list, Admission(r, t, u, list)
      PROVE  breaker'[s] \in Methods(breaker[s])
    BY <1>2, <1>4 DEF Admission, Methods
<1>5. ASSUME NEW r \in Requests, Arrive(r)  PROVE breaker'[s] \in Methods(breaker[s])
    <2>1. ASSUME NEW path \in Paths, ArriveRouted(r, path)
          PROVE  breaker'[s] \in Methods(breaker[s])
        BY <1>3, <1>4, <2>1, Routed DEF ArriveRouted
    <2>2. ASSUME NEW t \in Direct, ArriveDirect(r, t)
          PROVE  breaker'[s] \in Methods(breaker[s])
        BY <1>4, <2>2 DEF ArriveDirect, Services
    <2> QED  BY <1>5, <2>1, <2>2 DEF Arrive
<1>6. ASSUME NEW r \in Requests, ClientAborts(r) \/ PoolTimeout(r) \/ Answer(r)
      PROVE  breaker'[s] \in Methods(breaker[s])
    <2> DEFINE t == request[r].service
    <2>1. t \in Services
        BY <1>1, <1>6
           DEF InFlight, ClientAborts, PoolTimeout, Answer, Succeed, AnswerError, NoAnswer
    <2>2. PICK next \in {AfterSuccess(breaker[t]), AfterFailure(breaker[t])} :
              breaker' = [breaker EXCEPT ![t] = next]
        BY <1>6 DEF ClientAborts, PoolTimeout, Answer, Succeed, AnswerError, NoAnswer,
                    AfterException, Finish, Recorded
    <2>3. next \in Methods(breaker[t])
        BY DEF Methods
    <2> HIDE DEF t
    <2> QED  BY <1>2, <2>1, <2>2, <2>3
<1>7. CASE Tick
    BY <1>7 DEF Tick, Methods
<1>8. CASE \/ \E r \in Requests : BodyRead(r) \/ Connect(r)
           \/ \E f \in Files : Reload(f)
           \/ HealthRound
           \/ \E u \in BackendUrls : Flips(u)
           \/ UNCHANGED vars
    BY <1>3, <1>8 DEF BodyRead, Connect, Reload, HealthRound, Flips, vars
<1> QED  BY <1>5, <1>6, <1>7, <1>8 DEF Next

\* A method that may be called at any time is a step of the contract or changes
\* nothing of it (cb.py:78-87).
LEMMA MethodImplementsContract ==
    ASSUME NEW s \in Services, breaker[s] \in Breaker,
           breaker[s].state # "half_open" => breaker[s].half_open_calls = 0,
           breaker'[s] \in Methods(breaker[s])
    PROVE  [Contract(s)!Next]_(Contract(s)!vars)
<1> DEFINE b == breaker[s]
           n == breaker'[s]
<1> USE BreakerAssumption DEF BreakerAssumption
<1>1. CASE n = AfterCanExecute(b)
    <2>1. CASE b.state = "closed"
        BY <1>1, <2>1 DEF AfterCanExecute, HasProbeSlot, Promote, Contract!vars
    <2>2. CASE b.state = "open" /\ b.elapsed < RecoveryTimeout
        BY <1>1, <2>2 DEF Breaker, AfterCanExecute, HasProbeSlot, Promote, Contract!vars
    <2>3. CASE b.state = "open" /\ ~(b.elapsed < RecoveryTimeout)
        <3>1. b.elapsed = RecoveryTimeout
            BY <2>3 DEF Breaker
        <3>2. Promote(b) = [b EXCEPT !.state = "half_open", !.half_open_calls = 0]
            BY <2>3, <3>1 DEF Promote
        <3>3. Promote(b).state = "half_open" /\ Promote(b).half_open_calls = 0
            BY <3>2 DEF Breaker
        <3>4. n = [Promote(b) EXCEPT !.half_open_calls = @ + 1]
            BY <1>1, <3>3 DEF AfterCanExecute, HasProbeSlot
        <3>5. n.state = "half_open" /\ n.half_open_calls = 1
            BY <3>2, <3>4 DEF Breaker
        <3> QED  BY <2>3, <3>1, <3>5 DEF Contract!Next, Contract!Promote
    <2>4. CASE b.state = "half_open"
        BY <1>1, <2>4
        DEF Breaker, AfterCanExecute, HasProbeSlot, Promote, Contract!Next, Contract!Probe,
            Contract!vars
    <2> QED  BY <2>1, <2>2, <2>3, <2>4 DEF Breaker, CircuitState
<1>2. CASE n = AfterSuccess(b)
    BY <1>2
    DEF Breaker, CircuitState, AfterSuccess, Contract!Next, Contract!Recover, Contract!vars
<1>3. CASE n = AfterFailure(b)
    BY <1>3
    DEF Breaker, CircuitState, AfterFailure, Counted, TripOpen, Contract!Next,
        Contract!Trip, Contract!vars
<1>4. CASE n = AfterTick(b)
    BY <1>4
    DEF Breaker, CircuitState, AfterTick, UpTo, Contract!Next, Contract!Cool, Contract!vars
<1>5. CASE n = b
    BY <1>5 DEF Contract!vars
<1> QED  BY <1>1, <1>2, <1>3, <1>4, <1>5 DEF Methods

-------------------------------------------------------------------------------

\* Every probe slot of every service is that of a probe in flight, whichever way
\* requests end and whatever reloads and health rounds come between
\* (main.py:178-219).
THEOREM SlotsAreProbes == Spec => []SlotsMatchProbes
<1>1. \A s \in Services : ProbesOf(s) = ProbesIn(request, s)
    BY DEF ProbesOf, Busy, ProbesIn
<1>2. IInv => SlotsMatchProbes
    BY <1>1 DEF IInv, Fits, SlotsMatchProbes
<1> QED  BY <1>2, IInvAlways, PTL

\* The breaker of a service leaves the closed state only after failures of that
\* service's own requests (cb.py:349-376), a failure to get a connection included.
THEOREM NoCascading == Spec => []NoCascade
<1>1. IInv => NoCascade
    BY DEF IInv
<1> QED  BY <1>1, IInvAlways, PTL

\* What least-connections compares is the number of requests in flight, for every
\* service and backend, whatever registrations, reloads, health rounds and ways to
\* end come in between (main.py:195-219, lb.py:61).
THEOREM ConnectionsAlwaysExact == Spec => []ConnectionsExact
<1>1. \A s, u : {r \in Busy(s) : request[r].target = u} = Load(request, s, u)
    BY DEF Busy, Load
<1>2. ASSUME ListsInv, NEW s \in Services, NEW i \in DOMAIN lists[s]
      PROVE  lists[s][i].active_connections
                 = Cardinality({r \in Busy(s) : request[r].target = lists[s][i].url})
    <2>1. ListFits(lists[s], s, request)
        BY <1>2 DEF ListsInv
    <2>2. lists[s][i].active_connections = Cardinality(Load(request, s, lists[s][i].url))
        BY <2>1 DEF ListFits
    <2> QED  BY <1>1, <2>2
<1>3. ListsInv => ConnectionsExact
    BY <1>2 DEF ConnectionsExact
<1> QED  BY <1>3, ListsInvAlways, PTL

\* Each service's breaker is the state machine its documentation draws, with the
\* cool-down and the probe slots of the configuration: no handler, reload, health
\* round or abort does anything to a breaker but call its methods, one at a time,
\* and nothing in the gateway resets one (cb.py:78-87, main.py:193-219).
THEOREM BreakersImplementContract == Spec => \A s \in Services : Contract(s)!Spec
<1> SUFFICES ASSUME NEW CONSTANT s \in Services  PROVE Spec => Contract(s)!Spec
    OBVIOUS
<1>1. Init => Contract(s)!Init
    BY DEF Init, NewBreaker, Contract!Init
<1>2. IInv /\ [Next]_vars => [Contract(s)!Next]_(Contract(s)!vars)
    <2> SUFFICES ASSUME IInv, [Next]_vars  PROVE [Contract(s)!Next]_(Contract(s)!vars)
        OBVIOUS
    <2>1. breaker[s] \in Breaker
        BY DEF IInv, FlightTypes
    <2>2. breaker[s].state # "half_open" => breaker[s].half_open_calls = 0
        BY FS_EmptySet DEF IInv, Fits
    <2> QED  BY <2>1, <2>2, MethodsOnly, MethodImplementsContract
<1> QED  BY <1>1, <1>2, IInvAlways, PTL DEF Spec, Contract!Spec
===============================================================================
