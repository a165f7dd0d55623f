-------------------------- MODULE LoadBalancerProofs --------------------------
(***************************************************************************)
(* TLAPS proofs about LoadBalancer, for every set of backends, requests    *)
(* and health threads and every threshold.  The proofs are in three parts, *)
(* each on top of the one before:                                          *)
(*  - CountInv: the counters of the list are the requests in flight.  Not  *)
(*    inductive without Homeless: a request whose backend is not in the    *)
(*    list is one that a deregistration has orphaned.                      *)
(*  - RotationInv: what the health thread carries from its snapshot to its *)
(*    verdict is about entries that are still in the list, one result for  *)
(*    each, and the list is behind the probes by exactly those results.    *)
(*  - ShareInv: which backends have been picked since all were is a matter *)
(*    of the counter's position among the healthy ones alone.              *)
(***************************************************************************)
EXTENDS LoadBalancer, BalancerOpsProofs

Round == [pc : {"off", "waiting", "probing"}, todo : Seq(BackendUrls),
          results : SUBSET Result]

\* A request has its backend in the list, or has seen it deregistered.
Homeless ==
    \A r \in Requests : request[r] # Idle => request[r] \in Urls(backends) \cup orphaned

CountInv == TypeOK /\ NoDuplicates /\ ConnectionsExact /\ Homeless

-------------------------------------------------------------------------------
(* Connections.                                                            *)

LEMMA Constants ==
    /\ IsFiniteSet(BackendUrls) /\ IsFiniteSet(Requests)
    /\ Idle \notin BackendUrls /\ NoThread \notin Threads
    /\ RRPeriod \in Nat \ {0} /\ ProbeThreshold \in Nat \ {0}
BY BalancerAssumption, ProbeAssumption DEF BalancerAssumption, ProbeAssumption

LEMMA ListTypes ==
    ASSUME TypeOK, NoDuplicates
    PROVE  /\ backends \in Seq(BackendInstance(BackendUrls)) /\ Distinct(backends)
           /\ \A i \in DOMAIN backends :
                  /\ backends[i] \in BackendInstance(BackendUrls)
                  /\ backends[i].url \in BackendUrls /\ backends[i].url \in Urls(backends)
                  /\ backends[i].healthy \in BOOLEAN
                  /\ backends[i].active_connections \in Nat
                  /\ backends[i].consecutive_failures \in 0 .. ProbeThreshold
<1>1. backends \in Seq(BackendInstance(BackendUrls)) /\ Distinct(backends)
    BY DEF TypeOK, NoDuplicates, Distinct
<1>2. \A i \in DOMAIN backends : backends[i] \in BackendInstance(BackendUrls)
    BY <1>1, Entries
<1> QED  BY <1>1, <1>2 DEF BackendInstance, Urls

LEMMA ServingFinite ==
    ASSUME NEW u
    PROVE  IsFiniteSet(Serving(u)) /\ Cardinality(Serving(u)) \in Nat
<1>1. Serving(u) \subseteq Requests
    BY DEF Serving
<1> QED  BY <1>1, Constants, FS_Subset, FS_CardinalityType

\* The counters of a list that fit requests f and orphans O.
Exact(list, f, O) ==
    \A i \in DOMAIN list :
        LET n == Cardinality({r \in Requests : f[r] = list[i].url})
        IN  /\ list[i].active_connections <= n
            /\ list[i].url \notin O => list[i].active_connections = n

LEMMA ExactMeans == ConnectionsExact <=> Exact(backends, request, orphaned)
BY DEF ConnectionsExact, Exact, Serving

\* What a step has to do to the list for the invariant to hold after it.
LEMMA CountInvNext ==
    ASSUME backends' \in Seq(BackendInstance(BackendUrls)), Distinct(backends'),
           TypeOK', Exact(backends', request', orphaned'),
           \A r \in Requests : request'[r] # Idle => request'[r] \in Urls(backends') \cup orphaned'
    PROVE  CountInv'
<1>1. NoDuplicates'
    BY DEF NoDuplicates, Distinct
<1>2. ConnectionsExact'
    BY DEF ConnectionsExact, Exact, Serving
<1>3. Homeless'
    BY DEF Homeless, Urls
<1> QED  BY <1>1, <1>2, <1>3 DEF CountInv

LEMMA InitCount == Init => CountInv
<1> SUFFICES ASSUME Init  PROVE CountInv
    OBVIOUS
<1>1. backends = <<>> /\ DOMAIN backends = {}
    BY DEF Init
<1>2. TypeOK
    <2>1. /\ backends \in Seq(BackendInstance(BackendUrls))
          /\ <<>> \in Seq(BackendUrls) /\ {} \in SUBSET Result
        BY <1>1
    <2>2. loop \in [Threads -> Round]
        BY <2>1 DEF Init, Off, Round
    <2>3. /\ rr_counter \in 0 .. RRPeriod - 1
          /\ strikes \in [BackendUrls -> 0 .. ProbeThreshold]
          /\ picks \in [BackendUrls -> Nat]
        BY Constants DEF Init, NoPicks
    <2> QED  BY <2>1, <2>2, <2>3 DEF Init, TypeOK, Round
<1>3. NoDuplicates /\ ConnectionsExact
    BY <1>1 DEF NoDuplicates, ConnectionsExact
<1>4. Homeless
    BY DEF Init, Homeless
<1> QED  BY <1>2, <1>3, <1>4 DEF CountInv

\* A new healthy set resets the picks, or leaves them.
LEMMA ListsPicks ==
    ASSUME TypeOK, NEW next, List(next)
    PROVE  backends' = next /\ picks' \in [BackendUrls -> Nat]
BY DEF List, TypeOK, NoPicks

\* A new entry has no requests: those of an old one with its URL are orphans
\* (lb.py:155-175).
LEMMA RegisterCount ==
    ASSUME CountInv, NEW u \in BackendUrls, Register(u)
    PROVE  CountInv'
<1> DEFINE next == AfterRegister(backends, u)
<1>1. /\ TypeOK /\ backends \in Seq(BackendInstance(BackendUrls)) /\ Distinct(backends)
    BY ListTypes DEF CountInv
<1>2. /\ next \in Seq(BackendInstance(BackendUrls)) /\ Distinct(next)
      /\ Urls(next) = Urls(backends) \cup {u}
      /\ \A i \in DOMAIN next :
             \/ i \in DOMAIN backends /\ next[i] = backends[i]
             \/ u \notin Urls(backends) /\ next[i] = NewBackend(u)
    BY <1>1, Registers
<1> HIDE DEF next
<1>3. /\ backends' = next /\ picks' \in [BackendUrls -> Nat]
      /\ rr_counter' = rr_counter /\ request' = request /\ orphaned' = orphaned
      /\ loop' = loop /\ health_thread' = health_thread /\ stop' = stop
      /\ stopping' = stopping /\ strikes' = strikes /\ up' = up
    BY <1>1, ListsPicks DEF Register, lifecycle, health, next
<1>4. TypeOK'
    BY <1>1, <1>2, <1>3 DEF TypeOK
<1>5. ASSUME NEW i \in DOMAIN next
      PROVE  LET n == Cardinality({r \in Requests : request[r] = next[i].url})
             IN  /\ next[i].active_connections <= n
                 /\ next[i].url \notin orphaned => next[i].active_connections = n
    <2>1. CASE i \in DOMAIN backends /\ next[i] = backends[i]
        BY <2>1 DEF CountInv, ConnectionsExact, Serving
    <2>2. CASE u \notin Urls(backends) /\ next[i] = NewBackend(u)
        <3>1. next[i].url = u /\ next[i].active_connections = 0
            BY <2>2 DEF NewBackend
        <3>2. Serving(u) = {r \in Requests : request[r] = u} /\ Cardinality(Serving(u)) \in Nat
            BY ServingFinite DEF Serving
        <3>3. u \notin orphaned => Serving(u) = {}
            BY <2>2, Constants DEF CountInv, Homeless, Serving
        <3> QED  BY <3>1, <3>2, <3>3, FS_EmptySet
    <2> QED  BY <1>2, <2>1, <2>2
<1>6. Exact(next, request, orphaned)
    BY <1>5 DEF Exact
<1>7. \A r \in Requests : request[r] # Idle => request[r] \in Urls(next) \cup orphaned
    BY <1>2 DEF CountInv, Homeless
<1> QED  BY <1>2, <1>3, <1>4, <1>6, <1>7, CountInvNext

\* A dispatch raises the counter of the entry it chose (lb.py:298-308).
LEMMA SendCount ==
    ASSUME CountInv, NEW r \in Requests, request[r] = Idle,
           NEW i \in DOMAIN backends, Send(r, i), TypeOK',
           orphaned' = orphaned
    PROVE  CountInv'
<1> DEFINE u == backends[i].url
           next == AfterRequestStart(backends, u)
<1>1. /\ TypeOK /\ backends \in Seq(BackendInstance(BackendUrls)) /\ Distinct(backends)
      /\ u \in BackendUrls /\ u \in Urls(backends) /\ u # Idle
    BY ListTypes, Constants DEF CountInv
<1>2. /\ next \in Seq(BackendInstance(BackendUrls)) /\ Distinct(next)
      /\ DOMAIN next = DOMAIN backends /\ Urls(next) = Urls(backends)
      /\ \A j \in DOMAIN backends :
             /\ next[j].url = backends[j].url
             /\ backends[j].url # u => next[j] = backends[j]
    BY <1>1, CountsRequest DEF Recounted
<1>3. /\ backends[i].active_connections \in Nat
      /\ next[i].active_connections = backends[i].active_connections + 1
    BY <1>1, CountsOne
<1>4. backends' = next /\ request' = [request EXCEPT ![r] = u]
    BY DEF Send
<1>5. request'[r] = u /\ \A q \in Requests \ {r} : request'[q] = request[q]
    BY <1>1, <1>4 DEF TypeOK
<1> HIDE DEF u, next
<1>6. ASSUME NEW j \in DOMAIN next
      PROVE  LET n == Cardinality({q \in Requests : request'[q] = next[j].url})
             IN  /\ next[j].active_connections <= n
                 /\ next[j].url \notin orphaned => next[j].active_connections = n
    <2> DEFINE v == backends[j].url
               before == {q \in Requests : request[q] = v}
               after == {q \in Requests : request'[q] = v}
    <2>1. /\ j \in DOMAIN backends /\ next[j].url = v
          /\ IsFiniteSet(before) /\ Cardinality(before) \in Nat
          /\ backends[j].active_connections <= Cardinality(before)
          /\ v \notin orphaned => backends[j].active_connections = Cardinality(before)
        BY <1>2, ServingFinite DEF CountInv, ConnectionsExact, Serving
    <2>2. CASE v = u
        <3>1. j = i
            BY <1>1, <2>1, <2>2 DEF Distinct, u
        <3>2. r \notin before /\ after = before \cup {r}
            BY <1>1, <1>5, <2>2
        <3>3. Cardinality(after) = Cardinality(before) + 1
            BY <2>1, <3>2, FS_AddElement
        <3> HIDE DEF v, before, after
        <3>4. next[j].active_connections = backends[j].active_connections + 1
            BY <1>3, <3>1
        <3>5. backends[j].active_connections \in Nat
            BY <1>3, <3>1
        <3>6. /\ next[j].active_connections <= Cardinality(after)
              /\ v \notin orphaned => next[j].active_connections = Cardinality(after)
            BY <2>1, <3>3, <3>4, <3>5
        <3> QED  BY <2>1, <3>6 DEF v, after
    <2>3. CASE v # u
        <3>1. v # Idle
            BY <1>1, <2>1, ListTypes, Constants DEF CountInv
        <3>2. after = before
            BY <1>5, <2>3, <3>1
        <3>3. next[j] = backends[j]
            BY <1>2, <2>1, <2>3
        <3> QED  BY <2>1, <3>2, <3>3
    <2> QED  BY <2>2, <2>3
<1>7. Exact(backends', request', orphaned')
    BY <1>4, <1>6 DEF Exact
<1>8. \A q \in Requests : request'[q] # Idle => request'[q] \in Urls(next) \cup orphaned
    BY <1>1, <1>2, <1>5 DEF CountInv, Homeless
<1> QED  BY <1>2, <1>4, <1>7, <1>8, CountInvNext

LEMMA LevelType ==
    ASSUME NEW f \in [BackendUrls -> Nat]
    PROVE  Level(f) \in [BackendUrls -> Nat]
<1>1. CASE \A u \in HealthyUrls(backends) : f[u] > 0
    <2>1. ASSUME NEW u \in BackendUrls
          PROVE  (IF u \in HealthyUrls(backends) THEN f[u] - 1 ELSE 0) \in Nat
        BY <1>1
    <2> QED  BY <1>1, <2>1 DEF Level
<1>2. CASE ~\A u \in HealthyUrls(backends) : f[u] > 0
    BY <1>2 DEF Level
<1> QED  BY <1>1, <1>2

\* Either strategy dispatches to an entry of the list (lb.py:221-292).
LEMMA DispatchCount ==
    ASSUME CountInv, NEW r \in Requests, DispatchRoundRobin(r) \/ DispatchLeastConnections(r)
    PROVE  CountInv'
<1>1. /\ TypeOK /\ backends \in Seq(BackendInstance(BackendUrls)) /\ Distinct(backends)
      /\ request[r] = Idle /\ HealthyBackends(backends) # {} /\ orphaned' = orphaned
      /\ rr_counter \in Nat
    BY ListTypes, Constants
       DEF CountInv, TypeOK, DispatchRoundRobin, DispatchLeastConnections
<1>2. PICK i \in DOMAIN backends :
          /\ Send(r, i)
          /\ \/ picks' = picks
             \/ picks' = Level([picks EXCEPT ![backends[i].url] = @ + 1])
    <2>1. CASE DispatchRoundRobin(r)
        <3>1. RoundRobin(backends, rr_counter) \in HealthyBackends(backends)
            BY <1>1, RoundRobinPicks
        <3>2. RoundRobin(backends, rr_counter) \in DOMAIN backends
            BY <3>1 DEF HealthyBackends
        <3> QED  BY <2>1, <3>2 DEF DispatchRoundRobin
    <2>2. CASE DispatchLeastConnections(r)
        <3>1. LeastConnections(backends) \in HealthyBackends(backends)
            BY <1>1, LeastConnectionsPicks
        <3>2. LeastConnections(backends) \in DOMAIN backends
            BY <3>1 DEF HealthyBackends
        <3> QED  BY <2>2, <3>2 DEF DispatchLeastConnections
    <2> QED  BY <2>1, <2>2
<1>3. backends[i].url \in BackendUrls
    BY <1>1, ListTypes DEF CountInv
<1>4. backends' \in Seq(BackendInstance(BackendUrls))
    BY <1>1, <1>2, CountsRequest DEF Send, Recounted
<1>5. picks' \in [BackendUrls -> Nat]
    <2>1. picks \in [BackendUrls -> Nat]
        BY <1>1 DEF TypeOK
    <2>2. [picks EXCEPT ![backends[i].url] = @ + 1] \in [BackendUrls -> Nat]
        BY <1>3, <2>1
    <2> QED  BY <1>2, <2>1, <2>2, LevelType
<1>6. rr_counter' \in 0 .. RRPeriod - 1
    BY <1>1, Constants DEF DispatchRoundRobin, DispatchLeastConnections, CountInv, TypeOK
<1>7. request' \in [Requests -> BackendUrls \cup {Idle}]
    BY <1>1, <1>2, <1>3 DEF Send, TypeOK
<1>8. TypeOK'
    BY <1>1, <1>4, <1>5, <1>6, <1>7
       DEF TypeOK, DispatchRoundRobin, DispatchLeastConnections, lifecycle, health
<1> QED  BY <1>1, <1>2, <1>8, SendCount

\* The end of a request lowers the counter, unless its backend was deregistered
\* under it and counts anew (lb.py:310-323).
LEMMA EndCount ==
    ASSUME CountInv, NEW r \in Requests, End(r)
    PROVE  CountInv'
<1> DEFINE u == request[r]
           next == AfterRequestEnd(backends, u)
<1>1. /\ TypeOK /\ backends \in Seq(BackendInstance(BackendUrls)) /\ Distinct(backends)
      /\ u # Idle /\ u \in BackendUrls
    BY ListTypes DEF CountInv, End, TypeOK
<1>2. /\ next \in Seq(BackendInstance(BackendUrls)) /\ Distinct(next)
      /\ DOMAIN next = DOMAIN backends /\ Urls(next) = Urls(backends)
      /\ \A j \in DOMAIN backends :
             /\ next[j].url = backends[j].url
             /\ backends[j].url # u => next[j] = backends[j]
    BY <1>1, CountsRequest DEF Recounted
<1>3. \A j \in DOMAIN backends : backends[j].url = u =>
          /\ backends[j].active_connections \in Nat
          /\ next[j].active_connections = IF backends[j].active_connections > 0
                                          THEN backends[j].active_connections - 1 ELSE 0
    BY <1>1, CountsOne
<1>4. /\ backends' = next /\ request' = [request EXCEPT ![r] = Idle]
      /\ orphaned' = orphaned \cap {request'[q] : q \in Requests}
    BY DEF End
<1>5. request'[r] = Idle /\ \A q \in Requests \ {r} : request'[q] = request[q]
    BY <1>1, <1>4 DEF TypeOK
<1>6. TypeOK'
    BY <1>1, <1>2, <1>4 DEF End, TypeOK, lifecycle, health
<1> HIDE DEF next
<1>7. ASSUME NEW j \in DOMAIN next
      PROVE  LET n == Cardinality({q \in Requests : request'[q] = next[j].url})
             IN  /\ next[j].active_connections <= n
                 /\ next[j].url \notin orphaned' => next[j].active_connections = n
    <2> DEFINE v == backends[j].url
               c == backends[j].active_connections
               before == {q \in Requests : request[q] = v}
               after == {q \in Requests : request'[q] = v}
    <2>1. /\ j \in DOMAIN backends /\ next[j].url = v
          /\ IsFiniteSet(before) /\ Cardinality(before) \in Nat
          /\ c <= Cardinality(before)
          /\ v \notin orphaned => c = Cardinality(before)
        BY <1>2, ServingFinite DEF CountInv, ConnectionsExact, Serving
    <2>2. c \in Nat /\ v # Idle
        BY <2>1, ListTypes, Constants DEF CountInv
    <2>3. v \notin orphaned' => v \notin orphaned \/ after = {}
        BY <1>4
    <2>4. CASE v = u
        <3>1. r \in before /\ after = before \ {r}
            BY <1>1, <1>5, <2>2, <2>4
        <3>2. /\ IsFiniteSet(after) /\ Cardinality(after) = Cardinality(before) - 1
              /\ Cardinality(after) \in Nat
            <4>1. /\ IsFiniteSet(before \ {r})
                  /\ Cardinality(before \ {r}) = Cardinality(before) - 1
                BY <2>1, <3>1, FS_RemoveElement
            <4> HIDE DEF before, after
            <4> QED  BY <3>1, <4>1, FS_CardinalityType
        <3>3. next[j].active_connections = IF c > 0 THEN c - 1 ELSE 0
            BY <1>3, <2>1, <2>4
        <3>4. after = {} => Cardinality(after) = 0
            BY FS_EmptySet
        <3> HIDE DEF v, before, after, c
        <3>5. next[j].active_connections <= Cardinality(after)
            BY <2>1, <2>2, <3>2, <3>3
        <3>6. v \notin orphaned' => next[j].active_connections = Cardinality(after)
            BY <2>1, <2>2, <2>3, <3>2, <3>3, <3>4
        <3> QED  BY <2>1, <3>5, <3>6 DEF v, after
    <2>5. CASE v # u
        <3>1. after = before
            BY <1>5, <2>2, <2>5
        <3>2. next[j] = backends[j]
            BY <1>2, <2>1, <2>5
        <3>3. before = {} => Cardinality(before) = 0
            BY FS_EmptySet
        <3>4. v \notin orphaned' => c = Cardinality(before)
            BY <2>1, <2>2, <2>3, <3>1, <3>3
        <3> QED  BY <2>1, <3>1, <3>2, <3>4
    <2> QED  BY <2>4, <2>5
<1>8. Exact(backends', request', orphaned')
    BY <1>4, <1>7 DEF Exact
<1>9. \A q \in Requests : request'[q] # Idle => request'[q] \in Urls(backends') \cup orphaned'
    BY <1>2, <1>4, <1>5 DEF CountInv, Homeless
<1> QED  BY <1>2, <1>4, <1>6, <1>8, <1>9, CountInvNext

\* A deregistration orphans the requests of its backend, and no others
\* (lb.py:177-191).
LEMMA DeregisterCount ==
    ASSUME CountInv, NEW u \in BackendUrls, Deregister(u)
    PROVE  CountInv'
<1> DEFINE next == AfterDeregister(backends, u)
<1>1. /\ TypeOK /\ backends \in Seq(BackendInstance(BackendUrls)) /\ Distinct(backends)
    BY ListTypes DEF CountInv
<1>2. /\ next \in Seq(BackendInstance(BackendUrls)) /\ Distinct(next)
      /\ Urls(next) = Urls(backends) \ {u}
      /\ \A k \in DOMAIN next : \E i \in DOMAIN backends : next[k] = backends[i]
    BY <1>1, Deregisters
<1> HIDE DEF next
<1>3. /\ backends' = next /\ picks' \in [BackendUrls -> Nat]
      /\ rr_counter' = rr_counter /\ request' = request
      /\ health_thread' = health_thread /\ stop' = stop
      /\ stopping' = stopping /\ up' = up
      /\ strikes' = [strikes EXCEPT ![u] = 0]
      /\ orphaned' = IF Serving(u) = {} THEN orphaned ELSE orphaned \cup {u}
    BY <1>1, ListsPicks DEF Deregister, lifecycle, next
<1>4. loop' \in [Threads -> Round]
    <2>1. ASSUME NEW t \in Threads
          PROVE  [loop[t] EXCEPT !.todo = Sublist(@, {i \in DOMAIN @ : @[i] # u}),
                                 !.results = {x \in @ : x.url # u}] \in Round
        <3>1. loop[t] \in Round
            BY <1>1 DEF TypeOK, Round
        <3>2. Sublist(loop[t].todo, {i \in DOMAIN loop[t].todo : loop[t].todo[i] # u})
                  \in Seq(BackendUrls)
            BY <3>1, SublistEntries DEF Round
        <3> QED  BY <3>1, <3>2 DEF Round
    <2> QED  BY <2>1 DEF Deregister
<1>5. TypeOK'
    BY <1>1, <1>2, <1>3, <1>4, Constants DEF TypeOK, Round
<1>6. ASSUME NEW k \in DOMAIN next
      PROVE  LET n == Cardinality({r \in Requests : request[r] = next[k].url})
             IN  /\ next[k].active_connections <= n
                 /\ next[k].url \notin orphaned' => next[k].active_connections = n
    <2>1. PICK i \in DOMAIN backends : next[k] = backends[i]
        BY <1>2
    <2>2. backends[i].url \notin orphaned' => backends[i].url \notin orphaned
        BY <1>3
    <2> QED  BY <2>1, <2>2 DEF CountInv, ConnectionsExact, Serving
<1>7. Exact(backends', request', orphaned')
    BY <1>3, <1>6 DEF Exact
<1>8. \A r \in Requests : request[r] # Idle => request[r] \in Urls(next) \cup orphaned'
    BY <1>2, <1>3 DEF CountInv, Homeless, Serving
<1> QED  BY <1>2, <1>3, <1>5, <1>7, <1>8, CountInvNext

\* A verdict changes no counter (lb.py:391-414).
LEMMA AfterProbesApplies ==
    ASSUME NEW list \in Seq(BackendInstance(BackendUrls)), Distinct(list), NEW R
    PROVE  LET next == AfterProbes(list, R)
           IN  /\ next \in Seq(BackendInstance(BackendUrls)) /\ Distinct(next)
               /\ Urls(next) = Urls(list) /\ DOMAIN next = DOMAIN list
               /\ \A i \in DOMAIN list :
                      /\ next[i].url = list[i].url
                      /\ next[i].active_connections = list[i].active_connections
<1> DEFINE next == AfterProbes(list, R)
<1>1. next = [i \in DOMAIN list |-> next[i]] /\ DOMAIN next = DOMAIN list
    BY DEF AfterProbes
<1>2. \A i \in DOMAIN list : next[i] \in {list[i], Reinstated(list[i]), Struck(list[i])}
    BY DEF AfterProbes
<1> HIDE DEF next
<1>3. /\ next \in Seq(BackendInstance(BackendUrls)) /\ Distinct(next)
      /\ Urls(next) = Urls(list)
      /\ \A i \in DOMAIN list :
             /\ next[i].url = list[i].url
             /\ next[i].active_connections = list[i].active_connections
    BY <1>1, <1>2, Applies
<1> QED  BY <1>1, <1>3 DEF next

LEMMA ApplyCount ==
    ASSUME CountInv, NEW t \in Threads, Apply(t)
    PROVE  CountInv'
<1> DEFINE next == AfterProbes(backends, loop[t].results)
<1>1. /\ TypeOK /\ backends \in Seq(BackendInstance(BackendUrls)) /\ Distinct(backends)
    BY ListTypes DEF CountInv
<1>2. /\ next \in Seq(BackendInstance(BackendUrls)) /\ Distinct(next)
      /\ Urls(next) = Urls(backends) /\ DOMAIN next = DOMAIN backends
      /\ \A i \in DOMAIN backends :
             /\ next[i].url = backends[i].url
             /\ next[i].active_connections = backends[i].active_connections
    BY <1>1, AfterProbesApplies
<1> HIDE DEF next
<1>3. /\ backends' = next /\ picks' \in [BackendUrls -> Nat]
      /\ rr_counter' = rr_counter /\ request' = request /\ orphaned' = orphaned
      /\ health_thread' = health_thread /\ stop' = stop /\ stopping' = stopping
      /\ strikes' = strikes /\ up' = up /\ loop' = [loop EXCEPT ![t] = Waiting]
    BY <1>1, ListsPicks DEF Apply, lifecycle, next
<1>4. loop' \in [Threads -> Round]
    <2>1. Waiting \in Round
        BY DEF Waiting, Round
    <2> QED  BY <1>1, <1>3, <2>1 DEF TypeOK, Round
<1>5. TypeOK'
    BY <1>1, <1>2, <1>3, <1>4 DEF TypeOK, Round
<1>6. Exact(backends', request', orphaned')
    BY <1>2, <1>3 DEF Exact, CountInv, ConnectionsExact, Serving
<1>7. \A r \in Requests : request[r] # Idle => request[r] \in Urls(next) \cup orphaned
    BY <1>2 DEF CountInv, Homeless
<1> QED  BY <1>2, <1>3, <1>5, <1>6, <1>7, CountInvNext

\* The steps that leave the list and the requests alone.
Elsewhere ==
    \/ \E u \in BackendUrls : Flips(u)
    \/ \E t \in Threads : StartHealthChecks(t) \/ Exit(t) \/ Snapshot(t) \/ Probe(t)
    \/ StopHealthChecks \/ JoinReturns \/ UNCHANGED vars

LEMMA ElsewhereTypes ==
    ASSUME TypeOK, Elsewhere
    PROVE  TypeOK' /\ UNCHANGED serving
<1>1. ASSUME NEW t \in Threads, StartHealthChecks(t) \/ Exit(t)
      PROVE  TypeOK' /\ UNCHANGED serving
    <2>1. Waiting \in Round /\ Off \in Round
        BY DEF Waiting, Off, Round
    <2>2. loop' \in [Threads -> Round]
        BY <1>1, <2>1 DEF StartHealthChecks, Exit, TypeOK, Round
    <2> QED  BY <1>1, <2>2
             DEF StartHealthChecks, Exit, TypeOK, Round, serving, lifecycle
<1>2. ASSUME NEW t \in Threads, Snapshot(t)
      PROVE  TypeOK' /\ UNCHANGED serving
    <2> DEFINE todo == [i \in DOMAIN backends |-> backends[i].url]
    <2>1. todo \in Seq(BackendUrls)
        <3>1. \A i \in DOMAIN backends : backends[i].url \in BackendUrls
            <4>1. \A i \in DOMAIN backends : backends[i] \in BackendInstance(BackendUrls)
                BY Entries DEF TypeOK
            <4> QED  BY <4>1 DEF BackendInstance
        <3>2. DOMAIN backends = 1 .. Len(backends) /\ Len(backends) \in Nat
            BY Entries DEF TypeOK
        <3> QED  BY <3>1, <3>2
    <2>2. [pc |-> "probing", todo |-> todo, results |-> {}] \in Round
        BY <2>1 DEF Round
    <2>3. loop' \in [Threads -> Round]
        BY <1>2, <2>2 DEF Snapshot, TypeOK, Round
    <2> QED  BY <1>2, <2>3 DEF Snapshot, TypeOK, Round, serving, lifecycle
<1>3. ASSUME NEW t \in Threads, Probe(t)
      PROVE  TypeOK' /\ UNCHANGED serving
    <2> DEFINE q == loop[t].todo
               u == Head(q)
               result == [url |-> u, ok |-> up[u]]
    <2>1. loop[t] \in Round /\ q \in Seq(BackendUrls) /\ q # <<>>
        BY <1>3 DEF Probe, TypeOK, Round
    <2>2. u \in BackendUrls /\ Tail(q) \in Seq(BackendUrls)
        BY <2>1
    <2>3. result \in Result
        BY <2>2 DEF TypeOK, Result
    <2>4. [loop[t] EXCEPT !.todo = Tail(q), !.results = @ \cup {result}] \in Round
        BY <2>1, <2>2, <2>3 DEF Round
    <2>5. loop' = [loop EXCEPT ![t] =
                       [loop[t] EXCEPT !.todo = Tail(q), !.results = @ \cup {result}]]
        BY <1>3 DEF Probe, TypeOK
    <2>6. loop' \in [Threads -> Round]
        BY <2>4, <2>5 DEF TypeOK, Round
    <2>7. strikes' \in [BackendUrls -> 0 .. ProbeThreshold]
        BY <1>3, <2>2, Constants DEF Probe, TypeOK
    <2> QED  BY <1>3, <2>6, <2>7 DEF Probe, TypeOK, Round, serving, lifecycle
<1>4. ASSUME \/ \E u \in BackendUrls : Flips(u)
             \/ StopHealthChecks \/ JoinReturns \/ UNCHANGED vars
      PROVE  TypeOK' /\ UNCHANGED serving
    BY <1>4 DEF Flips, StopHealthChecks, JoinReturns, TypeOK, vars, serving, lifecycle, health
<1> QED  BY <1>1, <1>2, <1>3, <1>4 DEF Elsewhere

LEMMA NextCount == CountInv /\ [Next]_vars => CountInv'
<1> SUFFICES ASSUME CountInv, [Next]_vars  PROVE CountInv'
    OBVIOUS
<1>1. CASE Elsewhere
    <2>1. TypeOK' /\ UNCHANGED serving
        BY <1>1, ElsewhereTypes DEF CountInv
    <2>2. /\ backends' = backends /\ request' = request /\ orphaned' = orphaned
        BY <2>1 DEF serving
    <2>3. Exact(backends', request', orphaned')
        BY <2>2, ExactMeans DEF CountInv
    <2>4. \A r \in Requests : request[r] # Idle => request[r] \in Urls(backends) \cup orphaned
        BY DEF CountInv, Homeless
    <2>5. backends \in Seq(BackendInstance(BackendUrls)) /\ Distinct(backends)
        BY ListTypes DEF CountInv
    <2> QED  BY <2>1, <2>2, <2>3, <2>4, <2>5, CountInvNext
<1>2. CASE \E u \in BackendUrls : Register(u) \/ Deregister(u)
    BY <1>2, RegisterCount, DeregisterCount
<1>3. CASE \E r \in Requests : DispatchRoundRobin(r) \/ DispatchLeastConnections(r) \/ End(r)
    BY <1>3, DispatchCount, EndCount
<1>4. CASE \E t \in Threads : Apply(t)
    BY <1>4, ApplyCount
<1> QED  BY <1>1, <1>2, <1>3, <1>4 DEF Next, Serve, Lifecycle, HealthRound, Elsewhere

LEMMA CountInvAlways == Spec => []CountInv
BY InitCount, NextCount, PTL DEF Spec

-------------------------------------------------------------------------------

\* The list, the requests and the rounds keep their types: no counter falls below
\* zero, whatever was deregistered under its requests (lb.py:310-323).
THEOREM TypeCorrect == Spec => []TypeOK
<1>1. CountInv => TypeOK
    BY DEF CountInv
<1> QED  BY <1>1, CountInvAlways, PTL

\* However often requests register their backends, and whatever leaves the list in
\* between, each backend has one entry (lb.py:155-175).
THEOREM NeverDuplicates == Spec => []NoDuplicates
<1>1. CountInv => NoDuplicates
    BY DEF CountInv
<1> QED  BY <1>1, CountInvAlways, PTL

\* The counter of an entry is the number of the backend's requests in flight, or
\* less while requests of an entry that was deregistered are among them
\* (lb.py:298-323).
THEOREM ConnectionsAlwaysExact == Spec => []ConnectionsExact
<1>1. CountInv => ConnectionsExact
    BY DEF CountInv
<1> QED  BY <1>1, CountInvAlways, PTL

-------------------------------------------------------------------------------
(* The rotation.                                                           *)

\* The health thread is alone: an old one that a join gave up on has ended before
\* the next is started.  Lifecycle shows when that is not so (lb.py:357-365).
OneLoop == \A t, u \in Threads : loop[t].pc # "off" /\ loop[u].pc # "off" => t = u

Saturated(n) == IF n < ProbeThreshold THEN n + 1 ELSE n

\* A round whose URLs to probe are q and whose results are R, over a list of URLs U.
RoundFits(q, R, U) ==
    /\ \A i, j \in DOMAIN q : q[i] = q[j] => i = j
    /\ \A i \in DOMAIN q : q[i] \in U /\ \A x \in R : x.url # q[i]
    /\ \A x \in R : x.url \in U /\ \A y \in R : x.url = y.url => x = y

RoundsFit(L, U) ==
    \A t \in Threads :
        /\ L[t].pc # "probing" => L[t].todo = <<>> /\ L[t].results = {}
        /\ RoundFits(L[t].todo, L[t].results, U)

\* An entry whose backend has failed s probes in a row: it has counted those, but
\* for one that a round still has to tell it of.
EntryFits(b, s, L) ==
    /\ b.healthy <=> b.consecutive_failures < ProbeThreshold
    /\ \A t \in Threads : \A x \in L[t].results :
           x.url = b.url => s = IF x.ok THEN 0 ELSE Saturated(b.consecutive_failures)
    /\ (\A t \in Threads : \A x \in L[t].results : x.url # b.url)
           => s = b.consecutive_failures

Follows(list, s, L) ==
    /\ RoundsFit(L, Urls(list))
    /\ \A u \in BackendUrls \ Urls(list) : s[u] = 0
    /\ \A i \in DOMAIN list : EntryFits(list[i], s[list[i].url], L)

RotationInv == CountInv /\ Follows(backends, strikes, loop)

LEMMA UrlsOf ==
    ASSUME NEW list, NEW i \in DOMAIN list
    PROVE  list[i].url \in Urls(list)
BY DEF Urls

\* Counting connections, and registering what is registered, is nothing to the
\* health thread.
LEMMA SameVerdicts ==
    ASSUME NEW list, NEW next, NEW s, NEW L, Follows(list, s, L), Urls(next) = Urls(list),
           \A k \in DOMAIN next : \E i \in DOMAIN list :
               /\ next[k].url = list[i].url /\ next[k].healthy = list[i].healthy
               /\ next[k].consecutive_failures = list[i].consecutive_failures
    PROVE  Follows(next, s, L)
<1>1. ASSUME NEW k \in DOMAIN next  PROVE EntryFits(next[k], s[next[k].url], L)
    <2>1. PICK i \in DOMAIN list :
              /\ next[k].url = list[i].url /\ next[k].healthy = list[i].healthy
              /\ next[k].consecutive_failures = list[i].consecutive_failures
        OBVIOUS
    <2>2. EntryFits(list[i], s[list[i].url], L)
        BY DEF Follows
    <2> QED  BY <2>1, <2>2 DEF EntryFits
<1>2. /\ RoundsFit(L, Urls(next))
      /\ \A u \in BackendUrls \ Urls(next) : s[u] = 0
    BY DEF Follows
<1> QED  BY <1>1, <1>2 DEF Follows

\* Threads that start, exit or take a snapshot have no results of a round.
LEMMA SameResults ==
    ASSUME NEW b, NEW s, NEW L, NEW M, EntryFits(b, s, L),
           \A t \in Threads : M[t].results = L[t].results
    PROVE  EntryFits(b, s, M)
BY DEF EntryFits

LEMMA InitRotation == Init => RotationInv
<1> SUFFICES ASSUME Init  PROVE RotationInv
    OBVIOUS
<1>1. DOMAIN backends = {} /\ Urls(backends) = {}
    BY DEF Init, Urls
<1>2. RoundsFit(loop, Urls(backends))
    <2>1. \A t \in Threads : loop[t] = Off
        BY DEF Init
    <2>2. Off.todo = <<>> /\ Off.results = {} /\ DOMAIN <<>> = {}
        BY DEF Off
    <2>3. RoundFits(<<>>, {}, Urls(backends))
        BY <2>2 DEF RoundFits
    <2> QED  BY <2>1, <2>2, <2>3 DEF RoundsFit
<1>3. \A u \in BackendUrls : strikes[u] = 0
    BY DEF Init
<1> QED  BY <1>1, <1>2, <1>3, InitCount DEF RotationInv, Follows

\* A new entry has no strikes, and nobody has a result for it.
LEMMA RegisterRotation ==
    ASSUME RotationInv, NEW u \in BackendUrls, Register(u)
    PROVE  Follows(backends', strikes', loop')
<1> DEFINE next == AfterRegister(backends, u)
<1>1. backends \in Seq(BackendInstance(BackendUrls)) /\ Distinct(backends)
    BY ListTypes DEF RotationInv, CountInv
<1>2. /\ Urls(next) = Urls(backends) \cup {u}
      /\ \A i \in DOMAIN next :
             \/ i \in DOMAIN backends /\ next[i] = backends[i]
             \/ u \notin Urls(backends) /\ next[i] = NewBackend(u)
    BY <1>1, Registers
<1> HIDE DEF next
<1>3. backends' = next /\ strikes' = strikes /\ loop' = loop
    BY DEF Register, List, health, next
<1>4. Follows(backends, strikes, loop)
    BY DEF RotationInv
<1>5. ASSUME NEW t \in Threads
      PROVE  /\ loop[t].pc # "probing" => loop[t].todo = <<>> /\ loop[t].results = {}
             /\ RoundFits(loop[t].todo, loop[t].results, Urls(next))
    <2>1. /\ loop[t].pc # "probing" => loop[t].todo = <<>> /\ loop[t].results = {}
          /\ RoundFits(loop[t].todo, loop[t].results, Urls(backends))
        BY <1>4 DEF Follows, RoundsFit
    <2> QED  BY <1>2, <2>1 DEF RoundFits
<1>6. ASSUME NEW i \in DOMAIN next  PROVE EntryFits(next[i], strikes[next[i].url], loop)
    <2>1. CASE i \in DOMAIN backends /\ next[i] = backends[i]
        BY <1>4, <2>1 DEF Follows
    <2>2. CASE u \notin Urls(backends) /\ next[i] = NewBackend(u)
        <3>1. /\ next[i].url = u /\ next[i].healthy = TRUE
              /\ next[i].consecutive_failures = 0
            BY <2>2 DEF NewBackend
        <3>2. strikes[u] = 0
            BY <1>4, <2>2 DEF Follows
        <3>3. \A t \in Threads : \A x \in loop[t].results : x.url # u
            BY <1>4, <2>2 DEF Follows, RoundsFit, RoundFits
        <3>4. 0 < ProbeThreshold
            BY Constants
        <3> QED  BY <3>1, <3>2, <3>3, <3>4 DEF EntryFits
    <2> QED  BY <1>2, <2>1, <2>2
<1>7. \A v \in BackendUrls \ Urls(next) : strikes[v] = 0
    BY <1>2, <1>4 DEF Follows
<1> QED  BY <1>3, <1>5, <1>6, <1>7 DEF Follows, RoundsFit

\* What a request does to the list.
LEMMA RequestRotation ==
    ASSUME RotationInv, NEW r \in Requests,
           DispatchRoundRobin(r) \/ DispatchLeastConnections(r) \/ End(r)
    PROVE  Follows(backends', strikes', loop')
<1>1. backends \in Seq(BackendInstance(BackendUrls)) /\ Distinct(backends)
    BY ListTypes DEF RotationInv, CountInv
<1>2. /\ strikes' = strikes /\ loop' = loop
      /\ \E u : \/ backends' = AfterRequestStart(backends, u)
                \/ backends' = AfterRequestEnd(backends, u)
    BY DEF DispatchRoundRobin, DispatchLeastConnections, End, Send, health
<1>3. PICK u : \/ backends' = AfterRequestStart(backends, u)
               \/ backends' = AfterRequestEnd(backends, u)
    BY <1>2
<1>4. Recounted(BackendUrls, backends, u, backends')
    BY <1>1, <1>3, CountsRequest
<1>5. Urls(backends') = Urls(backends)
    BY <1>4 DEF Recounted
<1>6. \A k \in DOMAIN backends' : \E i \in DOMAIN backends :
          /\ backends'[k].url = backends[i].url
          /\ backends'[k].healthy = backends[i].healthy
          /\ backends'[k].consecutive_failures = backends[i].consecutive_failures
    BY <1>4 DEF Recounted
<1> QED  BY <1>2, <1>5, <1>6, SameVerdicts DEF RotationInv

\* A deregistered entry takes with it what a round knows of it.
LEMMA DeregisterRotation ==
    ASSUME RotationInv, NEW u \in BackendUrls, Deregister(u)
    PROVE  Follows(backends', strikes', loop')
<1> DEFINE next == AfterDeregister(backends, u)
           rest(q) == {i \in DOMAIN q : q[i] # u}
<1>1. /\ backends \in Seq(BackendInstance(BackendUrls)) /\ Distinct(backends) /\ TypeOK
    BY ListTypes DEF RotationInv, CountInv
<1>2. /\ Urls(next) = Urls(backends) \ {u}
      /\ \A k \in DOMAIN next : next[k].url # u /\ \E i \in DOMAIN backends : next[k] = backends[i]
    <2>1. /\ Urls(next) = Urls(backends) \ {u}
          /\ \A k \in DOMAIN next : \E i \in DOMAIN backends : next[k] = backends[i]
        BY <1>1, Deregisters
    <2> HIDE DEF next
    <2> QED  BY <2>1, UrlsOf
<1>3. Follows(backends, strikes, loop)
    BY DEF RotationInv
<1>4. /\ backends' = next
      /\ \A v \in BackendUrls : strikes'[v] = IF v = u THEN 0 ELSE strikes[v]
    BY <1>1 DEF Deregister, List, TypeOK
<1> HIDE DEF next
<1>5. ASSUME NEW t \in Threads
      PROVE  /\ loop'[t].pc = loop[t].pc
             /\ loop'[t].todo = Sublist(loop[t].todo, rest(loop[t].todo))
             /\ loop'[t].results = {x \in loop[t].results : x.url # u}
    <2>1. loop[t] \in Round
        BY <1>1 DEF TypeOK, Round
    <2>2. loop'[t] = [loop[t] EXCEPT !.todo = Sublist(loop[t].todo, rest(loop[t].todo)),
                                     !.results = {x \in loop[t].results : x.url # u}]
        BY DEF Deregister
    <2> HIDE DEF rest
    <2> QED  BY <2>1, <2>2 DEF Round
<1>6. ASSUME NEW t \in Threads
      PROVE  /\ loop'[t].pc # "probing" => loop'[t].todo = <<>> /\ loop'[t].results = {}
             /\ RoundFits(loop'[t].todo, loop'[t].results, Urls(next))
    <2> DEFINE q == loop[t].todo
               R == loop[t].results
               S == rest(q)
               kept == Sublist(q, S)
               left == {x \in R : x.url # u}
    <2>1. q \in Seq(BackendUrls) /\ S \in SUBSET DOMAIN q
        BY <1>1 DEF TypeOK
    <2>2. /\ loop[t].pc # "probing" => q = <<>> /\ R = {}
          /\ RoundFits(q, R, Urls(backends))
        BY <1>3 DEF Follows, RoundsFit
    <2>3. \A i \in S : q[i] # u
        OBVIOUS
    <2> HIDE DEF S
    <2>4. /\ DOMAIN kept = 1 .. Cardinality(S) /\ kept \in Seq(BackendUrls)
          /\ S \in SUBSET Int /\ IsFiniteSet(S)
          /\ \A k \in 1 .. Cardinality(S) :
                 /\ Nth(S, k - 1) \in S /\ Before(S, Nth(S, k - 1)) = k - 1
                 /\ kept[k] = q[Nth(S, k - 1)]
        BY <2>1, SublistEntries
    <2>5. S = {} => kept = <<>>
        <3> SUFFICES ASSUME S = {}  PROVE kept = <<>>
            OBVIOUS
        <3>1. Cardinality(S) = 0
            BY FS_EmptySet
        <3> HIDE DEF kept
        <3> QED  BY <2>4, <3>1
    <2>6. loop[t].pc # "probing" => kept = <<>> /\ left = {}
        <3>1. ASSUME loop[t].pc # "probing"  PROVE S = {} /\ left = {}
            BY <2>2, <3>1 DEF S
        <3> QED  BY <2>5, <3>1
    <2> HIDE DEF kept
    <2>7. \A k, l \in DOMAIN kept : kept[k] = kept[l] => k = l
        <3> SUFFICES ASSUME NEW k \in DOMAIN kept, NEW l \in DOMAIN kept, kept[k] = kept[l]
                     PROVE  k = l
            OBVIOUS
        <3>1. Cardinality(S) \in Nat
            BY <2>4, FS_CardinalityType
        <3>2. q[Nth(S, k - 1)] = q[Nth(S, l - 1)]
            BY <2>4
        <3>3. Nth(S, k - 1) = Nth(S, l - 1)
            BY <2>1, <2>2, <2>4, <3>2 DEF RoundFits
        <3>4. k - 1 = l - 1 /\ k \in Int /\ l \in Int
            BY <2>4, <3>1, <3>3
        <3> QED  BY <3>4
    <2>8. \A k \in DOMAIN kept : kept[k] \in Urls(next) /\ \A x \in left : x.url # kept[k]
        <3> SUFFICES ASSUME NEW k \in DOMAIN kept
                     PROVE  kept[k] \in Urls(next) /\ \A x \in left : x.url # kept[k]
            OBVIOUS
        <3>1. PICK i \in DOMAIN q : kept[k] = q[i] /\ q[i] # u
            BY <2>1, <2>4, <2>3
        <3>2. q[i] \in Urls(backends) /\ \A x \in R : x.url # q[i]
            BY <2>2 DEF RoundFits
        <3> QED  BY <1>2, <3>1, <3>2
    <2>9. \A x \in left : x.url \in Urls(next) /\ \A y \in left : x.url = y.url => x = y
        BY <1>2, <2>2 DEF RoundFits
    <2>10. RoundFits(kept, left, Urls(next))
        BY <2>7, <2>8, <2>9 DEF RoundFits
    <2>11. /\ loop'[t].pc = loop[t].pc /\ loop'[t].todo = kept /\ loop'[t].results = left
        BY <1>5 DEF kept, S
    <2> HIDE DEF left
    <2> QED  BY <2>6, <2>10, <2>11
<1>7. ASSUME NEW k \in DOMAIN next  PROVE EntryFits(next[k], strikes'[next[k].url], loop')
    <2>1. PICK i \in DOMAIN backends : next[k] = backends[i] /\ next[k].url # u
        BY <1>2
    <2>2. EntryFits(next[k], strikes[next[k].url], loop)
        BY <1>3, <2>1 DEF Follows
    <2>3. next[k].url \in BackendUrls
        BY <1>1, <2>1, ListTypes DEF RotationInv, CountInv
    <2>4. strikes'[next[k].url] = strikes[next[k].url]
        BY <1>4, <2>1, <2>3
    <2>5. \A t \in Threads : \A x : x.url = next[k].url =>
              (x \in loop'[t].results <=> x \in loop[t].results)
        BY <1>5, <2>1
    <2> QED  BY <2>2, <2>4, <2>5 DEF EntryFits
<1>8. \A v \in BackendUrls \ Urls(next) : strikes'[v] = 0
    BY <1>2, <1>3, <1>4 DEF Follows
<1>9. RoundsFit(loop', Urls(next))
    BY <1>6 DEF RoundsFit
<1> QED  BY <1>4, <1>7, <1>8, <1>9 DEF Follows

\* Threads come and go between rounds, and take snapshots of distinct URLs
\* (lb.py:376-381).
LEMMA ThreadRotation ==
    ASSUME RotationInv, NEW t \in Threads, StartHealthChecks(t) \/ Exit(t) \/ Snapshot(t)
    PROVE  Follows(backends', strikes', loop')
<1> DEFINE todo == [i \in DOMAIN backends |-> backends[i].url]
           round == [pc |-> "probing", todo |-> todo, results |-> {}]
<1>1. /\ TypeOK /\ Distinct(backends) /\ backends \in Seq(BackendInstance(BackendUrls))
      /\ Follows(backends, strikes, loop)
    BY ListTypes DEF RotationInv, CountInv
<1>2. backends' = backends /\ strikes' = strikes
    BY DEF StartHealthChecks, Exit, Snapshot, serving
<1>3. PICK new \in {Waiting, Off, round} : loop' = [loop EXCEPT ![t] = new]
    BY DEF StartHealthChecks, Exit, Snapshot
<1>4. loop[t].pc # "probing"
    BY DEF StartHealthChecks, Exit, Snapshot
<1>5. loop[t].results = {}
    BY <1>1, <1>4 DEF Follows, RoundsFit
<1>6. /\ new.results = {}
      /\ new.pc # "probing" => new.todo = <<>>
      /\ RoundFits(new.todo, {}, Urls(backends))
    <2>1. DOMAIN <<>> = {} /\ RoundFits(<<>>, {}, Urls(backends))
        BY DEF RoundFits
    <2>2. RoundFits(todo, {}, Urls(backends))
        BY <1>1, UrlsOf DEF RoundFits, Distinct
    <2> QED  BY <1>3, <2>1, <2>2 DEF Waiting, Off
<1>7. loop'[t] = new /\ \A v \in Threads \ {t} : loop'[v] = loop[v]
    BY <1>1, <1>3 DEF TypeOK
<1>8. RoundsFit(loop', Urls(backends))
    BY <1>1, <1>6, <1>7 DEF RoundsFit, Follows
<1>9. \A v \in Threads : loop'[v].results = loop[v].results
    BY <1>5, <1>6, <1>7
<1>10. \A i \in DOMAIN backends : EntryFits(backends[i], strikes[backends[i].url], loop')
    BY <1>1, <1>9, SameResults DEF Follows
<1> QED  BY <1>1, <1>2, <1>8, <1>10 DEF Follows

\* A probe is a strike, or the end of strikes, that the entry has still to hear of
\* (lb.py:383-387).
LEMMA ProbeRotation ==
    ASSUME RotationInv, OneLoop, NEW t \in Threads, Probe(t)
    PROVE  Follows(backends', strikes', loop')
<1> DEFINE q == loop[t].todo
           R == loop[t].results
           u == Head(q)
           x == [url |-> u, ok |-> up[u]]
<1>1. /\ TypeOK /\ Follows(backends, strikes, loop) /\ loop[t] \in Round
      /\ q \in Seq(BackendUrls) /\ q # <<>> /\ loop[t].pc = "probing"
    BY DEF RotationInv, CountInv, Probe, TypeOK, Round
<1>2. /\ u = q[1] /\ 1 \in DOMAIN q /\ u \in BackendUrls
      /\ Tail(q) \in Seq(BackendUrls)
      /\ \A i \in DOMAIN Tail(q) : /\ i + 1 \in DOMAIN q /\ Tail(q)[i] = q[i + 1]
                                   /\ i \in Nat /\ i + 1 # 1
    BY <1>1
<1>3. /\ backends' = backends
      /\ strikes' = [strikes EXCEPT ![u] =
             IF up[u] THEN 0 ELSE IF @ < ProbeThreshold THEN @ + 1 ELSE @]
      /\ loop'[t].todo = Tail(q) /\ loop'[t].results = R \cup {x}
      /\ loop'[t].pc = "probing"
      /\ \A v \in Threads \ {t} : loop'[v] = loop[v]
    BY <1>1 DEF Probe, serving, TypeOK, Round
<1>4. RoundFits(q, R, Urls(backends))
    BY <1>1 DEF Follows, RoundsFit
<1>5. u \in Urls(backends) /\ \A y \in R : y.url # u
    BY <1>2, <1>4 DEF RoundFits
<1>6. x.url = u /\ x.ok = up[u] /\ up[u] \in BOOLEAN
    BY <1>1, <1>2 DEF TypeOK
<1>7. \A v \in Threads \ {t} : loop[v].results = {}
    <2>1. \A v \in Threads \ {t} : loop[v].pc = "off"
        BY <1>1 DEF OneLoop
    <2> QED  BY <1>1, <2>1 DEF Follows, RoundsFit
<1> HIDE DEF q, R, u, x
<1>8. RoundFits(Tail(q), R \cup {x}, Urls(backends))
    <2>1. \A i, j \in DOMAIN Tail(q) : Tail(q)[i] = Tail(q)[j] => i = j
        <3> SUFFICES ASSUME NEW i \in DOMAIN Tail(q), NEW j \in DOMAIN Tail(q),
                            Tail(q)[i] = Tail(q)[j]
                     PROVE  i = j
            OBVIOUS
        <3>1. i + 1 = j + 1 /\ i \in Nat /\ j \in Nat
            BY <1>2, <1>4 DEF RoundFits
        <3> QED  BY <3>1
    <2>2. \A i \in DOMAIN Tail(q) :
              Tail(q)[i] \in Urls(backends) /\ \A y \in R \cup {x} : y.url # Tail(q)[i]
        <3> SUFFICES ASSUME NEW i \in DOMAIN Tail(q)
                     PROVE  /\ Tail(q)[i] \in Urls(backends)
                            /\ \A y \in R \cup {x} : y.url # Tail(q)[i]
            OBVIOUS
        <3>1. /\ i + 1 \in DOMAIN q /\ Tail(q)[i] = q[i + 1] /\ i + 1 # 1
            BY <1>2
        <3>2. q[i + 1] # q[1] /\ q[i + 1] \in Urls(backends) /\ \A y \in R : y.url # q[i + 1]
            BY <1>2, <1>4, <3>1 DEF RoundFits
        <3> QED  BY <1>2, <1>6, <3>1, <3>2
    <2>3. \A y \in R \cup {x} :
              y.url \in Urls(backends) /\ \A z \in R \cup {x} : y.url = z.url => y = z
        BY <1>4, <1>5, <1>6 DEF RoundFits
    <2> QED  BY <2>1, <2>2, <2>3 DEF RoundFits
<1>9. RoundsFit(loop', Urls(backends))
    BY <1>1, <1>3, <1>8 DEF RoundsFit, Follows
<1>10. \A v \in BackendUrls \ {u} : strikes'[v] = strikes[v]
    BY <1>1, <1>2, <1>3 DEF TypeOK
<1>11. ASSUME NEW i \in DOMAIN backends
       PROVE  EntryFits(backends[i], strikes'[backends[i].url], loop')
    <2> DEFINE b == backends[i]
    <2>1. EntryFits(b, strikes[b.url], loop) /\ b.url \in BackendUrls
        BY <1>1, ListTypes DEF Follows, RotationInv, CountInv
    <2>2. CASE b.url # u
        <3>1. strikes'[b.url] = strikes[b.url]
            BY <1>10, <2>1, <2>2
        <3>2. \A v \in Threads : \A y : y.url = b.url =>
                  (y \in loop'[v].results <=> y \in loop[v].results)
            BY <1>3, <1>6, <2>2 DEF R
        <3> HIDE DEF b
        <3>3. EntryFits(b, strikes'[b.url], loop')
            BY <2>1, <3>1, <3>2 DEF EntryFits
        <3> QED  BY <3>3 DEF b
    <2>3. CASE b.url = u
        <3>1. \A v \in Threads : \A y \in loop[v].results : y.url # b.url
            BY <1>5, <1>7, <2>3 DEF R
        <3>2. strikes[u] = b.consecutive_failures
            BY <2>1, <2>3, <3>1 DEF EntryFits
        <3>3. strikes'[u] = IF x.ok THEN 0 ELSE Saturated(b.consecutive_failures)
            BY <1>1, <1>2, <1>3, <1>6, <3>2 DEF TypeOK, Saturated
        <3>4. \A v \in Threads : \A y \in loop'[v].results : y.url = b.url => y = x
            BY <1>3, <1>5, <1>7, <2>3
        <3>5. x \in loop'[t].results /\ x.url = b.url
            BY <1>3, <1>6, <2>3
        <3>6. b.healthy <=> b.consecutive_failures < ProbeThreshold
            BY <2>1 DEF EntryFits
        <3> HIDE DEF b
        <3>7. EntryFits(b, strikes'[b.url], loop')
            BY <2>3, <3>3, <3>4, <3>5, <3>6 DEF EntryFits
        <3> QED  BY <3>7 DEF b
    <2> QED  BY <2>2, <2>3
<1>12. \A v \in BackendUrls \ Urls(backends) : strikes'[v] = 0
    BY <1>1, <1>5, <1>10 DEF Follows
<1> QED  BY <1>3, <1>9, <1>11, <1>12 DEF Follows

\* The verdict brings every entry up to the probes of the round (lb.py:391-414).
LEMMA ApplyRotation ==
    ASSUME RotationInv, OneLoop, NEW t \in Threads, Apply(t)
    PROVE  Follows(backends', strikes', loop')
<1> DEFINE R == loop[t].results
           next == AfterProbes(backends, R)
<1>1. /\ TypeOK /\ Follows(backends, strikes, loop) /\ loop[t].pc = "probing"
      /\ backends \in Seq(BackendInstance(BackendUrls)) /\ Distinct(backends)
      /\ R \subseteq Result
    BY ListTypes DEF RotationInv, CountInv, Apply, TypeOK
<1>2. /\ Urls(next) = Urls(backends) /\ DOMAIN next = DOMAIN backends
      /\ \A i \in DOMAIN backends : next[i].url = backends[i].url
    BY <1>1, AfterProbesApplies
<1>3. /\ backends' = next /\ strikes' = strikes
      /\ loop'[t] = Waiting /\ \A v \in Threads \ {t} : loop'[v] = loop[v]
    BY <1>1 DEF Apply, List, TypeOK
<1>4. \A v \in Threads \ {t} : loop[v].results = {}
    <2>1. \A v \in Threads \ {t} : loop[v].pc = "off"
        BY <1>1 DEF OneLoop
    <2> QED  BY <1>1, <2>1 DEF Follows, RoundsFit
<1>5. Waiting.results = {} /\ Waiting.todo = <<>> /\ Waiting.pc = "waiting"
    BY DEF Waiting
<1>6. RoundsFit(loop', Urls(next))
    <2>1. DOMAIN <<>> = {} /\ RoundFits(<<>>, {}, Urls(backends))
        BY DEF RoundFits
    <2> HIDE DEF next, R
    <2> QED  BY <1>1, <1>2, <1>3, <1>5, <2>1 DEF RoundsFit, Follows
<1>7. \A v \in Threads : loop'[v].results = {}
    BY <1>3, <1>4, <1>5
<1>8. RoundFits(loop[t].todo, R, Urls(backends))
    BY <1>1 DEF Follows, RoundsFit
<1>9. ASSUME NEW i \in DOMAIN backends
      PROVE  EntryFits(next[i], strikes[next[i].url], loop')
    <2> DEFINE b == backends[i]
               good == [url |-> b.url, ok |-> TRUE]
               bad == [url |-> b.url, ok |-> FALSE]
    <2>1. /\ EntryFits(b, strikes[b.url], loop) /\ b \in BackendInstance(BackendUrls)
          /\ b.consecutive_failures \in 0 .. ProbeThreshold /\ b.healthy \in BOOLEAN
        BY <1>1, ListTypes DEF Follows, RotationInv, CountInv
    <2>2. next[i] = CASE good \in R -> Reinstated(b)
                      [] bad \in R -> Struck(b)
                      [] OTHER -> b
        BY DEF AfterProbes
    <2>3. ~(good \in R /\ bad \in R)
        <3>1. good # bad /\ good.url = bad.url
            OBVIOUS
        <3> QED  BY <1>8, <3>1 DEF RoundFits
    <2> HIDE DEF next, b, R
    <2>4. CASE good \in R
        <3>1. strikes[b.url] = 0
            BY <2>1, <2>4 DEF EntryFits, R
        <3>2. next[i].url = b.url /\ next[i].healthy = TRUE /\ next[i].consecutive_failures = 0
            BY <2>1, <2>2, <2>3, <2>4 DEF Reinstated, BackendInstance
        <3>3. 0 < ProbeThreshold
            BY Constants
        <3> QED  BY <1>7, <3>1, <3>2, <3>3 DEF EntryFits
    <2>5. CASE bad \in R
        <3>1. strikes[b.url] = Saturated(b.consecutive_failures)
            BY <2>1, <2>5 DEF EntryFits, R
        <3>2. /\ next[i].url = b.url
              /\ next[i].consecutive_failures = Saturated(b.consecutive_failures)
              /\ next[i].healthy = (b.healthy /\ b.consecutive_failures + 1 < ProbeThreshold)
            BY <2>1, <2>2, <2>3, <2>5 DEF Struck, BackendInstance, Saturated
        <3>3. b.healthy <=> b.consecutive_failures < ProbeThreshold
            BY <2>1 DEF EntryFits
        <3>4. next[i].healthy <=> next[i].consecutive_failures < ProbeThreshold
            BY <2>1, <3>2, <3>3, Constants DEF Saturated
        <3> QED  BY <1>7, <3>1, <3>2, <3>4 DEF EntryFits
    <2>6. CASE good \notin R /\ bad \notin R
        <3>1. next[i] = b
            BY <2>2, <2>6
        <3>2. \A x \in R : x.url # b.url
            <4> SUFFICES ASSUME NEW x \in R, x.url = b.url  PROVE FALSE
                OBVIOUS
            <4>1. x \in Result
                BY <1>1
            <4>2. x = good \/ x = bad
                BY <4>1 DEF Result
            <4> QED  BY <2>6, <4>2
        <3>3. \A v \in Threads : \A x \in loop[v].results : x.url # b.url
            BY <1>4, <3>2 DEF R
        <3>4. strikes[b.url] = b.consecutive_failures
            BY <2>1, <3>3 DEF EntryFits
        <3>5. b.healthy <=> b.consecutive_failures < ProbeThreshold
            BY <2>1 DEF EntryFits
        <3> QED  BY <1>7, <3>1, <3>4, <3>5 DEF EntryFits
    <2> QED  BY <2>4, <2>5, <2>6
<1>10. \A v \in BackendUrls \ Urls(next) : strikes[v] = 0
    BY <1>1, <1>2 DEF Follows
<1> HIDE DEF next
<1> QED  BY <1>2, <1>3, <1>6, <1>9, <1>10 DEF Follows

LEMMA NextRotation == RotationInv /\ OneLoop /\ [Next]_vars => RotationInv'
<1> SUFFICES ASSUME RotationInv, OneLoop, [Next]_vars  PROVE RotationInv'
    OBVIOUS
<1>1. CountInv'
    BY NextCount DEF RotationInv
<1>2. CASE \/ \E u \in BackendUrls : Flips(u)
           \/ StopHealthChecks \/ JoinReturns \/ UNCHANGED vars
    <2>1. backends' = backends /\ strikes' = strikes /\ loop' = loop
        BY <1>2 DEF Flips, StopHealthChecks, JoinReturns, vars, serving, health
    <2> QED  BY <1>1, <2>1 DEF RotationInv
<1>3. CASE \E u \in BackendUrls : Register(u) \/ Deregister(u)
    BY <1>1, <1>3, RegisterRotation, DeregisterRotation DEF RotationInv
<1>4. CASE \E r \in Requests : DispatchRoundRobin(r) \/ DispatchLeastConnections(r) \/ End(r)
    BY <1>1, <1>4, RequestRotation DEF RotationInv
<1>5. CASE \E t \in Threads : StartHealthChecks(t) \/ Exit(t) \/ Snapshot(t)
    BY <1>1, <1>5, ThreadRotation DEF RotationInv
<1>6. CASE \E t \in Threads : Probe(t) \/ Apply(t)
    BY <1>1, <1>6, ProbeRotation, ApplyRotation DEF RotationInv
<1> QED  BY <1>2, <1>3, <1>4, <1>5, <1>6 DEF Next, Serve, Lifecycle, HealthRound

\* While no two health threads are alive, a backend whose results are all applied
\* is in rotation exactly when fewer than the threshold of its latest probes
\* failed in a row, whatever requests, registrations, deregistrations, stops and
\* starts came between the probes and the verdict (lb.py:367-414).
THEOREM RotationFollowsProbes == Spec /\ []OneLoop => []RotationMatchesProbes
<1>1. RotationInv => RotationMatchesProbes
    <2> SUFFICES ASSUME RotationInv, NEW i \in DOMAIN backends,
                        ~Pending(backends[i].url)
                 PROVE  backends[i].healthy <=> strikes[backends[i].url] < ProbeThreshold
        BY DEF RotationMatchesProbes
    <2>1. EntryFits(backends[i], strikes[backends[i].url], loop)
        BY DEF RotationInv, Follows
    <2>2. \A t \in Threads : \A x \in loop[t].results : x.url # backends[i].url
        BY DEF Pending
    <2> QED  BY <2>1, <2>2 DEF EntryFits
<1> QED  BY <1>1, InitRotation, NextRotation, PTL DEF Spec


-------------------------------------------------------------------------------
(* The shares of round-robin.                                              *)

\* How many picks ago a counter that is m modulo n passed position k of n.
Ago(k, m, n) == IF k < m THEN m - 1 - k ELSE m - 1 - k + n

\* The k positions that the counter passed last have been picked once since all
\* had the same number of picks, and no other.
Shared(list, m, p, k) ==
    LET H == HealthyBackends(list)
        n == Cardinality(H)
    IN  \A i \in H : p[list[i].url] = IF Ago(Before(H, i), m % n, n) < k THEN 1 ELSE 0

FairShare(list, m, p) ==
    \/ HealthyBackends(list) = {}
    \/ \E k \in 0 .. Cardinality(HealthyBackends(list)) - 1 : Shared(list, m, p, k)

ShareInv == CountInv /\ FairShare(backends, rr_counter, picks)

\* Counting modulo n.
LEMMA NextModulo ==
    ASSUME NEW m \in Int, NEW n \in Int, n > 0
    PROVE  /\ m % n \in 0 .. n - 1
           /\ (m + 1) % n = IF (m % n) + 1 = n THEN 0 ELSE (m % n) + 1
<1> DEFINE q == m \div n
           r == m % n
<1>1. m = n * q + r
    OBVIOUS
<1>2. q \in Int /\ r \in 0 .. n - 1
    OBVIOUS
<1> HIDE DEF q, r
<1>3. ASSUME NEW d \in Int, NEW s \in 0 .. n - 1  PROVE (n * d + s) % n = s
    OBVIOUS
<1>4. CASE r + 1 = n
    <2>1. m + 1 = n * (q + 1) + 0 /\ q + 1 \in Int /\ 0 \in 0 .. n - 1
        BY <1>1, <1>2, <1>4
    <2>2. (n * (q + 1) + 0) % n = 0
        BY <1>3, <2>1
    <2> QED  BY <1>2, <1>4, <2>1, <2>2 DEF r
<1>5. CASE r + 1 # n
    <2>1. m + 1 = n * q + (r + 1) /\ r + 1 \in 0 .. n - 1
        BY <1>1, <1>2, <1>5
    <2>2. (n * q + (r + 1)) % n = r + 1
        BY <1>2, <1>3, <2>1
    <2> QED  BY <1>2, <1>5, <2>1, <2>2 DEF r
<1> QED  BY <1>2, <1>4, <1>5 DEF r

\* The counter's wrap does not show in the position it points at, as long as no
\* more backends are healthy than there are URLs.
LEMMA NextPosition ==
    ASSUME NEW m \in 0 .. RRPeriod - 1, NEW n \in 1 .. Cardinality(BackendUrls)
    PROVE  /\ m % n \in 0 .. n - 1
           /\ ((m + 1) % RRPeriod) % n = IF (m % n) + 1 = n THEN 0 ELSE (m % n) + 1
<1>1. /\ RRPeriod \in Nat \ {0} /\ RRPeriod % n = 0 /\ n \in Int /\ n > 0 /\ m \in Int
    BY Constants, BalancerAssumption, FS_CardinalityType DEF BalancerAssumption
<1>2. /\ m % n \in 0 .. n - 1
      /\ (m + 1) % n = IF (m % n) + 1 = n THEN 0 ELSE (m % n) + 1
    BY <1>1, NextModulo
<1>3. ((m + 1) % RRPeriod) % n = (m + 1) % n
    <2>1. CASE m + 1 = RRPeriod
        <3>1. (m + 1) % RRPeriod = 0
            BY <1>1, <2>1
        <3>2. 0 % n = 0
            BY <1>1
        <3> QED  BY <1>1, <2>1, <3>1, <3>2
    <2>2. CASE m + 1 # RRPeriod
        <3>1. (m + 1) % RRPeriod = m + 1
            BY <1>1, <2>2
        <3> QED  BY <3>1
    <2> QED  BY <2>1, <2>2
<1> QED  BY <1>2, <1>3

LEMMA HealthyEntries ==
    ASSUME NEW list \in Seq(BackendInstance(BackendUrls))
    PROVE  \A i \in HealthyBackends(list) :
               i \in DOMAIN list /\ list[i].healthy /\ list[i].url \in BackendUrls
<1>1. \A i \in DOMAIN list : list[i] \in BackendInstance(BackendUrls)
    BY Entries
<1> QED  BY <1>1 DEF HealthyBackends, BackendInstance

\* Ranks and positions are below the number of healthy backends, and that is at
\* most the number of URLs.
LEMMA Ranks ==
    ASSUME NEW list \in Seq(BackendInstance(BackendUrls)), Distinct(list),
           HealthyBackends(list) # {}, NEW m \in 0 .. RRPeriod - 1
    PROVE  LET H == HealthyBackends(list)
               n == Cardinality(H)
           IN  /\ n \in 1 .. Cardinality(BackendUrls) /\ m % n \in 0 .. n - 1
               /\ \A i \in H : /\ Before(H, i) \in 0 .. n - 1
                               /\ Ago(Before(H, i), m % n, n) \in 0 .. n - 1
<1> DEFINE H == HealthyBackends(list)
           n == Cardinality(H)
           f == [i \in H |-> list[i].url]
<1>1. /\ H \in SUBSET DOMAIN list /\ H \in SUBSET Int /\ IsFiniteSet(H)
      /\ n \in Nat /\ n > 0
    BY HealthyPositions
<1>2. n <= Cardinality(BackendUrls) /\ Cardinality(BackendUrls) \in Nat
    <2>1. \A i \in H : list[i].url \in BackendUrls
        BY HealthyEntries
    <2> HIDE DEF H
    <2>2. f \in Injection(H, BackendUrls)
        BY <1>1, <2>1 DEF Injection, IsInjective, Distinct
    <2> HIDE DEF f
    <2> QED  BY <2>2, Constants, FS_Injection, FS_CardinalityType
<1>3. \A i \in H : Before(H, i) \in 0 .. n - 1
    BY <1>1, BeforeGrows
<1> HIDE DEF H, n
<1>4. n \in 1 .. Cardinality(BackendUrls)
    BY <1>1, <1>2
<1>5. m % n \in 0 .. n - 1
    BY <1>4, NextPosition
<1>6. \A i \in H : Ago(Before(H, i), m % n, n) \in 0 .. n - 1
    BY <1>1, <1>3, <1>5 DEF Ago
<1> QED  BY <1>3, <1>4, <1>5, <1>6 DEF H, n

\* A new count starts with no picks.
LEMMA NewCount ==
    ASSUME NEW list \in Seq(BackendInstance(BackendUrls)), Distinct(list),
           NEW m \in 0 .. RRPeriod - 1
    PROVE  FairShare(list, m, NoPicks)
<1> SUFFICES ASSUME HealthyBackends(list) # {}  PROVE FairShare(list, m, NoPicks)
    BY DEF FairShare
<1> DEFINE H == HealthyBackends(list)
           n == Cardinality(H)
<1>1. /\ n \in 1 .. Cardinality(BackendUrls)
      /\ \A i \in H : Ago(Before(H, i), m % n, n) \in 0 .. n - 1
    BY Ranks
<1>2. \A i \in H : i \in DOMAIN list /\ list[i].url \in BackendUrls
    BY HealthyEntries
<1>3. Shared(list, m, NoPicks, 0)
    <2> SUFFICES ASSUME NEW i \in H
                 PROVE  NoPicks[list[i].url] = IF Ago(Before(H, i), m % n, n) < 0 THEN 1 ELSE 0
        BY DEF Shared
    <2> HIDE DEF H, n
    <2>1. NoPicks[list[i].url] = 0
        BY <1>2 DEF NoPicks
    <2> QED  BY <1>1, <2>1
<1>4. 0 \in 0 .. n - 1
    <2> HIDE DEF n
    <2> QED  BY <1>1
<1> QED  BY <1>3, <1>4 DEF FairShare

\* The same healthy backends in the same order.
SameOrder(list, next) ==
    LET H == HealthyBackends(list)
        G == HealthyBackends(next)
    IN  /\ Cardinality(G) = Cardinality(H) /\ (H = {} => G = {})
        /\ \A k \in G : \E i \in H :
               next[k].url = list[i].url /\ Before(G, k) = Before(H, i)

LEMMA SameShares ==
    ASSUME NEW list, NEW next, SameOrder(list, next),
           NEW m, NEW p, FairShare(list, m, p)
    PROVE  FairShare(next, m, p)
<1>1. CASE HealthyBackends(list) = {}
    BY <1>1 DEF SameOrder, FairShare
<1>2. CASE HealthyBackends(list) # {}
    <2>1. PICK k \in 0 .. Cardinality(HealthyBackends(list)) - 1 : Shared(list, m, p, k)
        BY <1>2 DEF FairShare
    <2>2. Shared(next, m, p, k)
        BY <2>1 DEF Shared, SameOrder
    <2> QED  BY <2>1, <2>2 DEF FairShare, SameOrder
<1> QED  BY <1>1, <1>2

\* A list that differs in nothing that round-robin looks at.
LEMMA SamePositions ==
    ASSUME NEW list, NEW next, HealthyBackends(next) = HealthyBackends(list),
           \A i \in HealthyBackends(list) : next[i].url = list[i].url
    PROVE  SameOrder(list, next)
BY DEF SameOrder

\* A function that keeps the order keeps the ranks.
LEMMA OrderIso ==
    ASSUME NEW G \in SUBSET Int, NEW H \in SUBSET Int, IsFiniteSet(G), IsFiniteSet(H),
           NEW f \in [G -> H],
           \A k, l \in G : k < l => f[k] < f[l],
           \A i \in H : \E k \in G : f[k] = i
    PROVE  /\ Cardinality(G) = Cardinality(H)
           /\ \A k \in G : Before(G, k) = Before(H, f[k])
<1>1. \A k, l \in G : /\ f[k] = f[l] => k = l
                     /\ f[k] < f[l] => k < l
    <2> SUFFICES ASSUME NEW k \in G, NEW l \in G
                 PROVE  (f[k] = f[l] => k = l) /\ (f[k] < f[l] => k < l)
        OBVIOUS
    <2>1. k \in Int /\ l \in Int /\ f[k] \in Int /\ f[l] \in Int
        OBVIOUS
    <2>2. (k < l => f[k] < f[l]) /\ (l < k => f[l] < f[k])
        OBVIOUS
    <2> QED  BY <2>1, <2>2
<1>2. ASSUME NEW U \in SUBSET G, NEW T \in SUBSET H,
             \A k \in G : k \in U <=> f[k] \in T
      PROVE  Cardinality(U) = Cardinality(T)
    <2> DEFINE g == [k \in U |-> f[k]]
    <2>1. g \in Injection(U, T)
        BY <1>1, <1>2 DEF Injection, IsInjective
    <2>2. g \in Surjection(U, T)
        BY <1>2 DEF Surjection
    <2>3. IsFiniteSet(T)
        BY FS_Subset
    <2> HIDE DEF g
    <2> QED  BY <2>1, <2>2, <2>3, FS_Injection
<1>3. Cardinality(G) = Cardinality(H)
    BY <1>2
<1>4. ASSUME NEW k \in G  PROVE Before(G, k) = Before(H, f[k])
    <2> DEFINE U == {j \in G : j < k}
               T == {i \in H : i < f[k]}
    <2>1. \A j \in G : j \in U <=> f[j] \in T
        BY <1>1
    <2>2. U \in SUBSET G /\ T \in SUBSET H
        OBVIOUS
    <2> HIDE DEF U, T
    <2>3. Cardinality(U) = Cardinality(T)
        BY <1>2, <2>1, <2>2
    <2> QED  BY <2>3 DEF U, T, Before
<1> QED  BY <1>3, <1>4

\* deregister of an entry that is not healthy keeps the others in their order
\* (lb.py:177-191).
LEMMA DeregisterKeepsOrder ==
    ASSUME NEW list \in Seq(BackendInstance(BackendUrls)), NEW u,
           \A i \in HealthyBackends(list) : list[i].url # u
    PROVE  SameOrder(list, AfterDeregister(list, u))
<1> DEFINE next == AfterDeregister(list, u)
           S == {i \in DOMAIN list : list[i].url # u}
           H == HealthyBackends(list)
           G == HealthyBackends(next)
           f == [k \in G |-> Nth(S, k - 1)]
<1>1. next = Sublist(list, S) /\ S \in SUBSET DOMAIN list
    BY DEF AfterDeregister
<1>2. H \in SUBSET S /\ \A i \in S : i \in H <=> list[i].healthy
    BY HealthyEntries DEF HealthyBackends
<1> HIDE DEF S
<1>3. /\ next \in Seq(BackendInstance(BackendUrls)) /\ S \in SUBSET Int /\ IsFiniteSet(S)
      /\ DOMAIN next = 1 .. Cardinality(S)
      /\ \A k \in DOMAIN next : /\ Nth(S, k - 1) \in S /\ Before(S, Nth(S, k - 1)) = k - 1
                               /\ next[k] = list[Nth(S, k - 1)]
      /\ \A i \in S : Before(S, i) + 1 \in DOMAIN next
    <2> HIDE DEF next
    <2>1. /\ next \in Seq(BackendInstance(BackendUrls)) /\ S \in SUBSET Int
          /\ IsFiniteSet(S) /\ DOMAIN next = 1 .. Cardinality(S)
          /\ \A i \in S : Before(S, i) + 1 \in 1 .. Cardinality(S)
        BY <1>1, SublistEntries
    <2>2. \A k \in 1 .. Cardinality(S) :
              /\ Nth(S, k - 1) \in S /\ Before(S, Nth(S, k - 1)) = k - 1
              /\ next[k] = list[Nth(S, k - 1)]
        BY <1>1, SublistEntries
    <2> QED  BY <2>1, <2>2
<1> HIDE DEF next
<1>4. \A k \in DOMAIN next : k \in G <=> Nth(S, k - 1) \in H
    BY <1>2, <1>3 DEF HealthyBackends
<1>5. /\ G \in SUBSET DOMAIN next /\ G \in SUBSET Int /\ IsFiniteSet(G)
      /\ H \in SUBSET Int /\ IsFiniteSet(H)
    BY <1>3, HealthyPositions
<1> HIDE DEF G, H
<1>6. f \in [G -> H]
    BY <1>4, <1>5
<1>7. \A k, l \in G : k < l => f[k] < f[l]
    <2> SUFFICES ASSUME NEW k \in G, NEW l \in G, k < l  PROVE f[k] < f[l]
        OBVIOUS
    <2>1. /\ k \in Int /\ l \in Int /\ f[k] \in S /\ f[l] \in S
          /\ Before(S, f[k]) = k - 1 /\ Before(S, f[l]) = l - 1
        BY <1>3, <1>5
    <2> HIDE DEF f
    <2>2. f[k] \in Int /\ f[l] \in Int
        BY <1>3, <2>1
    <2>3. ~(f[l] < f[k]) /\ f[l] # f[k]
        <3>1. \A i, j \in S : i < j => Before(S, i) < Before(S, j)
            BY <1>3, BeforeGrows
        <3>2. f[l] < f[k] => l - 1 < k - 1
            BY <2>1, <3>1
        <3> QED  BY <2>1, <3>2
    <2> QED  BY <2>2, <2>3
<1>8. ASSUME NEW i \in H  PROVE \E k \in G : f[k] = i
    <2> DEFINE k == Before(S, i) + 1
    <2>1. k \in DOMAIN next /\ i \in S
        BY <1>2, <1>3
    <2>2. Before(S, i) \in Int
        BY <1>3, <2>1, BeforeGrows
    <2>3. Nth(S, k - 1) = i
        <3>1. k - 1 = Before(S, i)
            BY <2>2
        <3>2. Nth(S, Before(S, i)) = i
            BY <1>3, <2>1, NthExists
        <3> QED  BY <3>1, <3>2
    <2> HIDE DEF k
    <2>4. k \in G
        BY <1>4, <2>1, <2>3
    <2> QED  BY <2>3, <2>4
<1>9. /\ Cardinality(G) = Cardinality(H)
      /\ \A k \in G : Before(G, k) = Before(H, f[k])
    <2> HIDE DEF f
    <2> QED  BY <1>5, <1>6, <1>7, <1>8, OrderIso
<1>10. H = {} => G = {}
    BY <1>6
<1>11. \A k \in G : f[k] \in H /\ next[k].url = list[f[k]].url
    BY <1>3, <1>5, <1>6
<1> HIDE DEF f
<1> QED  BY <1>9, <1>10, <1>11 DEF SameOrder, G, H, next

LEMMA InitShare == Init => ShareInv
<1> SUFFICES ASSUME Init  PROVE ShareInv
    OBVIOUS
<1>1. HealthyBackends(backends) = {}
    BY DEF Init, HealthyBackends
<1> QED  BY <1>1, InitCount DEF ShareInv, FairShare

\* Every writer of the list: it starts a new count, or keeps the order.
LEMMA ListShare ==
    ASSUME ShareInv, NEW next \in Seq(BackendInstance(BackendUrls)), Distinct(next),
           List(next), rr_counter' = rr_counter,
           HealthyUrls(next) = HealthyUrls(backends) => SameOrder(backends, next)
    PROVE  FairShare(backends', rr_counter', picks')
<1>1. backends' = next /\ rr_counter \in 0 .. RRPeriod - 1
    BY DEF List, ShareInv, CountInv, TypeOK
<1>2. CASE HealthyUrls(next) = HealthyUrls(backends)
    <2>1. picks' = picks
        BY <1>2 DEF List
    <2>2. FairShare(next, rr_counter, picks)
        BY <1>2, SameShares DEF ShareInv
    <2> QED  BY <1>1, <2>1, <2>2
<1>3. CASE HealthyUrls(next) # HealthyUrls(backends)
    <2>1. picks' = NoPicks
        BY <1>3 DEF List
    <2>2. FairShare(next, rr_counter, NoPicks)
        BY <1>1, NewCount
    <2> QED  BY <1>1, <2>1, <2>2
<1> QED  BY <1>2, <1>3

\* A new entry is healthy (lb.py:155-175).
LEMMA RegisterShare ==
    ASSUME ShareInv, NEW u \in BackendUrls, Register(u)
    PROVE  FairShare(backends', rr_counter', picks')
<1> DEFINE next == AfterRegister(backends, u)
<1>1. backends \in Seq(BackendInstance(BackendUrls)) /\ Distinct(backends)
    BY ListTypes DEF ShareInv, CountInv
<1>2. next \in Seq(BackendInstance(BackendUrls)) /\ Distinct(next)
    BY <1>1, Registers
<1>3. CASE u \in Urls(backends)
    <2>1. next = backends
        BY <1>3 DEF AfterRegister
    <2> HIDE DEF next
    <2>2. SameOrder(backends, next)
        BY <2>1, SamePositions
    <2> QED  BY <1>2, <2>2, ListShare DEF Register, next
<1>4. CASE u \notin Urls(backends)
    <2>1. u \in HealthyUrls(next)
        <3>1. next = Append(backends, NewBackend(u))
            BY <1>4 DEF AfterRegister
        <3>2. /\ Len(backends) + 1 \in DOMAIN next
              /\ next[Len(backends) + 1] = NewBackend(u)
            BY <1>1, <3>1
        <3> HIDE DEF next
        <3>3. Len(backends) + 1 \in HealthyBackends(next)
            BY <3>2 DEF HealthyBackends, NewBackend
        <3> QED  BY <3>2, <3>3 DEF HealthyUrls, NewBackend
    <2>2. u \notin HealthyUrls(backends)
        BY <1>4 DEF HealthyUrls, HealthyBackends, Urls
    <2> HIDE DEF next
    <2> QED  BY <1>2, <2>1, <2>2, ListShare DEF Register, next
<1> QED  BY <1>3, <1>4

LEMMA DeregisterShare ==
    ASSUME ShareInv, NEW u \in BackendUrls, Deregister(u)
    PROVE  FairShare(backends', rr_counter', picks')
<1> DEFINE next == AfterDeregister(backends, u)
<1>1. backends \in Seq(BackendInstance(BackendUrls)) /\ Distinct(backends)
    BY ListTypes DEF ShareInv, CountInv
<1>2. /\ next \in Seq(BackendInstance(BackendUrls)) /\ Distinct(next)
      /\ Urls(next) = Urls(backends) \ {u}
    BY <1>1, Deregisters
<1>3. ASSUME HealthyUrls(next) = HealthyUrls(backends)
      PROVE  SameOrder(backends, next)
    <2>1. \A i \in HealthyBackends(backends) : backends[i].url # u
        <3>1. HealthyUrls(next) \subseteq Urls(next)
            BY DEF HealthyUrls, HealthyBackends, Urls
        <3> HIDE DEF next
        <3>2. u \notin HealthyUrls(backends)
            BY <1>2, <1>3, <3>1
        <3> QED  BY <3>2 DEF HealthyUrls
    <2> QED  BY <1>1, <2>1, DeregisterKeepsOrder
<1> HIDE DEF next
<1> QED  BY <1>2, <1>3, ListShare DEF Deregister, next

\* A verdict leaves the entries where they are, and URLs tell them apart
\* (lb.py:391-414).
LEMMA ApplyShare ==
    ASSUME ShareInv, NEW t \in Threads, Apply(t)
    PROVE  FairShare(backends', rr_counter', picks')
<1> DEFINE next == AfterProbes(backends, loop[t].results)
<1>1. backends \in Seq(BackendInstance(BackendUrls)) /\ Distinct(backends)
    BY ListTypes DEF ShareInv, CountInv
<1>2. /\ next \in Seq(BackendInstance(BackendUrls)) /\ Distinct(next)
      /\ DOMAIN next = DOMAIN backends
      /\ \A i \in DOMAIN backends : next[i].url = backends[i].url
    BY <1>1, AfterProbesApplies
<1> HIDE DEF next
<1>3. ASSUME HealthyUrls(next) = HealthyUrls(backends)
      PROVE  SameOrder(backends, next)
    <2>1. \A i \in DOMAIN backends : next[i].healthy <=> backends[i].healthy
        <3> SUFFICES ASSUME NEW i \in DOMAIN backends
                     PROVE  next[i].healthy <=> backends[i].healthy
            OBVIOUS
        <3>1. next[i].healthy <=> next[i].url \in HealthyUrls(next)
            BY <1>2 DEF HealthyUrls, HealthyBackends, Distinct
        <3>2. backends[i].healthy <=> backends[i].url \in HealthyUrls(backends)
            BY <1>1 DEF HealthyUrls, HealthyBackends, Distinct
        <3> QED  BY <1>2, <1>3, <3>1, <3>2
    <2>2. HealthyBackends(next) = HealthyBackends(backends)
        BY <1>2, <2>1 DEF HealthyBackends
    <2>3. \A i \in HealthyBackends(backends) : next[i].url = backends[i].url
        BY <1>2 DEF HealthyBackends
    <2> QED  BY <2>2, <2>3, SamePositions
<1> QED  BY <1>2, <1>3, ListShare DEF Apply, next

\* A counter changes no position.
LEMMA RecountedOrder ==
    ASSUME NEW list, NEW u, NEW next, Recounted(BackendUrls, list, u, next)
    PROVE  SameOrder(list, next)
<1>1. HealthyBackends(next) = HealthyBackends(list)
    BY DEF HealthyBackends, Recounted
<1>2. \A i \in HealthyBackends(list) : next[i].url = list[i].url
    BY DEF HealthyBackends, Recounted
<1> QED  BY <1>1, <1>2, SamePositions

LEMMA OtherRequestShare ==
    ASSUME ShareInv, NEW r \in Requests, DispatchLeastConnections(r) \/ End(r)
    PROVE  FairShare(backends', rr_counter', picks')
<1>1. backends \in Seq(BackendInstance(BackendUrls)) /\ Distinct(backends)
    BY ListTypes DEF ShareInv, CountInv
<1>2. PICK u : \/ backends' = AfterRequestStart(backends, u)
               \/ backends' = AfterRequestEnd(backends, u)
    BY DEF DispatchLeastConnections, End, Send
<1>3. SameOrder(backends, backends')
    BY <1>1, <1>2, CountsRequest, RecountedOrder
<1>4. rr_counter' = rr_counter /\ picks' = picks
    BY DEF DispatchLeastConnections, End
<1>5. FairShare(backends', rr_counter, picks)
    BY <1>3, SameShares DEF ShareInv
<1> QED  BY <1>4, <1>5

\* The counter passes the position it points at.
LEMMA Passes ==
    ASSUME NEW n \in Nat, NEW k \in 0 .. n - 1, NEW a \in 0 .. n - 1,
           NEW b, b = IF a + 1 = n THEN 0 ELSE a + 1
    PROVE  /\ Ago(k, b, n) = IF k = a THEN 0 ELSE Ago(k, a, n) + 1
           /\ Ago(a, a, n) = n - 1 /\ Ago(b, b, n) = n - 1
           /\ Ago(k, a, n) \in 0 .. n - 1 /\ b \in 0 .. n - 1
BY DEF Ago

\* select with the default strategy: the backend picked is the one that was not
\* picked for the longest time (lb.py:221-256).
LEMMA RoundRobinShare ==
    ASSUME ShareInv, NEW r \in Requests, DispatchRoundRobin(r)
    PROVE  FairShare(backends', rr_counter', picks')
<1> DEFINE H == HealthyBackends(backends)
           n == Cardinality(H)
           a == rr_counter % n
           b == rr_counter' % n
           pos == RoundRobin(backends, rr_counter)
           f == [picks EXCEPT ![backends[pos].url] = @ + 1]
           ranked == \A i \in H : Before(H, i) \in 0 .. n - 1
<1>1. /\ backends \in Seq(BackendInstance(BackendUrls)) /\ Distinct(backends)
      /\ H # {} /\ rr_counter \in 0 .. RRPeriod - 1 /\ rr_counter \in Nat
      /\ picks \in [BackendUrls -> Nat]
      /\ rr_counter' = (rr_counter + 1) % RRPeriod
    BY ListTypes, Constants DEF ShareInv, CountInv, TypeOK, DispatchRoundRobin
<1>2. /\ n \in 1 .. Cardinality(BackendUrls)
      /\ \A i \in H : Before(H, i) \in 0 .. n - 1
    BY <1>1, Ranks
<1>3. /\ pos \in H /\ Before(H, pos) = a
    BY <1>1, RoundRobinPicks
<1>4. \A i \in H : i \in DOMAIN backends /\ backends[i].url \in BackendUrls
    BY <1>1, HealthyEntries
<1>5. PICK k \in 0 .. n - 1 : Shared(backends, rr_counter, picks, k)
    BY <1>1 DEF ShareInv, FairShare
<1>6. SameOrder(backends, backends')
    BY <1>1, CountsRequest, RecountedOrder DEF DispatchRoundRobin, Send
<1>7. picks' = Level(f)
    BY DEF DispatchRoundRobin
<1>8. \A u : u \in HealthyUrls(backends) <=> \E i \in H : u = backends[i].url
    BY DEF HealthyUrls
<1>9. \A i \in H : picks[backends[i].url] = IF Ago(Before(H, i), a, n) < k THEN 1 ELSE 0
    BY <1>5 DEF Shared
<1>10. \A l : (\A i \in H : picks'[backends[i].url] =
                   IF Ago(Before(H, i), b, n) < l THEN 1 ELSE 0)
              => Shared(backends, rr_counter', picks', l)
    BY DEF Shared
<1>11. IsFiniteSet(H) /\ H \in SUBSET Int
    BY <1>1, HealthyPositions
<1>12. /\ a \in 0 .. n - 1 /\ n \in Nat
       /\ b = IF a + 1 = n THEN 0 ELSE a + 1
    <2> HIDE DEF n, H
    <2>1. a \in 0 .. n - 1 /\ b = IF a + 1 = n THEN 0 ELSE a + 1
        BY <1>1, <1>2, NextPosition
    <2> QED  BY <1>2, <2>1, Constants, FS_CardinalityType
<1>13. \A i \in H : f[backends[i].url] = IF i = pos THEN picks[backends[i].url] + 1
                                                   ELSE picks[backends[i].url]
    <2> HIDE DEF pos, H
    <2>1. \A i \in H : backends[i].url = backends[pos].url => i = pos
        BY <1>1, <1>3, <1>4 DEF Distinct
    <2> QED  BY <1>1, <1>3, <1>4, <2>1
<1> HIDE DEF H, n, a, b, pos, f
<1>14. \A i \in H : Before(H, i) = a <=> i = pos
    <2>1. \A i, j \in H : i < j => Before(H, i) < Before(H, j)
        BY <1>11, BeforeGrows
    <2> SUFFICES ASSUME NEW i \in H, Before(H, i) = a  PROVE i = pos
        BY <1>3
    <2>2. i \in Int /\ pos \in Int /\ a \in Int
        BY <1>3, <1>11, <1>12
    <2> QED  BY <1>3, <2>1, <2>2
<1>15. \A i \in H : f[backends[i].url] = IF Ago(Before(H, i), b, n) < k + 1 THEN 1 ELSE 0
    <2> SUFFICES ASSUME NEW i \in H
                 PROVE  f[backends[i].url] = IF Ago(Before(H, i), b, n) < k + 1 THEN 1 ELSE 0
        OBVIOUS
    <2>1. /\ Before(H, i) \in 0 .. n - 1
          /\ Ago(Before(H, i), b, n) = IF Before(H, i) = a THEN 0 ELSE Ago(Before(H, i), a, n) + 1
          /\ Ago(a, a, n) = n - 1 /\ Ago(Before(H, i), a, n) \in 0 .. n - 1
        BY <1>2, <1>12, Passes
    <2>2. CASE i = pos
        <3>1. Before(H, i) = a /\ picks[backends[i].url] = 0
            BY <1>3, <1>9, <1>12, <2>1, <2>2
        <3> QED  BY <1>13, <2>1, <2>2, <3>1
    <2>3. CASE i # pos
        <3>1. Ago(Before(H, i), b, n) = Ago(Before(H, i), a, n) + 1
            BY <1>14, <2>1, <2>3
        <3>2. f[backends[i].url] = picks[backends[i].url]
            BY <1>13, <2>3
        <3> QED  BY <1>9, <2>1, <3>1, <3>2
    <2> QED  BY <2>2, <2>3
<1>16. \E l \in 0 .. n - 1 : Shared(backends, rr_counter', picks', l)
    <2>1. CASE k + 1 = n
        <3>1. \A i \in H : f[backends[i].url] = 1
            <4> SUFFICES ASSUME NEW i \in H  PROVE f[backends[i].url] = 1
                OBVIOUS
            <4>1. Before(H, i) \in 0 .. n - 1 /\ b \in 0 .. n - 1
                BY <1>2, <1>12, Passes
            <4>2. Ago(Before(H, i), b, n) \in Int /\ Ago(Before(H, i), b, n) < n
                BY <1>12, <4>1 DEF Ago
            <4> QED  BY <1>15, <2>1, <4>2
        <3>2. picks' = [u \in BackendUrls |->
                            IF u \in HealthyUrls(backends) THEN f[u] - 1 ELSE 0]
            BY <1>7, <1>8, <3>1 DEF Level
        <3>3. \A i \in H : picks'[backends[i].url] = 0
            BY <1>4, <1>8, <3>1, <3>2
        <3>4. \A i \in H : ~(Ago(Before(H, i), b, n) < 0)
            <4> SUFFICES ASSUME NEW i \in H  PROVE ~(Ago(Before(H, i), b, n) < 0)
                OBVIOUS
            <4>1. Before(H, i) \in 0 .. n - 1 /\ b \in 0 .. n - 1
                BY <1>2, <1>12, Passes
            <4> QED  BY <1>12, <4>1 DEF Ago
        <3>5. Shared(backends, rr_counter', picks', 0)
            BY <1>10, <3>3, <3>4
        <3> QED  BY <1>12, <3>5
    <2>2. CASE k + 1 # n
        <3>1. b \in 0 .. n - 1 /\ Ago(b, b, n) = n - 1
            BY <1>12, Passes
        <3>2. PICK i \in H : Before(H, i) = b
            BY <1>11, <3>1, NthExists DEF n
        <3>3. f[backends[i].url] = 0
            BY <1>12, <1>15, <2>2, <3>1, <3>2
        <3>4. picks' = f
            BY <1>7, <1>8, <3>3 DEF Level
        <3>5. Shared(backends, rr_counter', picks', k + 1)
            BY <1>10, <1>15, <3>4
        <3> QED  BY <1>12, <2>2, <3>5
    <2> QED  BY <2>1, <2>2
<1>17. FairShare(backends, rr_counter', picks')
    BY <1>16 DEF FairShare, n, H
<1> QED  BY <1>6, <1>17, SameShares

LEMMA NextShare == ShareInv /\ [Next]_vars => ShareInv'
<1> SUFFICES ASSUME ShareInv, [Next]_vars  PROVE ShareInv'
    OBVIOUS
<1>1. CountInv'
    BY NextCount DEF ShareInv
<1>2. CASE \/ \E u \in BackendUrls : Flips(u)
           \/ \E t \in Threads : StartHealthChecks(t) \/ Exit(t) \/ Snapshot(t) \/ Probe(t)
           \/ StopHealthChecks \/ JoinReturns \/ UNCHANGED vars
    <2>1. backends' = backends /\ rr_counter' = rr_counter /\ picks' = picks
        BY <1>2 DEF Flips, StartHealthChecks, Exit, Snapshot, Probe, StopHealthChecks,
                    JoinReturns, vars, serving
    <2> QED  BY <1>1, <2>1 DEF ShareInv
<1>3. CASE \E u \in BackendUrls : Register(u) \/ Deregister(u)
    BY <1>1, <1>3, RegisterShare, DeregisterShare DEF ShareInv
<1>4. CASE \E r \in Requests : DispatchLeastConnections(r) \/ End(r)
    BY <1>1, <1>4, OtherRequestShare DEF ShareInv
<1>5. CASE \E r \in Requests : DispatchRoundRobin(r)
    BY <1>1, <1>5, RoundRobinShare DEF ShareInv
<1>6. CASE \E t \in Threads : Apply(t)
    BY <1>1, <1>6, ApplyShare DEF ShareInv
<1> QED  BY <1>2, <1>3, <1>4, <1>5, <1>6 DEF Next, Serve, Lifecycle, HealthRound

\* While the healthy set is the same, no healthy backend is more than one
\* round-robin pick ahead of another, whatever the counter was when the set became
\* what it is and whatever registrations, verdicts and deregistrations that leave
\* it the same came between the picks (lb.py:221-256).
THEOREM RoundRobinAlwaysFair == Spec => []RoundRobinFair
<1>1. ShareInv => RoundRobinFair
    <2> SUFFICES ASSUME ShareInv, NEW u \in HealthyUrls(backends),
                        NEW v \in HealthyUrls(backends)
                 PROVE  picks[u] <= picks[v] + 1
        BY DEF RoundRobinFair
    <2>1. PICK k : Shared(backends, rr_counter, picks, k)
        BY DEF ShareInv, FairShare, HealthyUrls
    <2>2. \A i \in HealthyBackends(backends) : picks[backends[i].url] \in {0, 1}
        BY <2>1 DEF Shared
    <2>3. picks[u] \in {0, 1} /\ picks[v] \in {0, 1}
        BY <2>2 DEF HealthyUrls
    <2> QED  BY <2>3
<1> QED  BY <1>1, InitShare, NextShare, PTL DEF Spec
===============================================================================
