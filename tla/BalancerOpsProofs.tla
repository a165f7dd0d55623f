-------------------------- MODULE BalancerOpsProofs ---------------------------
(***************************************************************************)
(* What the operators of BalancerOps return, for every list of backends:   *)
(* the lemmas that LoadBalancerProofs and GatewayProofs share.  The        *)
(* strategies and `deregister` go by the k-th of a set of positions, and   *)
(* that there is one for every k below the size of the set is a matter of  *)
(* counting: no two positions have the same number of smaller ones, and    *)
(* there are as many numbers as positions.                                 *)
(***************************************************************************)
EXTENDS BalancerOps, FiniteSetTheorems, SequenceTheorems, TLAPS

-------------------------------------------------------------------------------
(* Positions by rank.                                                      *)

\* A larger element has more smaller ones.
LEMMA BeforeGrows ==
    ASSUME NEW S \in SUBSET Int, IsFiniteSet(S)
    PROVE  /\ Cardinality(S) \in Nat
           /\ \A i \in S : Before(S, i) \in 0 .. Cardinality(S) - 1
           /\ \A i, j \in S : i < j => Before(S, i) < Before(S, j)
<1>1. Cardinality(S) \in Nat
    BY FS_CardinalityType
<1>2. ASSUME NEW T \in SUBSET S, NEW i \in T, NEW U \in SUBSET T, i \notin U
      PROVE  Cardinality(U) \in Nat /\ Cardinality(T) \in Nat /\ Cardinality(U) < Cardinality(T)
    <2>1. IsFiniteSet(T) /\ IsFiniteSet(U)
        BY <1>2, FS_Subset
    <2>2. IsFiniteSet(U \cup {i}) /\ Cardinality(U \cup {i}) = Cardinality(U) + 1
        BY <1>2, <2>1, FS_AddElement
    <2>3. Cardinality(U \cup {i}) <= Cardinality(T)
        BY <1>2, <2>1, FS_Subset
    <2>4. Cardinality(U) \in Nat /\ Cardinality(T) \in Nat
        BY <2>1, FS_CardinalityType
    <2> QED  BY <2>2, <2>3, <2>4
<1>3. ASSUME NEW i \in S  PROVE Before(S, i) \in 0 .. Cardinality(S) - 1
    <2> DEFINE U == {x \in S : x < i}
    <2>1. U \in SUBSET S /\ i \notin U
        <3>1. i \in Int /\ ~(i < i)
            OBVIOUS
        <3> QED  BY <3>1
    <2> HIDE DEF U
    <2>2. Cardinality(U) \in Nat /\ Cardinality(U) < Cardinality(S)
        BY <1>2, <2>1
    <2> QED  BY <1>1, <2>2 DEF U, Before
<1>4. ASSUME NEW i \in S, NEW j \in S, i < j  PROVE Before(S, i) < Before(S, j)
    <2> DEFINE U == {x \in S : x < i}
               T == {x \in S : x < j}
    <2>1. ~(i < i) /\ \A x \in S : x < i => x < j
        BY <1>4
    <2>2. T \in SUBSET S /\ U \in SUBSET T /\ i \in T /\ i \notin U
        BY <1>4, <2>1
    <2> HIDE DEF U, T
    <2>3. Cardinality(U) < Cardinality(T)
        BY <1>2, <2>2
    <2> QED  BY <2>3 DEF U, T, Before
<1> QED  BY <1>1, <1>3, <1>4

\* There is a k-th element for every k below the size, and it is the only one.
LEMMA NthExists ==
    ASSUME NEW S \in SUBSET Int, IsFiniteSet(S)
    PROVE  /\ \A k \in 0 .. Cardinality(S) - 1 : Nth(S, k) \in S /\ Before(S, Nth(S, k)) = k
           /\ \A i \in S : Nth(S, Before(S, i)) = i
<1> DEFINE n == Cardinality(S)
           T == 0 .. n - 1
           f == [i \in S |-> Before(S, i)]
<1>1. n \in Nat
    BY BeforeGrows
<1>2. IsFiniteSet(T) /\ Cardinality(T) = n
    <2>1. 0 \in Int /\ n - 1 \in Int
        BY <1>1
    <2>2. IsFiniteSet(T) /\ Cardinality(T) = IF 0 > n - 1 THEN 0 ELSE n - 1 - 0 + 1
        BY <2>1, FS_Interval
    <2> QED  BY <1>1, <2>2
<1>3. ASSUME NEW i \in S, NEW j \in S, Before(S, i) = Before(S, j)  PROVE i = j
    <2>1. i < j \/ j < i \/ i = j
        OBVIOUS
    <2>2. Before(S, i) \in Int
        BY BeforeGrows
    <2> QED  BY <1>3, <2>1, <2>2, BeforeGrows
<1>4. f \in Injection(S, T)
    BY <1>3, BeforeGrows DEF Injection, IsInjective
<1>5. \A k \in T : \E i \in S : f[i] = k
    <2> HIDE DEF f, T
    <2>1. f \in Surjection(S, T)
        BY <1>2, <1>4, FS_Injection
    <2> QED  BY <2>1 DEF Surjection
<1>6. ASSUME NEW k \in T  PROVE Nth(S, k) \in S /\ Before(S, Nth(S, k)) = k
    <2>1. \E i \in S : Before(S, i) = k
        BY <1>5
    <2> QED  BY <2>1 DEF Nth
<1>8. ASSUME NEW i \in S  PROVE Nth(S, Before(S, i)) = i
    <2>1. \E j \in S : Before(S, j) = Before(S, i)
        OBVIOUS
    <2>2. Nth(S, Before(S, i)) \in S /\ Before(S, Nth(S, Before(S, i))) = Before(S, i)
        BY <2>1 DEF Nth
    <2> QED  BY <1>3, <2>2
<1> QED  BY <1>6, <1>8

\* The first element is the least.
LEMMA LeastExists ==
    ASSUME NEW S \in SUBSET Int, IsFiniteSet(S), S # {}
    PROVE  \E i \in S : \A j \in S : i <= j
<1>1. Cardinality(S) \in Nat /\ Cardinality(S) # 0
    BY FS_CardinalityType, FS_EmptySet
<1>2. PICK i \in S : Before(S, i) = 0
    <2>1. 0 \in 0 .. Cardinality(S) - 1
        BY <1>1
    <2> QED  BY <2>1, NthExists
<1>3. ASSUME NEW j \in S  PROVE i <= j
    <2>1. Before(S, j) \in Nat
        BY BeforeGrows
    <2>2. ~(j < i)
        BY <1>2, <2>1, BeforeGrows
    <2> QED  BY <2>2
<1> QED  BY <1>3

\* A sublist has the entries at the positions, in their order, and no others.
LEMMA SublistEntries ==
    ASSUME NEW X, NEW list \in Seq(X), NEW S \in SUBSET DOMAIN list
    PROVE  /\ Sublist(list, S) \in Seq(X)
           /\ IsFiniteSet(S) /\ S \in SUBSET Int
           /\ DOMAIN Sublist(list, S) = 1 .. Cardinality(S)
           /\ \A k \in 1 .. Cardinality(S) :
                  /\ Nth(S, k - 1) \in S /\ Before(S, Nth(S, k - 1)) = k - 1
                  /\ Sublist(list, S)[k] = list[Nth(S, k - 1)]
           /\ \A i \in S : /\ Before(S, i) + 1 \in 1 .. Cardinality(S)
                           /\ Sublist(list, S)[Before(S, i) + 1] = list[i]
<1>1. DOMAIN list = 1 .. Len(list) /\ Len(list) \in Nat /\ list \in [1 .. Len(list) -> X]
    BY LenProperties
<1>2. IsFiniteSet(S) /\ S \in SUBSET Int
    <2>1. IsFiniteSet(1 .. Len(list))
        BY <1>1, FS_Interval
    <2> QED  BY <1>1, <2>1, FS_Subset
<1>3. Cardinality(S) \in Nat
    BY <1>2, BeforeGrows
<1>4. ASSUME NEW k \in 1 .. Cardinality(S)
      PROVE  Nth(S, k - 1) \in S /\ Before(S, Nth(S, k - 1)) = k - 1
    BY <1>2, <1>3, NthExists
<1>5. Sublist(list, S) \in [1 .. Cardinality(S) -> X]
    BY <1>1, <1>4 DEF Sublist
<1>6. Sublist(list, S) \in Seq(X)
    BY <1>3, <1>5, SeqDef
<1>7. ASSUME NEW k \in 1 .. Cardinality(S)  PROVE Sublist(list, S)[k] = list[Nth(S, k - 1)]
    BY DEF Sublist
<1>8. ASSUME NEW i \in S
      PROVE  /\ Before(S, i) + 1 \in 1 .. Cardinality(S)
             /\ Sublist(list, S)[Before(S, i) + 1] = list[i]
    <2>1. Before(S, i) \in 0 .. Cardinality(S) - 1
        BY <1>2, BeforeGrows
    <2>2. PICK k \in 1 .. Cardinality(S) : k = Before(S, i) + 1 /\ k - 1 = Before(S, i)
        BY <1>3, <2>1
    <2>3. Nth(S, Before(S, i)) = i
        BY <1>2, NthExists
    <2>4. Sublist(list, S)[k] = list[Nth(S, k - 1)]
        BY <1>7
    <2> QED  BY <2>2, <2>3, <2>4
<1> QED  BY <1>2, <1>4, <1>5, <1>6, <1>7, <1>8 DEF Sublist

-------------------------------------------------------------------------------
(* Lists of backends.                                                      *)

\* No two entries have the same URL.
Distinct(list) == \A i, j \in DOMAIN list : list[i].url = list[j].url => i = j

LEMMA Entries ==
    ASSUME NEW X, NEW list \in Seq(X)
    PROVE  /\ DOMAIN list = 1 .. Len(list) /\ Len(list) \in Nat
           /\ IsFiniteSet(DOMAIN list) /\ DOMAIN list \in SUBSET Int
           /\ \A i \in DOMAIN list : list[i] \in X
           /\ \A f \in [DOMAIN list -> X] : f \in Seq(X)
<1>1. DOMAIN list = 1 .. Len(list) /\ Len(list) \in Nat /\ list \in [1 .. Len(list) -> X]
    BY LenProperties
<1>2. IsFiniteSet(DOMAIN list)
    BY <1>1, FS_Interval
<1>3. \A f \in [DOMAIN list -> X] : f \in Seq(X)
    BY <1>1, SeqDef
<1> QED  BY <1>1, <1>2, <1>3

LEMMA FoundBackend ==
    ASSUME NEW X, NEW list \in Seq(X), Distinct(list), NEW u, NEW i \in DOMAIN list
    PROVE  i \in FindBackend(list, u) <=> list[i].url = u
<1>1. DOMAIN list = 1 .. Len(list) /\ Len(list) \in Nat
    BY Entries
<1>2. ASSUME list[i].url = u, NEW j \in 1 .. i - 1  PROVE list[j].url # u
    <2>1. j \in DOMAIN list /\ j # i
        BY <1>1
    <2> QED  BY <1>2, <2>1 DEF Distinct
<1> QED  BY <1>2 DEF FindBackend

\* register (lb.py:155-175).
LEMMA Registers ==
    ASSUME NEW U, NEW list \in Seq(BackendInstance(U)), Distinct(list), NEW u \in U
    PROVE  LET next == AfterRegister(list, u)
           IN  /\ next \in Seq(BackendInstance(U)) /\ Distinct(next)
               /\ Urls(next) = Urls(list) \cup {u}
               /\ \A i \in DOMAIN next :
                      \/ i \in DOMAIN list /\ next[i] = list[i]
                      \/ u \notin Urls(list) /\ next[i] = NewBackend(u)
<1> SUFFICES ASSUME NEW next, next = AfterRegister(list, u)
             PROVE  /\ next \in Seq(BackendInstance(U)) /\ Distinct(next)
                    /\ Urls(next) = Urls(list) \cup {u}
                    /\ \A i \in DOMAIN next :
                           \/ i \in DOMAIN list /\ next[i] = list[i]
                           \/ u \notin Urls(list) /\ next[i] = NewBackend(u)
    OBVIOUS
<1>1. CASE u \in Urls(list)
    BY <1>1 DEF AfterRegister
<1>2. CASE u \notin Urls(list)
    <2>1. NewBackend(u) \in BackendInstance(U) /\ NewBackend(u).url = u
        <3>1. 0 \in 0 .. ProbeThreshold
            BY ProbeAssumption DEF ProbeAssumption
        <3> QED  BY <3>1 DEF NewBackend, BackendInstance
    <2>2. next = Append(list, NewBackend(u))
        BY <1>2 DEF AfterRegister
    <2> HIDE DEF NewBackend
    <2>3. /\ next \in Seq(BackendInstance(U)) /\ Len(next) = Len(list) + 1
          /\ \A i \in 1 .. Len(list) : next[i] = list[i]
          /\ next[Len(list) + 1] = NewBackend(u)
        BY <2>1, <2>2, AppendProperties
    <2>4. /\ DOMAIN list = 1 .. Len(list) /\ Len(list) \in Nat
          /\ DOMAIN next = 1 .. Len(list) + 1
        BY <2>3, Entries
    <2>5. \A i \in DOMAIN next :
              \/ i \in DOMAIN list /\ next[i] = list[i]
              \/ i = Len(list) + 1 /\ next[i] = NewBackend(u)
        BY <2>3, <2>4
    <2>6. \A i \in DOMAIN list : list[i].url # u
        BY <1>2 DEF Urls
    <2>7. Distinct(next)
        BY <2>1, <2>5, <2>6 DEF Distinct
    <2>8. Urls(next) = Urls(list) \cup {u}
        <3>1. \A i \in DOMAIN list : i \in DOMAIN next /\ next[i] = list[i]
            BY <2>3, <2>4
        <3>2. Len(list) + 1 \in DOMAIN next
            BY <2>4
        <3> QED  BY <2>1, <2>3, <2>5, <3>1, <3>2 DEF Urls
    <2> QED  BY <1>2, <2>3, <2>5, <2>7, <2>8
<1> QED  BY <1>1, <1>2

\* deregister (lb.py:177-191).
LEMMA Deregisters ==
    ASSUME NEW U, NEW list \in Seq(BackendInstance(U)), Distinct(list), NEW u
    PROVE  LET next == AfterDeregister(list, u)
           IN  /\ next \in Seq(BackendInstance(U)) /\ Distinct(next)
               /\ Urls(next) = Urls(list) \ {u}
               /\ \A k \in DOMAIN next : \E i \in DOMAIN list : next[k] = list[i]
<1> SUFFICES ASSUME NEW next, next = AfterDeregister(list, u)
             PROVE  /\ next \in Seq(BackendInstance(U)) /\ Distinct(next)
                    /\ Urls(next) = Urls(list) \ {u}
                    /\ \A k \in DOMAIN next : \E i \in DOMAIN list : next[k] = list[i]
    OBVIOUS
<1> DEFINE S == {i \in DOMAIN list : list[i].url # u}
<1>1. S \in SUBSET DOMAIN list /\ next = Sublist(list, S)
    BY DEF AfterDeregister
<1>2. \A i \in DOMAIN list : i \in S <=> list[i].url # u
    OBVIOUS
<1> HIDE DEF S
<1>3. /\ next \in Seq(BackendInstance(U)) /\ DOMAIN next = 1 .. Cardinality(S)
      /\ \A k \in DOMAIN next : /\ Nth(S, k - 1) \in S /\ Before(S, Nth(S, k - 1)) = k - 1
                               /\ next[k] = list[Nth(S, k - 1)]
      /\ \A i \in S : Before(S, i) + 1 \in DOMAIN next /\ next[Before(S, i) + 1] = list[i]
    <2>1. /\ next \in Seq(BackendInstance(U)) /\ DOMAIN next = 1 .. Cardinality(S)
          /\ \A i \in S : /\ Before(S, i) + 1 \in 1 .. Cardinality(S)
                          /\ next[Before(S, i) + 1] = list[i]
        BY <1>1, SublistEntries
    <2>2. \A k \in 1 .. Cardinality(S) :
              /\ Nth(S, k - 1) \in S /\ Before(S, Nth(S, k - 1)) = k - 1
              /\ next[k] = list[Nth(S, k - 1)]
        BY <1>1, SublistEntries
    <2> QED  BY <2>1, <2>2
<1>4. Distinct(next)
    <2> SUFFICES ASSUME NEW k \in DOMAIN next, NEW l \in DOMAIN next, next[k].url = next[l].url
                 PROVE  k = l
        BY DEF Distinct
    <2>1. Nth(S, k - 1) = Nth(S, l - 1)
        BY <1>1, <1>3 DEF Distinct
    <2>2. k - 1 = l - 1 /\ k \in Int /\ l \in Int
        BY <1>3, <2>1
    <2> QED  BY <2>2
<1>5. Urls(next) = Urls(list) \ {u}
    <2>1. ASSUME NEW v \in Urls(next)  PROVE v \in Urls(list) \ {u}
        <3>1. PICK k \in DOMAIN next : v = next[k].url
            BY <2>1 DEF Urls
        <3>2. Nth(S, k - 1) \in DOMAIN list /\ v = list[Nth(S, k - 1)].url /\ v # u
            BY <1>1, <1>2, <1>3, <3>1
        <3> QED  BY <3>2 DEF Urls
    <2>2. ASSUME NEW v \in Urls(list) \ {u}  PROVE v \in Urls(next)
        <3>1. PICK i \in DOMAIN list : v = list[i].url
            BY <2>2 DEF Urls
        <3>2. i \in S
            BY <1>2, <2>2, <3>1
        <3>3. Before(S, i) + 1 \in DOMAIN next /\ v = next[Before(S, i) + 1].url
            BY <1>3, <3>1, <3>2
        <3> QED  BY <3>3 DEF Urls
    <2> QED  BY <2>1, <2>2
<1>6. \A k \in DOMAIN next : \E i \in DOMAIN list : next[k] = list[i]
    BY <1>1, <1>3
<1> QED  BY <1>3, <1>4, <1>5, <1>6

\* Only the counter of u may differ.
Recounted(U, list, u, next) ==
    /\ next \in Seq(BackendInstance(U)) /\ Distinct(next)
    /\ DOMAIN next = DOMAIN list /\ Urls(next) = Urls(list)
    /\ \A i \in DOMAIN list :
           /\ next[i].url = list[i].url /\ next[i].healthy = list[i].healthy
           /\ next[i].consecutive_failures = list[i].consecutive_failures
           /\ list[i].url # u => next[i] = list[i]

\* mark_request_start and mark_request_end (lb.py:298-323).
LEMMA CountsRequest ==
    ASSUME NEW U, NEW list \in Seq(BackendInstance(U)), Distinct(list), NEW u
    PROVE  /\ Recounted(U, list, u, AfterRequestStart(list, u))
           /\ Recounted(U, list, u, AfterRequestEnd(list, u))
<1> SUFFICES ASSUME NEW next, next = AfterRequestStart(list, u) \/ next = AfterRequestEnd(list, u)
             PROVE  Recounted(U, list, u, next)
    OBVIOUS
<1>1. /\ \A i \in DOMAIN list : list[i] \in BackendInstance(U)
      /\ \A f \in [DOMAIN list -> BackendInstance(U)] : f \in Seq(BackendInstance(U))
    BY Entries
<1>2. DOMAIN next = DOMAIN list
    BY DEF AfterRequestStart, AfterRequestEnd
<1>3. ASSUME NEW i \in DOMAIN list
      PROVE  /\ next[i] \in BackendInstance(U)
             /\ next[i].url = list[i].url /\ next[i].healthy = list[i].healthy
             /\ next[i].consecutive_failures = list[i].consecutive_failures
             /\ list[i].url # u => next[i] = list[i]
    <2>1. /\ list[i] \in BackendInstance(U)
          /\ i \in FindBackend(list, u) <=> list[i].url = u
        BY <1>1, FoundBackend
    <2>2. \/ next[i] = list[i]
          \/ list[i].url = u /\ next[i] = [list[i] EXCEPT !.active_connections = @ + 1]
          \/ /\ list[i].url = u /\ list[i].active_connections > 0
             /\ next[i] = [list[i] EXCEPT !.active_connections = @ - 1]
        BY <2>1 DEF AfterRequestStart, AfterRequestEnd
    <2> QED  BY <2>1, <2>2 DEF BackendInstance
<1>4. next \in [DOMAIN list -> BackendInstance(U)]
    <2>1. next = [i \in DOMAIN list |-> next[i]]
        BY DEF AfterRequestStart, AfterRequestEnd
    <2> QED  BY <1>3, <2>1
<1>5. Distinct(next) /\ Urls(next) = Urls(list)
    BY <1>2, <1>3 DEF Distinct, Urls
<1> QED  BY <1>1, <1>2, <1>3, <1>4, <1>5 DEF Recounted

LEMMA CountsOne ==
    ASSUME NEW U, NEW list \in Seq(BackendInstance(U)), Distinct(list),
           NEW i \in DOMAIN list, NEW u, list[i].url = u
    PROVE  LET n == list[i].active_connections
           IN  /\ n \in Nat
               /\ AfterRequestStart(list, u)[i].active_connections = n + 1
               /\ AfterRequestEnd(list, u)[i].active_connections = IF n > 0 THEN n - 1 ELSE 0
<1>1. list[i] \in BackendInstance(U) /\ i \in FindBackend(list, u)
    BY Entries, FoundBackend
<1> QED  BY <1>1 DEF AfterRequestStart, AfterRequestEnd, BackendInstance

\* _run_health_checks (lb.py:391-414): what a result does to an entry.
LEMMA ProbedEntry ==
    ASSUME NEW U, NEW b \in BackendInstance(U), NEW next \in {Reinstated(b), Struck(b)}
    PROVE  /\ next \in BackendInstance(U)
           /\ next.url = b.url /\ next.active_connections = b.active_connections
<1>1. /\ 0 \in 0 .. ProbeThreshold
      /\ b.consecutive_failures < ProbeThreshold =>
             b.consecutive_failures + 1 \in 0 .. ProbeThreshold
    BY ProbeAssumption DEF ProbeAssumption, BackendInstance
<1>2. Reinstated(b) \in BackendInstance(U)
    BY <1>1 DEF Reinstated, BackendInstance
<1>3. Struck(b) \in BackendInstance(U)
    <2> DEFINE healthy == b.healthy /\ b.consecutive_failures + 1 < ProbeThreshold
               n == IF b.consecutive_failures < ProbeThreshold
                    THEN b.consecutive_failures + 1 ELSE b.consecutive_failures
    <2>1. healthy \in BOOLEAN /\ n \in 0 .. ProbeThreshold
        BY <1>1 DEF BackendInstance
    <2>2. Struck(b) = [b EXCEPT !.consecutive_failures = n, !.healthy = healthy]
        BY DEF Struck
    <2> HIDE DEF healthy, n
    <2> QED  BY <2>1, <2>2 DEF BackendInstance
<1> QED  BY <1>2, <1>3 DEF Reinstated, Struck, BackendInstance

LEMMA Applies ==
    ASSUME NEW U, NEW list \in Seq(BackendInstance(U)), Distinct(list), NEW next,
           next = [i \in DOMAIN list |-> next[i]],
           \A i \in DOMAIN list : next[i] \in {list[i], Reinstated(list[i]), Struck(list[i])}
    PROVE  /\ next \in Seq(BackendInstance(U)) /\ Distinct(next) /\ Urls(next) = Urls(list)
           /\ \A i \in DOMAIN list :
                  /\ next[i].url = list[i].url
                  /\ next[i].active_connections = list[i].active_connections
<1>1. ASSUME NEW i \in DOMAIN list
      PROVE  /\ next[i] \in BackendInstance(U) /\ next[i].url = list[i].url
             /\ next[i].active_connections = list[i].active_connections
    <2>1. list[i] \in BackendInstance(U)
        BY Entries
    <2> QED  BY <2>1, ProbedEntry
<1>2. next \in [DOMAIN list -> BackendInstance(U)]
    BY <1>1
<1>3. next \in Seq(BackendInstance(U))
    BY <1>2, Entries
<1> QED  BY <1>1, <1>3 DEF Distinct, Urls

-------------------------------------------------------------------------------
(* The two strategies.                                                     *)

LEMMA HealthyPositions ==
    ASSUME NEW X, NEW list \in Seq(X)
    PROVE  /\ HealthyBackends(list) \in SUBSET DOMAIN list
           /\ HealthyBackends(list) \in SUBSET Int /\ IsFiniteSet(HealthyBackends(list))
           /\ Cardinality(HealthyBackends(list)) \in Nat
           /\ HealthyBackends(list) # {} => Cardinality(HealthyBackends(list)) > 0
<1>1. HealthyBackends(list) \in SUBSET DOMAIN list
    BY DEF HealthyBackends
<1>2. HealthyBackends(list) \in SUBSET Int /\ IsFiniteSet(HealthyBackends(list))
    BY <1>1, Entries, FS_Subset
<1> QED  BY <1>1, <1>2, FS_CardinalityType, FS_EmptySet

\* Both return a healthy backend if there is one (lb.py:221-292).
LEMMA RoundRobinPicks ==
    ASSUME NEW X, NEW list \in Seq(X), HealthyBackends(list) # {}, NEW counter \in Nat
    PROVE  /\ RoundRobin(list, counter) \in HealthyBackends(list)
           /\ Before(HealthyBackends(list), RoundRobin(list, counter))
                  = counter % Cardinality(HealthyBackends(list))
<1> DEFINE H == HealthyBackends(list)
           n == Cardinality(H)
<1>1. H \in SUBSET Int /\ IsFiniteSet(H) /\ n \in Nat /\ n > 0
    BY HealthyPositions
<1>2. counter % n \in 0 .. n - 1
    <2> HIDE DEF n
    <2> QED  BY <1>1
<1>3. RoundRobin(list, counter) = Nth(H, counter % n)
    BY DEF RoundRobin
<1> HIDE DEF H
<1>4. Nth(H, counter % n) \in H /\ Before(H, Nth(H, counter % n)) = counter % n
    BY <1>1, <1>2, NthExists
<1> QED  BY <1>3, <1>4 DEF H

LEMMA LeastConnectionsPicks ==
    ASSUME NEW U, NEW list \in Seq(BackendInstance(U)), HealthyBackends(list) # {}
    PROVE  /\ LeastConnections(list) \in HealthyBackends(list)
           /\ \A j \in HealthyBackends(list) :
                  list[LeastConnections(list)].active_connections <= list[j].active_connections
<1> DEFINE H == HealthyBackends(list)
           load(i) == list[i].active_connections
           L == {load(i) : i \in H}
<1>1. H \in SUBSET DOMAIN list /\ H \in SUBSET Int /\ IsFiniteSet(H) /\ H # {}
    BY HealthyPositions
<1>2. \A i \in H : load(i) \in Nat
    <2>1. \A i \in DOMAIN list : list[i] \in BackendInstance(U)
        BY Entries
    <2> QED  BY <1>1, <2>1 DEF BackendInstance
<1>3. L \in SUBSET Int /\ IsFiniteSet(L) /\ L # {}
    <2> DEFINE f == [i \in H |-> load(i)]
    <2>1. f \in Surjection(H, L)
        BY DEF Surjection
    <2> HIDE DEF f, L
    <2>2. IsFiniteSet(L)
        BY <1>1, <2>1, FS_Surjection
    <2> QED  BY <1>1, <1>2, <2>2 DEF L
<1>4. PICK m \in L : \A l \in L : m <= l
    <2> HIDE DEF L
    <2> QED  BY <1>3, LeastExists
<1> DEFINE M == {i \in H : load(i) = m}
<1>5. M \in SUBSET H /\ M # {}
    BY <1>4
<1>6. M \in SUBSET Int /\ IsFiniteSet(M)
    <2> HIDE DEF M, H
    <2> QED  BY <1>1, <1>5, FS_Subset
<1>7. PICK i \in M : \A j \in M : i <= j
    <2> HIDE DEF M
    <2> QED  BY <1>5, <1>6, LeastExists
<1>8. i \in H /\ \A j \in H : load(i) < load(j) \/ (load(i) = load(j) /\ i <= j)
    <2>1. i \in H /\ load(i) = m
        BY <1>7
    <2>2. ASSUME NEW j \in H  PROVE load(i) < load(j) \/ (load(i) = load(j) /\ i <= j)
        <3>1. load(j) \in L /\ m <= load(j)
            BY <1>4
        <3>2. load(j) = m => i <= j
            BY <1>7
        <3> HIDE DEF load
        <3> QED  BY <1>2, <2>1, <3>1, <3>2
    <2> QED  BY <2>1, <2>2
<1> DEFINE least == LeastConnections(list)
<1>9. least \in H /\ \A j \in H : load(least) < load(j) \/ (load(least) = load(j) /\ least <= j)
    BY <1>8 DEF LeastConnections
<1> QED  BY <1>2, <1>9
===============================================================================
