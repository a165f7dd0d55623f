--------------------------- MODULE LifecycleProofs ----------------------------
(***************************************************************************)
(* TLAPS proofs about Lifecycle, for every number of starts and every set  *)
(* of requests.  The balancer knows of every health thread that is alive,  *)
(* until a join gives up on one (KnownThreads); the HTTP client that is    *)
(* remembered is open, except while it is being closed, and by then the    *)
(* requests are over (ClientKnown).  Then, about RouteWatcher: what one of *)
(* the watchers does with the routes file.  Last, about RouteTable: what   *)
(* the table it reloads resolves a path to, for every set of prefixes and  *)
(* every file.                                                             *)
(***************************************************************************)
EXTENDS Lifecycle, RouteWatcher, RouteTable, FiniteSetTheorems, WellFoundedInduction, TLAPS

KnownThreads ==
    /\ ~gave_up => Alive(checker) \subseteq {health_thread}
    /\ phase \in {"down", "closing"} => health_thread = 0

ClientKnown ==
    /\ phase # "down" => starts >= 1
    /\ phase \notin {"up", "draining"} => accepted = {}
    /\ \A r \in Requests : request[r] # 0 => r \in accepted
    /\ phase \in {"closing", "down"} => open = {}
    /\ phase = "down" => client = 0
    /\ phase # "closing" /\ client # 0 => client \in open

IInv == TypeOK /\ KnownThreads /\ ClientShared /\ ClientKnown

-------------------------------------------------------------------------------

\* Nothing runs before the first start (main.py:54-64).
LEMMA InitIInv == Init => IInv
<1> SUFFICES ASSUME Init  PROVE IInv
    OBVIOUS
<1>1. TypeOK
    <2>1. starts \in 0 .. MaxStarts /\ starts = 0 /\ 0 \in 0 .. 0
        BY LifecycleAssumption DEF Init, LifecycleAssumption
    <2> QED  BY <2>1 DEF Init, TypeOK, ThreadState
<1>2. KnownThreads
    BY DEF Init, KnownThreads, Alive
<1>3. ClientShared /\ ClientKnown
    BY DEF Init, ClientShared, ClientKnown
<1> QED  BY <1>1, <1>2, <1>3 DEF IInv

\* A start finds no thread the balancer has forgotten, unless a join gave up
\* (lb.py:336-355).
LEMMA StartupKeepsIInv == IInv /\ Startup => IInv'
<1> SUFFICES ASSUME IInv, Startup  PROVE IInv'
    OBVIOUS
<1> USE DEF IInv
<1> DEFINE n == starts + 1
<1>1. n \in Starts /\ starts' = n /\ starts \in Nat /\ n \in Nat
    BY LifecycleAssumption DEF Startup, TypeOK, Starts, LifecycleAssumption
<1>2. TypeOK'
    <2>1. 0 .. starts \subseteq 0 .. n /\ n \in 0 .. n /\ n \in 0 .. MaxStarts
        BY <1>1, LifecycleAssumption DEF Startup, LifecycleAssumption
    <2>2. watcher' \in [Starts -> ThreadState] /\ file_watcher' \in 0 .. n
        BY <1>1, <2>1 DEF Startup, StartWatcher, TypeOK, ThreadState
    <2>3. /\ checker' \in [Starts -> ThreadState] /\ health_thread' \in 0 .. n
          /\ health_stop' \in BOOLEAN
        BY <1>1, <2>1 DEF Startup, StartChecker, TypeOK, ThreadState
    <2>4. /\ client' \in 0 .. n /\ request' \in [Requests -> 0 .. n]
          /\ accepted' \subseteq Requests
        BY <1>1, <2>1 DEF Startup, TypeOK, proxying
    <2> QED  BY <1>1, <2>1, <2>2, <2>3, <2>4 DEF Startup, TypeOK, proxying
<1>3. KnownThreads'
    <2>1. CASE health_thread \in Alive(checker)
        BY <2>1 DEF Startup, StartChecker, KnownThreads, Alive
    <2>2. CASE health_thread \notin Alive(checker)
        <3>1. health_thread' = n /\ checker' = [checker EXCEPT ![n] = "waiting"]
            BY <2>2 DEF Startup, StartChecker
        <3>2. Alive(checker)' \subseteq Alive(checker) \cup {n}
            BY <3>1 DEF Alive, TypeOK
        <3>3. ~gave_up => Alive(checker) = {}
            BY <2>2 DEF KnownThreads
        <3> QED  BY <3>1, <3>2, <3>3 DEF Startup, KnownThreads
    <2> QED  BY <2>1, <2>2
<1>4. ClientShared' /\ ClientKnown'
    BY <1>1 DEF Startup, ClientShared, ClientKnown, proxying
<1> QED  BY <1>2, <1>3, <1>4

\* The shutdown hook closes the client when no request is in flight and forgets
\* the health thread when it has ended or its join gave up (main.py:118-125).
LEMMA ShutdownKeepsIInv == IInv /\ Shutdown => IInv'
<1> SUFFICES ASSUME IInv, Shutdown  PROVE IInv'
    OBVIOUS
<1> USE DEF IInv
<1>1. CASE StopWatcher
    <2>1. {file_watcher} \ {0} \subseteq Starts
        BY LifecycleAssumption DEF TypeOK, Starts, LifecycleAssumption
    <2>2. TypeOK'
        BY <1>1, <2>1 DEF StopWatcher, TypeOK, checkers, proxying
    <2> QED  BY <1>1, <2>2
             DEF StopWatcher, KnownThreads, ClientShared, ClientKnown, Alive, checkers, proxying
<1>2. CASE StopChecker
    BY <1>2 DEF StopChecker, TypeOK, KnownThreads, ClientShared, ClientKnown, Alive,
                watchers, proxying
<1>3. CASE Close
    <2>1. TypeOK'
        BY <1>3, LifecycleAssumption
           DEF Close, EventStays, TypeOK, watchers, LifecycleAssumption
    <2>2. ~gave_up' => Alive(checker)' = {}
        <3>1. CASE health_thread = 0
            <4>1. 0 \notin Alive(checker)
                BY DEF Alive, Starts
            <4>2. ~gave_up' => ~gave_up
                BY <1>3 DEF Close
            <4>3. Alive(checker)' = Alive(checker)
                BY <1>3 DEF Close, Alive
            <4> QED  BY <3>1, <4>1, <4>2, <4>3 DEF KnownThreads
        <3>2. CASE health_thread # 0
            <4>1. health_thread \in Starts
                BY <3>2, LifecycleAssumption DEF TypeOK, Starts, LifecycleAssumption
            <4>2. ~gave_up' => checker[health_thread] = "off"
                BY <1>3, <3>2, <4>1 DEF Close, JoinEnds, TypeOK, ThreadState
            <4> QED  BY <1>3, <4>2 DEF Close, KnownThreads, Alive
        <3> QED  BY <3>1, <3>2
    <2>3. KnownThreads'
        BY <1>3, <2>2 DEF Close, KnownThreads
    <2>4. ClientShared' /\ ClientKnown'
        BY <1>3 DEF Close, ClientShared, ClientKnown, watchers
    <2> QED  BY <2>1, <2>3, <2>4
<1>4. CASE Closed
    <2>1. TypeOK'
        BY <1>4, LifecycleAssumption
           DEF Closed, ClientForgotten, TypeOK, watchers, checkers, LifecycleAssumption
    <2> QED  BY <1>4, <2>1
             DEF Closed, ClientForgotten, KnownThreads, ClientShared, ClientKnown, Alive,
                 watchers, checkers
<1> QED  BY <1>1, <1>2, <1>3, <1>4 DEF Shutdown

\* A request makes a client when there is none, and the next ones find it
\* (reverse_proxy.py:29-37).
LEMMA RequestKeepsIInv ==
    ASSUME IInv, NEW r \in Requests, Accept(r) \/ Forward(r) \/ End(r)
    PROVE  IInv'
<1> USE DEF IInv
<1>1. CASE Forward(r)
    <2>1. starts \in Starts /\ starts # 0 /\ starts \in 0 .. starts
        BY <1>1, LifecycleAssumption
           DEF Forward, ClientKnown, TypeOK, Starts, LifecycleAssumption
    <2>2. TypeOK'
        BY <1>1, <2>1 DEF Forward, TypeOK, watchers, checkers
    <2>3. client' # 0 /\ client' \in open' /\ open' \subseteq {client'}
        <3>1. CASE client = 0
            <4>1. open = {}
                BY <3>1 DEF ClientShared, TypeOK, Starts
            <4> QED  BY <1>1, <2>1, <3>1, <4>1 DEF Forward
        <3>2. CASE client # 0
            BY <1>1, <3>2 DEF Forward, ClientShared, ClientKnown
        <3> QED  BY <3>1, <3>2
    <2>4. open \subseteq open'
        BY <1>1 DEF Forward
    <2>5. ASSUME NEW q \in Requests, request'[q] # 0  PROVE request'[q] \in open'
        BY <1>1, <2>3, <2>4, <2>5 DEF Forward, TypeOK, ClientShared
    <2> QED  BY <1>1, <2>2, <2>3, <2>5
             DEF Forward, KnownThreads, ClientShared, ClientKnown, Alive, watchers, checkers
<1>2. CASE End(r)
    <2>1. TypeOK'
        BY <1>2 DEF End, TypeOK, watchers, checkers
    <2>2. \A q \in Requests : request'[q] = IF q = r THEN 0 ELSE request[q]
        BY <1>2 DEF End, TypeOK
    <2>3. ClientShared'
        BY <1>2, <2>2 DEF End, ClientShared
    <2>4. ClientKnown'
        BY <1>2, <2>2 DEF End, ClientKnown
    <2> QED  BY <1>2, <2>1, <2>3, <2>4
             DEF End, KnownThreads, ClientShared, ClientKnown, Alive, watchers, checkers
<1>3. CASE Accept(r)
    BY <1>3 DEF Accept, TypeOK, KnownThreads, ClientShared, ClientKnown, Alive, watchers,
                checkers
<1> QED  BY <1>1, <1>2, <1>3

\* A thread that has ended stays ended.
LEMMA LoopLives ==
    ASSUME NEW threads, NEW threads_new, NEW n \in Starts, NEW told \in BOOLEAN,
           threads \in [Starts -> ThreadState],
           \/ /\ threads[n] = "waiting"
              /\ threads_new = [threads EXCEPT ![n] = IF told THEN "off" ELSE "busy"]
           \/ threads[n] = "busy" /\ threads_new = [threads EXCEPT ![n] = "waiting"]
    PROVE  threads_new \in [Starts -> ThreadState] /\ Alive(threads_new) \subseteq Alive(threads)
BY DEF ThreadState, Alive

LEMMA ThreadsKeepIInv ==
    ASSUME IInv, NEW n \in Starts, Watch(n) \/ Check(n)
    PROVE  IInv'
<1> USE DEF IInv
<1>1. CASE Watch(n)
    <2>1. watcher' \in [Starts -> ThreadState]
        BY <1>1, LoopLives DEF Watch, Loop, TypeOK
    <2> QED  BY <1>1, <2>1
             DEF Watch, TypeOK, KnownThreads, ClientShared, ClientKnown, Alive, checkers, proxying
<1>2. CASE Check(n)
    <2>1. checker' \in [Starts -> ThreadState] /\ Alive(checker)' \subseteq Alive(checker)
        <3>1. Alive(checker)' = Alive(checker')
            BY DEF Alive
        <3> QED  BY <1>2, <3>1, LoopLives DEF Check, Loop, TypeOK
    <2> QED  BY <1>2, <2>1
             DEF Check, TypeOK, KnownThreads, ClientShared, ClientKnown, watchers, proxying
<1> QED  BY <1>1, <1>2

LEMMA NextKeepsIInv == IInv /\ [Next]_vars => IInv'
<1> SUFFICES ASSUME IInv, [Next]_vars  PROVE IInv'
    OBVIOUS
<1>1. CASE Startup
    BY <1>1, StartupKeepsIInv
<1>2. CASE Drain
    BY <1>2 DEF Drain, IInv, TypeOK, KnownThreads, ClientShared, ClientKnown, Alive,
                watchers, checkers, proxying
<1>3. CASE Shutdown
    BY <1>3, ShutdownKeepsIInv
<1>4. CASE \E r \in Requests : Accept(r) \/ Forward(r) \/ End(r)
    BY <1>4, RequestKeepsIInv
<1>5. CASE \E n \in Starts : Watch(n) \/ Check(n)
    BY <1>5, ThreadsKeepIInv
<1>6. CASE UNCHANGED vars
    BY <1>6 DEF IInv, TypeOK, KnownThreads, ClientShared, ClientKnown, Alive,
                vars, watchers, checkers, proxying
<1> QED  BY <1>1, <1>2, <1>3, <1>4, <1>5, <1>6 DEF Next

LEMMA IInvAlways == Spec => []IInv
BY InitIInv, NextKeepsIInv, PTL DEF Spec

-------------------------------------------------------------------------------

\* Every variable of the hooks and of what they start and stop has its type.
THEOREM TypeCorrect == Spec => []TypeOK
<1>1. IInv => TypeOK
    BY DEF IInv
<1> QED  BY <1>1, IInvAlways, PTL

\* However often the gateway is started and stopped, at most one health thread is
\* alive, unless a join gave up on one in the middle of a round (lb.py:337).
THEOREM AtMostOneChecker == Spec => []OneChecker
<1>1. IInv => OneChecker
    <2> SUFFICES ASSUME IInv, ~gave_up  PROVE ~(Cardinality(Alive(checker)) > 1)
        BY DEF OneChecker
    <2>1. Alive(checker) = {} \/ Alive(checker) = {health_thread}
        BY DEF IInv, KnownThreads
    <2>2. Cardinality(Alive(checker)) \in {0, 1}
        BY <2>1, FS_EmptySet, FS_Singleton
    <2> QED  BY <2>2
<1> QED  BY <1>1, IInvAlways, PTL

\* Every request in flight has an open client, no other client is open, and a
\* gateway that is down has closed it (reverse_proxy.py:21).
THEOREM OneOpenClient == Spec => []ClientShared
<1>1. IInv => ClientShared
    BY DEF IInv
<1> QED  BY <1>1, IInvAlways, PTL

-------------------------------------------------------------------------------
(* RouteWatcher: the file watcher that Lifecycle starts and stops, with    *)
(* its polls and reloads in full, for any number of edits and any set of   *)
(* modification times.  That the table never goes back needs more than the *)
(* types: what a reload has read is not older than the table it is about   *)
(* to replace, and a file that parses holds the newest version.            *)

NeverBehind ==
    /\ content \in Versions => content = newest
    /\ routes <= newest
    /\ pc = "swapping" => routes <= loaded /\ loaded <= newest

WatcherInv == WatcherTypeOK /\ NeverBehind

-------------------------------------------------------------------------------

\* The gateway starts with an empty table (router.py:89-91).
LEMMA InitWatcherInv == WatcherInit => WatcherInv
<1> SUFFICES ASSUME WatcherInit  PROVE WatcherInv
    OBVIOUS
<1>1. /\ Edits \in Nat /\ 0 \in Versions /\ 1 \in Versions /\ Broken \notin Versions
    BY WatcherAssumption DEF Versions, WatcherAssumption
<1>2. WatcherTypeOK
    BY <1>1 DEF WatcherInit, WatcherTypeOK
<1>3. NeverBehind
    BY <1>1 DEF WatcherInit, NeverBehind
<1> QED  BY <1>2, <1>3 DEF WatcherInv

\* An edit makes the newest version newer, or leaves a file that does not parse.
LEMMA EditKeepsWatcherInv == WatcherInv /\ Edit => WatcherInv'
<1> SUFFICES ASSUME WatcherInv, Edit  PROVE WatcherInv'
    OBVIOUS
<1> USE DEF WatcherInv
<1>1. /\ newest \in Nat /\ routes \in Nat /\ loaded \in Nat /\ Edits \in Nat
      /\ newest < Edits => newest + 1 \in Versions
      /\ Broken \notin Versions /\ Missing \notin Versions
    BY WatcherAssumption DEF WatcherTypeOK, Versions, WatcherAssumption
<1>2. /\ mtime' \in Mtimes /\ blind' \in BOOLEAN /\ stop' = stop
      /\ routes' = routes /\ last_mtime' = last_mtime /\ loaded' = loaded /\ pc' = pc
    BY DEF Edit, Replace, Damage, Fill, Touch, watching
<1>3. CASE Replace \/ Fill
    <2>1. newest < Edits /\ newest' = newest + 1 /\ content' = newest + 1
        BY <1>3 DEF Replace, Fill
    <2>2. WatcherTypeOK'
        BY <1>1, <1>2, <2>1 DEF WatcherTypeOK
    <2>3. NeverBehind'
        BY <1>1, <1>2, <2>1 DEF NeverBehind
    <2> QED  BY <2>2, <2>3
<1>4. CASE Damage
    <2>1. newest' = newest /\ content' \in {Broken, Missing}
        BY <1>4 DEF Damage
    <2>2. WatcherTypeOK'
        BY <1>2, <2>1 DEF WatcherTypeOK
    <2>3. NeverBehind'
        BY <1>1, <1>2, <2>1 DEF NeverBehind
    <2> QED  BY <2>2, <2>3
<1> QED  BY <1>3, <1>4 DEF Edit

\* A reload reads the newest version or none (router.py:207-214).
LEMMA WatchKeepsWatcherInv == WatcherInv /\ WatchStep => WatcherInv'
<1> SUFFICES ASSUME WatcherInv, WatchStep  PROVE WatcherInv'
    OBVIOUS
<1> USE DEF WatcherInv
<1>1. newest \in Nat /\ routes \in Nat /\ loaded \in Nat /\ Versions' = Versions
    BY WatcherAssumption DEF WatcherTypeOK, Versions, WatcherAssumption
<1>2. CASE Start \/ Wake \/ CheckMtime
    BY <1>2 DEF Start, Wake, CheckMtime, WatcherTypeOK, NeverBehind, editor
<1>3. CASE Read
    BY <1>1, <1>3 DEF Read, Parsed, WatcherTypeOK, NeverBehind, editor
<1>4. CASE Swap
    BY <1>1, <1>4 DEF Swap, WatcherTypeOK, NeverBehind, editor
<1>5. CASE Stamp
    BY <1>5 DEF Stamp, WatcherTypeOK, NeverBehind, editor
<1> QED  BY <1>2, <1>3, <1>4, <1>5 DEF WatchStep

LEMMA WatcherStep == WatcherInv /\ [WatcherNext]_watcherVars => WatcherInv'
<1>1. WatcherInv /\ Stop => WatcherInv'
    BY DEF Stop, WatcherInv, WatcherTypeOK, NeverBehind, editor, watching
<1>2. WatcherInv /\ UNCHANGED watcherVars => WatcherInv'
    BY DEF watcherVars, WatcherInv, WatcherTypeOK, NeverBehind, editor, watching
<1> QED  BY <1>1, <1>2, EditKeepsWatcherInv, WatchKeepsWatcherInv DEF WatcherNext

LEMMA WatcherInvAlways == WatcherSpec => []WatcherInv
BY InitWatcherInv, WatcherStep, PTL DEF WatcherSpec

-------------------------------------------------------------------------------

\* What the watcher holds of the file is one of its versions, and never what was
\* read of a half-written one.
THEOREM WatcherTypeCorrect == WatcherSpec => []WatcherTypeOK
<1>1. WatcherInv => WatcherTypeOK
    BY DEF WatcherInv
<1> QED  BY <1>1, WatcherInvAlways, PTL

\* However edits interleave with a reload, the table never goes back to older
\* routes and is never emptied (router.py:207-214).
THEOREM NeverGoesBack == WatcherSpec => KeepsRoutes
<1>1. WatcherInv /\ [WatcherNext]_watcherVars => [routes' >= routes]_watcherVars
    <2> SUFFICES ASSUME WatcherInv, [WatcherNext]_watcherVars, ~UNCHANGED watcherVars
                 PROVE  routes' >= routes
        OBVIOUS
    <2>1. routes \in Nat
        BY WatcherAssumption DEF WatcherInv, WatcherTypeOK, Versions, WatcherAssumption
    <2>2. CASE Swap
        BY <2>1, <2>2 DEF Swap, WatcherInv, NeverBehind
    <2>3. CASE Edit \/ Stop \/ (WatchStep /\ ~Swap)
        <3>1. routes' = routes
            BY <2>3 DEF Edit, Replace, Damage, Fill, Touch, Stop, watching, WatchStep,
                        Start, Wake, CheckMtime, Read, Stamp
        <3> QED  BY <2>1, <3>1
    <2> QED  BY <2>2, <2>3 DEF WatcherNext, WatchStep
<1> QED  BY <1>1, WatcherInvAlways, PTL DEF WatcherSpec, KeepsRoutes

-------------------------------------------------------------------------------
(* The route table.                                                        *)

\* Route j of the list f is not after route i in the table.
NotAfter(f, j, i) ==
    \/ Length[f[j].prefix] > Length[f[i].prefix]
    \/ Length[f[j].prefix] = Length[f[i].prefix] /\ j <= i

RouteLists == UNION {[1 .. n -> [prefix : RoutePrefixes, nr : Nat]] : n \in Nat}

TableInv == file \in RouteLists /\ table = LoadFromList(file)

LEMMA RouteListTypes ==
    ASSUME NEW f \in RouteLists
    PROVE  \E n \in Nat : /\ DOMAIN f = 1 .. n /\ IsFiniteSet(DOMAIN f)
                          /\ Cardinality(DOMAIN f) = n
                          /\ \A i \in 1 .. n : /\ f[i].prefix \in RoutePrefixes
                                               /\ Length[f[i].prefix] \in Nat
<1>1. PICK n \in Nat : f \in [1 .. n -> [prefix : RoutePrefixes, nr : Nat]]
    BY DEF RouteLists
<1>2. IsFiniteSet(1 .. n) /\ Cardinality(1 .. n) = n
    <2>1. /\ IsFiniteSet(1 .. n)
          /\ Cardinality(1 .. n) = IF 1 > n THEN 0 ELSE n - 1 + 1
        BY FS_Interval
    <2> QED  BY <2>1
<1>3. \A i \in 1 .. n : f[i].prefix \in RoutePrefixes
    BY <1>1
<1>4. \A i \in 1 .. n : Length[f[i].prefix] \in Nat
    BY <1>3, LengthAssumption DEF LengthAssumption
<1> QED  BY <1>1, <1>2, <1>3, <1>4

\* The routes have different ranks, in the order of the sort.
LEMMA RanksSort ==
    ASSUME NEW f \in RouteLists
    PROVE  /\ \A i \in DOMAIN f : Rank(f, i) \in DOMAIN f
           /\ \A i, j \in DOMAIN f : Rank(f, j) <= Rank(f, i) => NotAfter(f, j, i)
<1> DEFINE upto(i) == {j \in DOMAIN f : NotAfter(f, j, i)}
<1>1. PICK n \in Nat : /\ DOMAIN f = 1 .. n /\ IsFiniteSet(DOMAIN f)
                       /\ Cardinality(DOMAIN f) = n
                       /\ \A i \in 1 .. n : Length[f[i].prefix] \in Nat
    BY RouteListTypes
<1>2. \A i : Rank(f, i) = Cardinality(upto(i))
    BY DEF Rank, NotAfter
<1>3. \A i, j \in DOMAIN f : NotAfter(f, i, i) /\ (NotAfter(f, i, j) \/ NotAfter(f, j, i))
    BY <1>1 DEF NotAfter
<1>4. \A i, j, k \in DOMAIN f : NotAfter(f, k, j) /\ NotAfter(f, j, i) => NotAfter(f, k, i)
    BY <1>1 DEF NotAfter
<1>5. \A i : upto(i) \in SUBSET DOMAIN f /\ \A j \in DOMAIN f : j \in upto(i) <=> NotAfter(f, j, i)
    OBVIOUS
<1> HIDE DEF upto
<1>6. ASSUME NEW i \in DOMAIN f  PROVE Rank(f, i) \in DOMAIN f
    <2>1. IsFiniteSet(upto(i)) /\ Cardinality(upto(i)) <= n
        BY <1>1, <1>5, FS_Subset
    <2>2. Cardinality(upto(i)) \in Nat /\ Cardinality(upto(i)) # 0
        BY <1>3, <1>5, <2>1, FS_CardinalityType, FS_EmptySet
    <2> QED  BY <1>1, <1>2, <2>1, <2>2
<1>7. ASSUME NEW i \in DOMAIN f, NEW j \in DOMAIN f, ~NotAfter(f, j, i)
      PROVE  Rank(f, i) < Rank(f, j)
    <2>1. upto(i) \in SUBSET upto(j) /\ j \in upto(j) /\ j \notin upto(i)
        BY <1>3, <1>4, <1>5, <1>7
    <2>2. IsFiniteSet(upto(i)) /\ IsFiniteSet(upto(j))
        BY <1>1, <1>5, FS_Subset
    <2>3. /\ IsFiniteSet(upto(i) \cup {j})
          /\ Cardinality(upto(i) \cup {j}) = Cardinality(upto(i)) + 1
        BY <2>1, <2>2, FS_AddElement
    <2>4. Cardinality(upto(i) \cup {j}) <= Cardinality(upto(j))
        <3>1. upto(i) \cup {j} \in SUBSET upto(j)
            BY <2>1
        <3> QED  BY <2>2, <3>1, FS_Subset
    <2>5. Cardinality(upto(i)) \in Nat /\ Cardinality(upto(j)) \in Nat
        BY <2>2, FS_CardinalityType
    <2> QED  BY <1>2, <2>3, <2>4, <2>5
<1>8. ASSUME NEW i \in DOMAIN f, NEW j \in DOMAIN f, Rank(f, j) <= Rank(f, i)
      PROVE  NotAfter(f, j, i)
    <2>1. Rank(f, i) \in Nat /\ Rank(f, j) \in Nat
        BY <1>1, <1>6
    <2> QED  BY <1>7, <1>8, <2>1
<1> QED  BY <1>6, <1>8

\* load_from_list puts every route at its rank, and nothing else
\* (router.py:94-102).
LEMMA LoadsAll ==
    ASSUME NEW f \in RouteLists
    PROVE  \E at \in [DOMAIN f -> DOMAIN f] :
               /\ LoadFromList(f) = [k \in DOMAIN f |-> f[at[k]]]
               /\ \A k \in DOMAIN f : Rank(f, at[k]) = k
               /\ \A i \in DOMAIN f : at[Rank(f, i)] = i
<1> DEFINE D == DOMAIN f
           rank == [i \in D |-> Rank(f, i)]
           at == [k \in D |-> CHOOSE i \in D : Rank(f, i) = k]
<1>1. PICK n \in Nat : /\ D = 1 .. n /\ IsFiniteSet(D)
                       /\ \A i \in D : Length[f[i].prefix] \in Nat
    BY RouteListTypes
<1>2. \A i, j \in D : Rank(f, i) = Rank(f, j) => i = j
    <2> SUFFICES ASSUME NEW i \in D, NEW j \in D, Rank(f, i) = Rank(f, j)  PROVE i = j
        OBVIOUS
    <2>1. Rank(f, i) \in Nat /\ Rank(f, j) \in Nat
        BY <1>1, RanksSort
    <2>2. NotAfter(f, i, j) /\ NotAfter(f, j, i)
        BY <2>1, RanksSort
    <2> QED  BY <1>1, <2>2 DEF NotAfter
<1>3. rank \in Injection(D, D)
    BY <1>2, RanksSort DEF Injection, IsInjective
<1>4. \A k \in D : \E i \in D : Rank(f, i) = k
    <2> HIDE DEF D, rank
    <2>1. rank \in Surjection(D, D)
        BY <1>1, <1>3, FS_Injection
    <2>2. \A i \in D : rank[i] = Rank(f, i)
        BY DEF rank
    <2> QED  BY <2>1, <2>2 DEF Surjection
<1>5. \A k \in D : at[k] \in D /\ Rank(f, at[k]) = k
    BY <1>4
<1>6. \A i \in D : at[Rank(f, i)] = i
    <2> HIDE DEF at
    <2> QED  BY <1>2, <1>5, RanksSort
<1>7. at \in [D -> D] /\ LoadFromList(f) = [k \in D |-> f[at[k]]]
    BY <1>4 DEF LoadFromList
<1> QED  BY <1>5, <1>6, <1>7

\* Of two prefixes of a path the one with fewer segments is a prefix of the other.
LEMMA PrefixesCompare ==
    ASSUME NEW path \in Seq(Segments), NEW p \in RoutePrefixes, NEW q \in RoutePrefixes,
           IsPrefix(p, path), IsPrefix(q, path)
    PROVE  /\ Len(p) \in Nat /\ Len(q) \in Nat
           /\ Len(p) = Len(q) => p = q
           /\ Len(p) < Len(q) => Length[p] < Length[q]
<1>1. p \in Seq(Segments) /\ q \in Seq(Segments)
    BY LengthAssumption DEF LengthAssumption
<1>2. \A i \in 1 .. Len(p) : p[i] = path[i]
    BY <1>1 DEF IsPrefix
<1>3. \A i \in 1 .. Len(q) : q[i] = path[i]
    BY <1>1 DEF IsPrefix
<1>4. Len(p) = Len(q) => p = q
    BY <1>1, <1>2, <1>3
<1>5. ASSUME Len(p) < Len(q)  PROVE Length[p] < Length[q]
    <2>1. p = SubSeq(q, 1, Len(p)) /\ p = SubSeq(p, 1, Len(p))
        BY <1>1, <1>2, <1>3, <1>5
    <2>2. IsStrictPrefix(p, q)
        BY <1>1, <1>5, <2>1 DEF IsStrictPrefix, IsPrefix
    <2> QED  BY <2>2, LengthAssumption DEF LengthAssumption
<1> QED  BY <1>1, <1>4, <1>5

\* A set of positions has a first one.
LEMMA FirstExists ==
    ASSUME NEW T \in SUBSET Nat, T # {}
    PROVE  \E i \in T : \A j \in T : i <= j
<1> DEFINE R == OpToRel(<, Nat)
<1>1. IsWellFoundedOn(R, Nat)
    BY NatLessThanWellFounded
<1>2. \A i, j \in Nat : i < j => <<i, j>> \in R
    BY DEF OpToRel
<1> HIDE DEF R
<1>3. PICK i \in T : \A j \in T : ~(<<j, i>> \in R)
    BY <1>1, WFMin
<1>4. ASSUME NEW j \in T  PROVE i <= j
    <2>1. i \in Nat /\ j \in Nat /\ ~(j < i)
        BY <1>2, <1>3
    <2> QED  BY <2>1
<1> QED  BY <1>4

\* The first match of the table is the longest prefix of the file, and of those
\* with one prefix the first (router.py:9-11, 105-116).
LEMMA ResolvesLongest ==
    ASSUME TableInv, NEW path \in Seq(Segments), Candidates(path) # {}
    PROVE  Resolve(table, path) = file[CHOOSE i \in Longest(path) : \A j \in Longest(path) : i <= j]
<1> DEFINE D == DOMAIN file
           C == Candidates(path)
           L == Longest(path)
           hits == {k \in DOMAIN table : Matches(table[k].prefix, path)}
           first == CHOOSE k \in hits : \A l \in hits : k <= l
<1>1. PICK at \in [D -> D] :
          /\ table = [k \in D |-> file[at[k]]]
          /\ \A k \in D : Rank(file, at[k]) = k
          /\ \A i \in D : at[Rank(file, i)] = i
    BY LoadsAll DEF TableInv
<1>2. PICK n \in Nat : D = 1 .. n /\ \A i \in D : /\ file[i].prefix \in RoutePrefixes
                                                  /\ Length[file[i].prefix] \in Nat
    BY RouteListTypes DEF TableInv
<1>3. /\ C \in SUBSET D /\ L \in SUBSET C
      /\ \A i \in C : IsPrefix(file[i].prefix, path)
    BY DEF Candidates, Longest
<1>4. \A k \in D : k \in hits <=> at[k] \in C
    BY <1>1 DEF Candidates, Matches
<1>5. hits \in SUBSET D
    BY <1>1
<1>6. Resolve(table, path) = IF hits = {} THEN NoRoute ELSE table[first]
    BY DEF Resolve
<1> HIDE DEF hits
<1>7. \A i \in C : Rank(file, i) \in hits
    BY <1>1, <1>3, <1>4, RanksSort DEF TableInv
<1>8. first \in hits /\ \A l \in hits : first <= l
    <2>1. hits # {} /\ hits \in SUBSET Nat
        BY <1>2, <1>5, <1>7
    <2> QED  BY <2>1, FirstExists
<1> DEFINE i == at[first]
<1> HIDE DEF first, D, C, L
<1>9. i \in C /\ i \in D /\ table[first] = file[i] /\ Rank(file, i) = first
    BY <1>1, <1>4, <1>5, <1>8
<1>10. ASSUME NEW j \in C  PROVE NotAfter(file, i, j)
    BY <1>3, <1>7, <1>8, <1>9, RanksSort DEF TableInv, D
<1>11. ASSUME NEW j \in C
       PROVE  /\ Len(file[j].prefix) <= Len(file[i].prefix)
              /\ Len(file[j].prefix) = Len(file[i].prefix) => i <= j
    <2> DEFINE p == file[i].prefix
               q == file[j].prefix
    <2>1. /\ p \in RoutePrefixes /\ q \in RoutePrefixes
          /\ IsPrefix(p, path) /\ IsPrefix(q, path)
          /\ Length[p] \in Nat /\ Length[q] \in Nat
        BY <1>2, <1>3, <1>9
    <2>2. Length[p] > Length[q] \/ (Length[p] = Length[q] /\ i <= j)
        BY <1>10 DEF NotAfter
    <2> HIDE DEF p, q, i
    <2>3. /\ Len(p) \in Nat /\ Len(q) \in Nat
          /\ Len(p) = Len(q) => p = q
          /\ Len(p) < Len(q) => Length[p] < Length[q]
        BY <2>1, PrefixesCompare
    <2> QED  BY <2>1, <2>2, <2>3 DEF p, q
<1> HIDE DEF i
<1>12. i \in L
    BY <1>9, <1>11 DEF L, C, Longest
<1>13. \A j \in L : i <= j
    <2> SUFFICES ASSUME NEW j \in L  PROVE i <= j
        OBVIOUS
    <2>1. j \in C /\ Len(file[i].prefix) <= Len(file[j].prefix)
        BY <1>3, <1>9 DEF L, C, Longest
    <2>2. Len(file[j].prefix) \in Nat /\ Len(file[i].prefix) \in Nat
        <3>1. \A k \in D : file[k].prefix \in Seq(Segments)
            BY <1>2, LengthAssumption DEF LengthAssumption
        <3>2. j \in D
            BY <1>3, <2>1
        <3> QED  BY <1>9, <3>1, <3>2
    <2>3. Len(file[j].prefix) <= Len(file[i].prefix)
        BY <1>11, <2>1
    <2>4. Len(file[j].prefix) = Len(file[i].prefix)
        BY <2>1, <2>2, <2>3
    <2> QED  BY <1>11, <2>1, <2>4
<1>14. i = CHOOSE k \in L : \A j \in L : k <= j
    <2>1. \A k \in L : (\A j \in L : k <= j) => k = i
        <3> SUFFICES ASSUME NEW k \in L, \A j \in L : k <= j  PROVE k = i
            OBVIOUS
        <3>1. k <= i /\ i <= k /\ k \in Nat /\ i \in Nat
            BY <1>2, <1>3, <1>9, <1>12, <1>13
        <3> QED  BY <3>1
    <2> QED  BY <1>12, <1>13, <2>1
<1> QED  BY <1>6, <1>8, <1>9, <1>14 DEF L

\* Whatever files are loaded, a path goes to the route of the file with the
\* longest prefix in segments, the first one where two have the same, although
\* the sort compares characters (router.py:94-116).
THEOREM AlwaysResolvesLongest == TableSpec => []ResolvesLongestPrefix
<1>1. TableInit => TableInv
    <2> SUFFICES ASSUME TableInit  PROVE TableInv
        OBVIOUS
    <2>1. file = <<>> /\ table = <<>> /\ DOMAIN file = {} /\ 1 .. 0 = {}
        BY DEF TableInit
    <2>2. file \in [1 .. 0 -> [prefix : RoutePrefixes, nr : Nat]]
        BY <2>1
    <2>3. table = LoadFromList(file)
        BY <2>1 DEF LoadFromList
    <2> QED  BY <2>2, <2>3 DEF TableInv, RouteLists
<1>2. TableInv /\ [TableNext]_tableVars => TableInv'
    <2> SUFFICES ASSUME TableInv, [TableNext]_tableVars  PROVE TableInv'
        OBVIOUS
    <2>1. CASE UNCHANGED tableVars
        BY <2>1 DEF TableInv, tableVars
    <2>2. CASE TableNext
        <3>1. PICK new \in Files : file' = new /\ table' = LoadFromList(new)
            BY <2>2 DEF TableNext, Load
        <3>2. PICK n \in 0 .. MaxRoutes : \E g \in [1 .. n -> RoutePrefixes] :
                  new = [i \in 1 .. n |-> [prefix |-> g[i], nr |-> i]]
            BY <3>1 DEF Files
        <3>3. n \in Nat
            BY <3>2, TableAssumption DEF TableAssumption
        <3>4. new \in [1 .. n -> [prefix : RoutePrefixes, nr : Nat]]
            BY <3>2, <3>3
        <3> QED  BY <3>1, <3>3, <3>4 DEF TableInv, RouteLists
    <2> QED  BY <2>1, <2>2
<1>3. TableInv => ResolvesLongestPrefix
    <2> SUFFICES ASSUME TableInv, NEW path \in Paths
                 PROVE  Resolve(table, path) =
                            IF Candidates(path) = {} THEN NoRoute
                            ELSE file[CHOOSE i \in Longest(path) : \A j \in Longest(path) : i <= j]
        BY DEF ResolvesLongestPrefix
    <2>1. path \in Seq(Segments)
        BY TableAssumption DEF TableAssumption
    <2>2. CASE Candidates(path) = {}
        <3>1. PICK at \in [DOMAIN file -> DOMAIN file] :
                  table = [k \in DOMAIN file |-> file[at[k]]]
            BY LoadsAll DEF TableInv
        <3>2. {k \in DOMAIN table : Matches(table[k].prefix, path)} = {}
            BY <2>2, <3>1 DEF Candidates, Matches
        <3> QED  BY <2>2, <3>2 DEF Resolve
    <2>3. CASE Candidates(path) # {}
        BY <2>1, <2>3, ResolvesLongest
    <2> QED  BY <2>2, <2>3
<1> QED  BY <1>1, <1>2, <1>3, PTL DEF TableSpec
===============================================================================
