-------------------------- MODULE ResponseCacheProofs -------------------------
(***************************************************************************)
(* TLAPS proofs about ResponseCache, for every set of keys with their      *)
(* TTLs, any number of concurrent requests and every latency.  An entry    *)
(* ages by as much as it has less time left, so the two together never     *)
(* exceed the TTL and the latency of the answer it was made from; and      *)
(* neither an entry nor an answer that is on its way shows less than the   *)
(* version its key was last invalidated at.                                *)
(***************************************************************************)
EXTENDS ResponseCache, TLAPS

EntriesTimely ==
    \A k \in Keys : store[k] # Absent =>
        /\ store[k].body.ok
        /\ store[k].left # Expired => store[k].body.age + store[k].left <= Oldest(k)

AnswersYoung ==
    \A c \in Clients : request[c].phase = "answered" => request[c].body.age <= MaxLatency

PurgedIsGone ==
    /\ \A k \in Keys :
         /\ purged[k] <= version[k]
         /\ store[k] # Absent => store[k].body.version >= purged[k]
    /\ \A c \in Clients :
         request[c].phase = "answered" => request[c].body.version >= purged[request[c].key]

IInv == TypeOK /\ EntriesTimely /\ AnswersYoung /\ PurgedIsGone /\ HitsAreFresh

-------------------------------------------------------------------------------

LEMMA Sizes ==
    /\ MaxLatency \in Nat /\ MaxVersion \in Nat /\ MaxAge \in Nat /\ 0 \in 0 .. MaxAge
    /\ \A k \in Keys : Ttl[k] \in Nat /\ Oldest(k) \in Nat /\ Oldest(k) = Ttl[k] + MaxLatency
    /\ \A v \in Versions : v \in Nat
    /\ 0 \in Versions
BY CacheAssumption DEF CacheAssumption, Oldest, Versions

LEMMA Requested ==
    ASSUME TypeOK, NEW c \in Clients
    PROVE  /\ request[c].phase = "missed" => request[c].key \in Keys
           /\ request[c].phase = "answered" =>
                  /\ request[c] = [phase |-> "answered", key |-> request[c].key,
                                   body |-> request[c].body]
                  /\ request[c].key \in Keys /\ request[c].body \in Body
BY DEF TypeOK, Request, Idle

\* The backend's answer of this moment.
LEMMA CurrentBody ==
    ASSUME TypeOK, NEW k \in Keys, NEW ok \in BOOLEAN
    PROVE  Current(k, ok) \in Body /\ Current(k, ok).age = 0 /\ Current(k, ok).version = version[k]
BY Sizes DEF TypeOK, Current, Body

LEMMA AgedBody ==
    ASSUME NEW body \in Body
    PROVE  /\ Aged(body) \in Body
           /\ Aged(body).ok = body.ok /\ Aged(body).version = body.version
           /\ Aged(body).age <= body.age + 1
BY Sizes DEF Aged, Body

-------------------------------------------------------------------------------

LEMMA InitIInv == Init => IInv
BY Sizes DEF Init, IInv, TypeOK, EntriesTimely, AnswersYoung, PurgedIsGone, HitsAreFresh,
             Request, Idle

\* A hit serves an entry that has time left (cache.py:47-55, 199-212).
LEMMA HitKeepsIInv ==
    ASSUME IInv, NEW c \in Clients, NEW k \in Keys, Hit(c, k)
    PROVE  IInv'
<1>1. /\ store[k] \in Entry /\ store[k].left # Expired /\ store[k].body \in Body
      /\ store[k] # Absent
    BY DEF IInv, TypeOK, Hit, Fresh, Entry
<1>2. /\ served' = [by |-> "HIT", key |-> k, body |-> store[k].body]
      /\ UNCHANGED <<version, store, request, purged>>
    BY DEF Hit, AfterHit
<1>3. store[k].body.ok /\ store[k].body.age <= Oldest(k)
    <2>1. store[k].left \in Nat /\ store[k].body.age \in Nat
        BY <1>1, Sizes DEF Entry, Body
    <2> QED  BY <1>1, <2>1, Sizes DEF IInv, EntriesTimely
<1>4. TypeOK'
    BY <1>1, <1>2 DEF IInv, TypeOK
<1>5. HitsAreFresh'
    BY <1>2, <1>3 DEF HitsAreFresh, Oldest
<1> QED  BY <1>2, <1>4, <1>5 DEF IInv, EntriesTimely, AnswersYoung, PurgedIsGone

LEMMA MissKeepsIInv ==
    ASSUME IInv, NEW c \in Clients, NEW k \in Keys, Miss(c, k)
    PROVE  IInv'
<1>1. /\ store' = [store EXCEPT ![k] = Absent]
      /\ request' = [request EXCEPT ![c] = [phase |-> "missed", key |-> k]]
      /\ UNCHANGED <<version, served, purged>>
    BY DEF Miss
<1>2. TypeOK'
    BY <1>1 DEF IInv, TypeOK, Request
<1>3. \A j \in Keys : store'[j] # Absent => store'[j] = store[j]
    BY <1>1 DEF IInv, TypeOK
<1>4. \A d \in Clients : request'[d].phase = "answered" => request'[d] = request[d]
    BY <1>1 DEF IInv, TypeOK
<1> QED  BY <1>1, <1>2, <1>3, <1>4
         DEF IInv, EntriesTimely, AnswersYoung, PurgedIsGone, HitsAreFresh

LEMMA BypassKeepsIInv ==
    ASSUME IInv, NEW c \in Clients, NEW k \in Keys, Bypass(c, k)
    PROVE  IInv'
<1>1. PICK ok \in BOOLEAN : served' = [by |-> "BYPASS", key |-> k, body |-> Current(k, ok)]
    BY DEF Bypass
<1>2. TypeOK' /\ HitsAreFresh'
    BY <1>1, CurrentBody DEF IInv, TypeOK, Bypass, HitsAreFresh
<1> QED  BY <1>2 DEF Bypass, IInv, EntriesTimely, AnswersYoung, PurgedIsGone

\* An answer shows its key as it is, which is no less than it was when it was
\* invalidated.
LEMMA AnswerKeepsIInv ==
    ASSUME IInv, NEW c \in Clients, Answer(c)
    PROVE  IInv'
<1> DEFINE k == request[c].key
<1>1. k \in Keys
    BY Requested DEF IInv, Answer
<1>2. PICK ok \in BOOLEAN :
          request' = [request EXCEPT ![c] =
                        [phase |-> "answered", key |-> k, body |-> Current(k, ok)]]
    BY DEF Answer
<1> HIDE DEF k
<1>3. TypeOK'
    BY <1>1, <1>2, CurrentBody DEF IInv, TypeOK, Answer, Request
<1>4. ASSUME NEW d \in Clients, request'[d].phase = "answered"
      PROVE  request'[d].body.age <= MaxLatency /\ request'[d].body.version >= purged[request'[d].key]
    <2>1. CASE d = c
        <3>1. request'[d].key = k /\ request'[d].body = Current(k, ok)
            BY <1>2, <2>1 DEF IInv, TypeOK
        <3>2. purged[k] <= version[k] /\ purged[k] \in Nat /\ version[k] \in Nat
            BY <1>1, Sizes DEF IInv, PurgedIsGone, TypeOK
        <3> QED  BY <1>1, <3>1, <3>2, CurrentBody, Sizes DEF IInv
    <2>2. CASE d # c
        <3>1. request'[d] = request[d]
            BY <1>2, <2>2 DEF IInv, TypeOK
        <3> QED  BY <1>4, <3>1 DEF IInv, AnswersYoung, PurgedIsGone
    <2> QED  BY <2>1, <2>2
<1>5. UNCHANGED <<version, store, served, purged>>
    BY DEF Answer
<1> QED  BY <1>3, <1>4, <1>5
         DEF IInv, EntriesTimely, AnswersYoung, PurgedIsGone, HitsAreFresh

\* A new entry has all its TTL, and its answer is at most as old as it took.
LEMMA FinishKeepsIInv ==
    ASSUME IInv, NEW c \in Clients, Finish(c)
    PROVE  IInv'
<1> DEFINE k == request[c].key
           body == request[c].body
           entry == [body |-> body, left |-> Ttl[k]]
<1>1. /\ k \in Keys /\ body \in Body /\ request[c].phase = "answered"
      /\ body.age <= MaxLatency /\ body.version >= purged[k]
    BY Requested DEF IInv, Finish, AnswersYoung, PurgedIsGone
<1>2. /\ store' = IF body.ok THEN [store EXCEPT ![k] = entry] ELSE store
      /\ served' = [by |-> "MISS", key |-> k, body |-> body]
      /\ request' = [request EXCEPT ![c] = Idle]
      /\ UNCHANGED <<version, purged>>
    BY DEF Finish, Cacheable
<1>3. entry \in Entry /\ entry.body = body /\ entry.left = Ttl[k]
    BY <1>1, Sizes DEF Entry
<1> HIDE DEF k, body, entry
<1>4. ASSUME NEW j \in Keys, store'[j] # store[j]
      PROVE  j = k /\ store'[j] = entry /\ body.ok
    BY <1>2, <1>4 DEF IInv, TypeOK
<1>5. TypeOK'
    <2>1. store' \in [Keys -> Entry \cup {Absent}]
        BY <1>2, <1>3 DEF IInv, TypeOK
    <2>2. request' \in [Clients -> Request]
        BY <1>2 DEF IInv, TypeOK, Request
    <2>3. ASSUME NEW j \in Keys, store'[j] # Absent  PROVE store'[j].left <= Ttl[j]
        BY <1>3, <1>4, <2>3, Sizes DEF IInv, TypeOK
    <2> QED  BY <1>1, <1>2, <2>1, <2>2, <2>3 DEF IInv, TypeOK
<1>6. EntriesTimely'
    <2>1. ASSUME NEW j \in Keys, store'[j] # store[j]
          PROVE  store'[j].body.ok /\ store'[j].body.age + store'[j].left <= Oldest(j)
        <3>1. body.age \in Nat /\ body.age <= MaxLatency
            BY <1>1, Sizes DEF Body
        <3> QED  BY <1>1, <1>3, <1>4, <2>1, <3>1, Sizes
    <2> QED  BY <2>1 DEF IInv, EntriesTimely, Oldest
<1>7. \A d \in Clients : request'[d].phase = "answered" => request'[d] = request[d]
    BY <1>2 DEF IInv, TypeOK, Idle
<1>8. PurgedIsGone'
    <2>1. ASSUME NEW j \in Keys, store'[j] # store[j]  PROVE store'[j].body.version >= purged[j]
        BY <1>1, <1>3, <1>4, <2>1
    <2> QED  BY <1>2, <1>7, <2>1 DEF IInv, PurgedIsGone
<1> QED  BY <1>2, <1>5, <1>6, <1>7, <1>8 DEF IInv, AnswersYoung, HitsAreFresh

LEMMA WriteKeepsIInv ==
    ASSUME IInv, NEW k \in Keys, Write(k)
    PROVE  IInv'
<1>1. version' = [version EXCEPT ![k] = version[k] + 1] /\ UNCHANGED <<store, request, served, purged>>
    BY DEF Write
<1>2. version[k] + 1 \in Versions
    BY Sizes DEF IInv, TypeOK, Write, Versions
<1>3. TypeOK'
    BY <1>1, <1>2 DEF IInv, TypeOK
<1>4. ASSUME NEW j \in Keys  PROVE purged[j] <= version'[j]
    <2>1. purged[j] \in Nat /\ version[j] \in Nat /\ purged[j] <= version[j]
        BY Sizes DEF IInv, TypeOK, PurgedIsGone
    <2> QED  BY <1>1, <2>1 DEF IInv, TypeOK
<1> QED  BY <1>1, <1>3, <1>4
         DEF IInv, EntriesTimely, AnswersYoung, PurgedIsGone, HitsAreFresh

\* What an invalidation leaves is younger than it, unless an answer is on its way
\* (admin/routes.py:122-134).
LEMMA InvalidateKeepsIInv ==
    ASSUME IInv, NEW keys \in SUBSET Keys, Invalidate(keys)
    PROVE  IInv'
<1>1. /\ store' = [k \in Keys |-> IF k \in keys THEN Absent ELSE store[k]]
      /\ purged' = [k \in Keys |-> IF k \in keys /\ ~OnItsWay(k) THEN version[k] ELSE purged[k]]
      /\ UNCHANGED <<version, request, served>>
    BY DEF Invalidate, Cleared
<1>2. TypeOK'
    BY <1>1 DEF IInv, TypeOK
<1>3. EntriesTimely'
    BY <1>1 DEF IInv, EntriesTimely
<1>4. ASSUME NEW k \in Keys
      PROVE  /\ purged'[k] <= version[k]
             /\ store'[k] # Absent => store'[k].body.version >= purged'[k]
    <2>1. version[k] \in Nat /\ purged[k] <= version[k]
        BY Sizes DEF IInv, TypeOK, PurgedIsGone
    <2> QED  BY <1>1, <2>1 DEF IInv, PurgedIsGone
<1>5. ASSUME NEW c \in Clients, request[c].phase = "answered"
      PROVE  request[c].body.version >= purged'[request[c].key]
    <2>1. OnItsWay(request[c].key) /\ request[c].key \in Keys
        BY <1>5, Requested DEF OnItsWay, IInv
    <2> QED  BY <1>1, <1>5, <2>1 DEF IInv, PurgedIsGone
<1> QED  BY <1>1, <1>2, <1>3, <1>4, <1>5 DEF IInv, AnswersYoung, PurgedIsGone, HitsAreFresh

\* A tick takes from the time left what it adds to the age.
LEMMA TickKeepsIInv == IInv /\ Tick => IInv'
<1> SUFFICES ASSUME IInv, Tick  PROVE IInv'
    OBVIOUS
<1>1. UNCHANGED <<version, served, purged>>
    BY DEF Tick
<1>2. ASSUME NEW k \in Keys, store'[k] # Absent
      PROVE  /\ store[k] # Absent /\ store'[k] \in Entry /\ store'[k].left <= Ttl[k]
             /\ store'[k].body.version = store[k].body.version
             /\ store'[k].body.ok = store[k].body.ok
             /\ store'[k].left # Expired =>
                    /\ store[k].left # Expired
                    /\ store'[k].body.age + store'[k].left <= store[k].body.age + store[k].left
    <2>1. /\ store[k] # Absent
          /\ store'[k] = [body |-> Aged(store[k].body),
                          left |-> IF store[k].left = Expired THEN Expired
                                   ELSE store[k].left - 1]
        BY <1>2 DEF Tick
    <2>2. store[k].body \in Body /\ store[k].left \in Nat \cup {-1} /\ store[k].left <= Ttl[k]
        BY <2>1 DEF IInv, TypeOK, Entry, Expired
    <2>3. /\ Aged(store[k].body) \in Body /\ Aged(store[k].body).ok = store[k].body.ok
          /\ Aged(store[k].body).version = store[k].body.version
          /\ Aged(store[k].body).age <= store[k].body.age + 1
          /\ Aged(store[k].body).age \in Nat /\ store[k].body.age \in Nat
        BY <2>2, AgedBody, Sizes DEF Body
    <2> QED  BY <2>1, <2>2, <2>3, Sizes DEF Entry, Expired
<1>3. ASSUME NEW c \in Clients
      PROVE  /\ request'[c] \in Request /\ request'[c].phase = request[c].phase
             /\ request[c].phase = "answered" =>
                    /\ request'[c].key = request[c].key
                    /\ request'[c].body.version = request[c].body.version
                    /\ request'[c].body.age <= MaxLatency
    <2>1. CASE request[c].phase = "answered"
        <3>1. /\ request'[c] = [request[c] EXCEPT !.body = Aged(request[c].body)]
              /\ request[c].body.age < MaxLatency
            BY <2>1 DEF Tick
        <3>2. request'[c] = [phase |-> "answered", key |-> request[c].key,
                             body |-> Aged(request[c].body)]
            BY <2>1, <3>1, Requested DEF IInv
        <3>3. request[c].body \in Body /\ request[c].key \in Keys
            BY <2>1, Requested DEF IInv
        <3>4. request[c].body.age \in Nat /\ Aged(request[c].body).age \in Nat
            BY <3>3, AgedBody, Sizes DEF Body
        <3> QED  BY <2>1, <3>1, <3>2, <3>3, <3>4, AgedBody, Sizes DEF Request
    <2>2. CASE request[c].phase # "answered"
        BY <2>2 DEF Tick, IInv, TypeOK
    <2> QED  BY <2>1, <2>2
<1>4. TypeOK'
    <2>1. store' \in [Keys -> Entry \cup {Absent}]
        BY <1>2 DEF Tick
    <2>2. request' \in [Clients -> Request]
        BY <1>3 DEF Tick
    <2> QED  BY <1>1, <1>2, <2>1, <2>2 DEF IInv, TypeOK
<1>5. EntriesTimely'
    <2>1. ASSUME NEW k \in Keys, store'[k] # Absent, store'[k].left # Expired
          PROVE  store'[k].body.age + store'[k].left <= Oldest(k)
        <3>1. /\ store[k].body.age + store[k].left <= Oldest(k)
              /\ store'[k].body.age + store'[k].left <= store[k].body.age + store[k].left
            BY <1>2, <2>1 DEF IInv, EntriesTimely
        <3>2. /\ store[k] \in Entry /\ store'[k] \in Entry /\ store[k].left # Expired
            BY <1>2, <2>1 DEF IInv, TypeOK
        <3>3. /\ store[k].body.age \in Nat /\ store[k].left \in Nat
              /\ store'[k].body.age \in Nat /\ store'[k].left \in Nat
            BY <2>1, <3>2, Sizes DEF Entry, Body
        <3> QED  BY <3>1, <3>3, Sizes
    <2> QED  BY <1>2, <2>1 DEF IInv, EntriesTimely, Oldest
<1>6. AnswersYoung'
    BY <1>3 DEF AnswersYoung
<1>7. PurgedIsGone'
    BY <1>1, <1>2, <1>3 DEF IInv, PurgedIsGone
<1> QED  BY <1>1, <1>4, <1>5, <1>6, <1>7 DEF IInv, HitsAreFresh

LEMMA NextKeepsIInv == IInv /\ [Next]_vars => IInv'
<1>1. IInv /\ UNCHANGED vars => IInv'
    BY DEF vars, IInv, TypeOK, EntriesTimely, AnswersYoung, PurgedIsGone, HitsAreFresh
<1> QED
    BY <1>1, HitKeepsIInv, MissKeepsIInv, BypassKeepsIInv, AnswerKeepsIInv, FinishKeepsIInv,
       WriteKeepsIInv, InvalidateKeepsIInv, TickKeepsIInv
    DEF Next

LEMMA IInvAlways == Spec => []IInv
BY InitIInv, NextKeepsIInv, PTL DEF Spec

-------------------------------------------------------------------------------

\* Entries, answers and what was served have their types, and no entry has more
\* time left than its TTL.
THEOREM TypeCorrect == Spec => []TypeOK
<1>1. IInv => TypeOK
    BY DEF IInv
<1> QED  BY <1>1, IInvAlways, PTL

\* In whatever order concurrent misses fill an entry, a hit is a success no older
\* than the TTL and the latency of a response (cache.py:144).
THEOREM HitsFresh == Spec => []HitsAreFresh
<1>1. IInv => HitsAreFresh
    BY DEF IInv
<1> QED  BY <1>1, IInvAlways, PTL

\* No hit shows a version older than the one at an invalidation that found no
\* answer on its way (admin/routes.py:122-134).
THEOREM InvalidatedGone == Spec => InvalidatedStaysGone
<1>1. IInv => \A c \in Clients, k \in Keys : Hit(c, k) => store[k].body.version >= purged[k]
    BY DEF IInv, PurgedIsGone, Hit, Fresh
<1>2. IInv /\ [Next]_vars =>
          [\A c \in Clients, k \in Keys :
               Hit(c, k) => store[k].body.version >= purged[k]]_vars
    BY <1>1
<1> QED  BY <1>2, IInvAlways, PTL DEF Spec, InvalidatedStaysGone
===============================================================================
