---------------------------- MODULE ResponseCache -----------------------------
(***************************************************************************)
(* CacheMiddleware over InMemoryCache (middleware/cache.py), which is the  *)
(* cache the gateway runs with: nothing in src/ calls set_cache.  A miss   *)
(* awaits the backend between cache.get and cache.set; meanwhile other     *)
(* requests, writes to the backend and DELETE /gateway/admin/cache run.    *)
(*                                                                         *)
(* A body stands for the backend's answer: whether it is a 2xx, and which  *)
(* version of the resource it shows.  Its age is history: the ticks since  *)
(* the backend gave it.                                                    *)
(***************************************************************************)
EXTENDS Integers

CONSTANTS Keys,         \* cache keys: method, path and sorted query
          Clients,      \* requests at a time
          Ttl,          \* the TTL of a key's route; zero: not cached
          MaxLatency,   \* ticks a response takes from the backend to the cache
          MaxVersion,   \* how often a resource changes in the model
          MaxAge,       \* where the model stops counting the age of an answer
          Absent        \* no entry

\* How old an answer may be when it is served.
Oldest(k) == Ttl[k] + MaxLatency

ASSUME CacheAssumption ==
    /\ Ttl \in [Keys -> Nat] /\ MaxLatency \in Nat /\ MaxVersion \in Nat
    /\ MaxAge \in Nat /\ \A k \in Keys : MaxAge > Oldest(k)

VARIABLES
    version,   \* the backend's: what it shows for a key
    store,     \* _store: the entry of a key, and how long it has left
    request,   \* what each client's GET is doing
    served,    \* the last answer that went out
    purged     \* history: the version a key had when it was last invalidated
               \* with no answer for it on its way to the cache

vars == <<version, store, request, served, purged>>

Versions == 0 .. MaxVersion

Body == [ok : BOOLEAN, version : Versions, age : 0 .. MaxAge]

Expired == -1

Entry == [body : Body, left : Nat \cup {Expired}]

Idle == [phase |-> "idle"]

Request ==
    {Idle} \cup [phase : {"missed"}, key : Keys]
           \cup [phase : {"answered"}, key : Keys, body : Body]

TypeOK ==
    /\ version \in [Keys -> Versions]
    /\ store \in [Keys -> Entry \cup {Absent}]
    /\ \A k \in Keys : store[k] # Absent => store[k].left <= Ttl[k]
    /\ request \in [Clients -> Request]
    /\ served \in [by : {"HIT", "MISS", "BYPASS"}, key : Keys, body : Body] \cup {Absent}
    /\ purged \in [Keys -> Versions]

Init ==
    /\ version = [k \in Keys |-> 0]
    /\ store = [k \in Keys |-> Absent]
    /\ request = [c \in Clients |-> Idle]
    /\ served = Absent
    /\ purged = [k \in Keys |-> 0]

Current(k, ok) == [ok |-> ok, version |-> version[k], age |-> 0]

\* get: an entry is good until, and at, expires_at.
Fresh(k) == store[k] # Absent /\ store[k].left # Expired

\* Mutant: a hit starts the TTL again.
AfterHitRenewed(k) == [store EXCEPT ![k].left = Ttl[k]]

\* Mutant: a hit adds the TTL to what is left of it.
AfterHitExtended(k) == [store EXCEPT ![k].left = @ + Ttl[k]]

AfterHit(k) == store

Hit(c, k) ==
    /\ request[c] = Idle /\ Ttl[k] > 0 /\ Fresh(k)
    /\ served' = [by |-> "HIT", key |-> k, body |-> store[k].body]
    /\ store' = AfterHit(k)
    /\ UNCHANGED <<version, request, purged>>

\* An expired entry is dropped when somebody asks for it.
Miss(c, k) ==
    /\ request[c] = Idle /\ Ttl[k] > 0 /\ ~Fresh(k)
    /\ store' = [store EXCEPT ![k] = Absent]
    /\ request' = [request EXCEPT ![c] = [phase |-> "missed", key |-> k]]
    /\ UNCHANGED <<version, served, purged>>

\* Cache-Control: no-cache, or a route without TTL: past the cache both ways.
Bypass(c, k) ==
    /\ request[c] = Idle
    /\ \E ok \in BOOLEAN : served' = [by |-> "BYPASS", key |-> k, body |-> Current(k, ok)]
    /\ UNCHANGED <<version, store, request, purged>>

\* The backend, or the gateway for it, answers a miss.
Answer(c) ==
    /\ request[c].phase = "missed"
    /\ \E ok \in BOOLEAN :
         LET k == request[c].key
         IN  request' = [request EXCEPT ![c] =
                           [phase |-> "answered", key |-> k, body |-> Current(k, ok)]]
    /\ UNCHANGED <<version, store, served, purged>>

\* Mutant: errors are cached, too.
CachesErrors(body) == TRUE

Cacheable(body) == body.ok

\* The body has been read: set, if it is a 2xx, and pass it on.
Finish(c) ==
    /\ request[c].phase = "answered"
    /\ LET k == request[c].key
           body == request[c].body
       IN  /\ store' = IF Cacheable(body)
                       THEN [store EXCEPT ![k] = [body |-> body, left |-> Ttl[k]]]
                       ELSE store
           /\ served' = [by |-> "MISS", key |-> k, body |-> body]
    /\ request' = [request EXCEPT ![c] = Idle]
    /\ UNCHANGED <<version, purged>>

\* A POST, PUT or DELETE passes through, or the resource changes by itself.
Write(k) ==
    /\ version[k] < MaxVersion
    /\ version' = [version EXCEPT ![k] = @ + 1]
    /\ UNCHANGED <<store, request, served, purged>>

OnItsWay(k) == \E c \in Clients : request[c].phase = "answered" /\ request[c].key = k

\* Mutant: only what has expired is removed.
ClearedExpired(keys) == [k \in Keys |-> IF k \in keys /\ ~Fresh(k) THEN Absent ELSE store[k]]

\* clear_prefix, for the keys under the prefix.
Cleared(keys) == [k \in Keys |-> IF k \in keys THEN Absent ELSE store[k]]

\* invalidate_cache, of the admin API.
Invalidate(keys) ==
    /\ store' = Cleared(keys)
    /\ purged' = [k \in Keys |-> IF k \in keys /\ ~OnItsWay(k) THEN version[k] ELSE purged[k]]
    /\ UNCHANGED <<version, request, served>>

Aged(body) == [body EXCEPT !.age = IF @ < MaxAge THEN @ + 1 ELSE @]

Tick ==
    /\ \A c \in Clients : request[c].phase = "answered" => request[c].body.age < MaxLatency
    /\ store' = [k \in Keys |->
                   IF store[k] = Absent THEN Absent
                   ELSE [body |-> Aged(store[k].body),
                         left |-> IF store[k].left = Expired THEN Expired
                                  ELSE store[k].left - 1]]
    /\ request' = [c \in Clients |->
                     IF request[c].phase = "answered"
                     THEN [request[c] EXCEPT !.body = Aged(@)]
                     ELSE request[c]]
    /\ UNCHANGED <<version, served, purged>>

Next ==
    \/ \E c \in Clients : Answer(c) \/ Finish(c)
    \/ \E c \in Clients, k \in Keys : Hit(c, k) \/ Miss(c, k) \/ Bypass(c, k)
    \/ \E k \in Keys : Write(k)
    \/ \E keys \in SUBSET Keys : Invalidate(keys)
    \/ Tick

Spec == Init /\ [][Next]_vars

\* Time passes and what was started ends; that anybody asks, writes or
\* invalidates is not assumed.
FairSpec ==
    /\ Spec /\ WF_vars(Tick)
    /\ \A c \in Clients : WF_vars(Answer(c)) /\ WF_vars(Finish(c))

-------------------------------------------------------------------------------

\* "Cache user listings for 30s" (cache.py:144): what a hit serves is a success,
\* and what the backend answered no longer ago than the TTL and the time a
\* response takes to arrive, in whatever order concurrent misses fill the entry.
HitsAreFresh ==
    served # Absent /\ served.by = "HIT" =>
        served.body.ok /\ served.body.age <= Oldest(served.key)

\* A resource that changes no more is in the end served as it is, although
\* nothing tells the cache of a write and a slow miss may store an old version.
CatchesUp ==
    \A k \in Keys : \A v \in Versions :
        <>[](version[k] = v) => <>[](Fresh(k) => store[k].body.version = v)

\* "Invalidate cached responses" (admin/routes.py:124): no hit shows a version
\* older than the one at an invalidation of its key.  The exception is an
\* invalidation that finds an answer on its way to the cache: that answer is
\* stored afterwards, and stays for its TTL.
InvalidatedStaysGone ==
    [][\A c \in Clients, k \in Keys :
         Hit(c, k) => store[k].body.version >= purged[k]]_vars
===============================================================================
