--------------------------- MODULE RedisTokenBucket ---------------------------
(***************************************************************************)
(* RedisTokenBucket (middleware/rate_limit.py): several gateways share one *)
(* client's bucket in Redis.  The Lua script is atomic, but `now` is the   *)
(* clock of the gateway that runs it, and the key expires.  A gateway that *)
(* starts while Redis is down has a bucket of its own, for good.           *)
(*                                                                         *)
(* Redis is deployed without an append-only file (docker-compose.yml): it  *)
(* saves a snapshot now and then and when it is told to stop, and comes    *)
(* back from a crash with the last one.                                    *)
(*                                                                         *)
(* Gateways' clocks run at one speed and are apart by up to Skew; Redis    *)
(* counts the time to live by its own clock, here the true time.           *)
(***************************************************************************)
EXTENDS BucketOps

CONSTANTS Gateways,
          Skew,          \* how far ahead of the true time a gateway's clock may be
          TimeToLive,    \* the EXPIRE of the key, in ticks
          MaxLosses      \* crashes of Redis that lose what it has not saved

\* ttl = max(120, ceil(capacity / rate * 2)): at least twice the time to fill.
ASSUME RedisAssumption ==
    /\ Skew \in Nat
    /\ TimeToLive \in Nat \ {0} /\ TimeToLive * Rate >= 2 * Capacity
    /\ MaxLosses \in Nat

\* The clocks are apart by no more than the key outlives the filling of the bucket;
\* without that a bucket that has expired may be one that was still to fill.
ASSUME SkewAssumption == Capacity + Rate * Skew <= TimeToLive * Rate

VARIABLES
    real,      \* the true time
    offset,    \* how far each gateway's clock is ahead of it
    stored,    \* the hash at the client's key
    expires,   \* when Redis drops it
    saved,     \* both of them in the last snapshot of Redis
    backend,   \* each gateway's _backend, made when its process starts
    local,     \* the bucket of a gateway that has one of its own
    redis,     \* what Redis is: "up" or "down"
    cached,    \* the script is in the script cache of Redis
    sha,       \* the gateways whose _script_sha is set
    failing,   \* the gateways whose last request ended in an error
    since_shared,   \* history: since_shared[s] requests were admitted from the
    since_local,    \* shared bucket from true time s on, and from a gateway's own,
    losses          \* and losses[s] crashes lost what was not saved

server == <<redis, cached, sha>>
shared == <<stored, expires>>
history == <<since_shared, since_local>>
redisVars == <<real, offset, shared, saved, backend, local, server, failing, history, losses>>

Snapshot == [stored |-> stored, expires |-> expires]

SkewedBucket == [tokens : 0 .. Capacity, last_refill : 0 .. MaxTime + Skew]

RedisTypeOK ==
    /\ real \in Times
    /\ offset \in [Gateways -> 0 .. Skew]
    /\ stored \in SkewedBucket \cup {Absent}
    /\ backend \in [Gateways -> {"none", "redis", "memory"}]
    /\ local \in [Gateways -> SkewedBucket \cup {Absent}]
    /\ expires \in 0 .. MaxTime + TimeToLive
    /\ redis \in {"up", "down"} /\ cached \in BOOLEAN /\ sha \subseteq Gateways
    /\ failing \subseteq Gateways
    /\ saved \in [stored : SkewedBucket \cup {Absent}, expires : 0 .. MaxTime + TimeToLive]
    /\ since_shared \in [Times -> Nat] /\ losses \in [Times -> Nat]
    /\ since_local \in [Gateways -> [Times -> Nat]]

RedisInit ==
    /\ real = 0
    /\ offset \in [Gateways -> 0 .. Skew]
    /\ stored = Absent /\ expires = 0 /\ saved = Snapshot
    /\ backend = [g \in Gateways |-> "none"]
    /\ local = [g \in Gateways |-> Absent]
    /\ redis = "up" /\ cached = FALSE /\ sha = {}
    /\ failing = {}
    /\ since_shared = [s \in Times |-> 0] /\ losses = [s \in Times |-> 0]
    /\ since_local = [g \in Gateways |-> [s \in Times |-> 0]]

Clock(g) == real + offset[g]

\* Mutant: the key lives no longer than the bucket takes to fill halfway.
LivesHalf == real + (Capacity \div (2 * Rate))

Lives == real + TimeToLive

\* _create_backend: once, when the module is imported.
CreateBackend(g) ==
    /\ backend[g] = "none"
    /\ backend' = [backend EXCEPT ![g] = IF redis = "up" THEN "redis" ELSE "memory"]
    /\ UNCHANGED <<real, offset, shared, saved, local, server, failing, history, losses>>

\* What was admitted from bucket b, after an answer to gateway g.
Admitted(count, b, g) ==
    IF Answer(b, Clock(g)) = "allowed" THEN OneMore(count, real) ELSE count

ConsumeLocal(g) ==
    /\ backend[g] = "memory"
    /\ local' = [local EXCEPT ![g] = Consumed(@, Clock(g))]
    /\ since_local' = [since_local EXCEPT ![g] = Admitted(@, local[g], g)]
    /\ failing' = failing \ {g}
    /\ UNCHANGED <<real, offset, shared, saved, backend, server, since_shared, losses>>

\* consume: _ensure_script, then EVALSHA, which runs the script.
ConsumeShared(g) ==
    /\ backend[g] = "redis" /\ redis = "up"
    /\ g \in sha => cached
    /\ sha' = sha \cup {g} /\ cached' = TRUE
    /\ stored' = Consumed(stored, Clock(g)) /\ expires' = Lives
    /\ since_shared' = Admitted(since_shared, stored, g)
    /\ failing' = failing \ {g}
    /\ UNCHANGED <<real, offset, saved, backend, local, redis, since_local, losses>>

\* Redis does not answer: consume raises, and the request ends in a 500.
ConsumeWithoutRedis(g) ==
    /\ backend[g] = "redis" /\ redis = "down"
    /\ failing' = failing \cup {g}
    /\ UNCHANGED <<real, offset, shared, saved, backend, local, server, history, losses>>

\* NOSCRIPT: the gateway goes by the hash of a script that Redis has forgotten.
ConsumeWithoutScript(g) ==
    /\ redis = "up" /\ g \in sha /\ ~cached
    /\ failing' = failing \cup {g}
    /\ UNCHANGED <<real, offset, shared, saved, backend, local, server, history, losses>>

Expire ==
    /\ stored # Absent /\ real >= expires
    /\ stored' = Absent
    /\ UNCHANGED <<real, offset, expires, saved, backend, local, server, failing, history, losses>>

RealTick ==
    /\ real < MaxTime
    /\ real' = real + 1
    /\ UNCHANGED <<offset, shared, saved, backend, local, server, failing, history, losses>>

Save ==
    /\ redis = "up"
    /\ saved' = Snapshot
    /\ UNCHANGED <<real, offset, shared, backend, local, server, failing, history, losses>>

\* No script cache outlives the server.
GoesDown == redis = "up" /\ redis' = "down" /\ cached' = FALSE

\* Redis is told to stop: it saves the data first.
Shutdown ==
    /\ GoesDown /\ saved' = Snapshot
    /\ UNCHANGED <<real, offset, shared, backend, local, sha, failing, history, losses>>

\* The data that Redis has after a crash.
Recovered ==
    /\ stored' = saved.stored /\ expires' = saved.expires /\ saved' = saved
    /\ \/ saved = Snapshot /\ losses' = losses
       \/ saved # Snapshot /\ losses[0] < MaxLosses /\ losses' = OneMore(losses, real)

Crash ==
    /\ GoesDown /\ Recovered
    /\ UNCHANGED <<real, offset, backend, local, sha, failing, history>>

\* Redis goes down in the middle of a consume, either way: the script is loaded, and
\* may have run, but its reply is lost.
Interrupted(g) ==
    /\ backend[g] = "redis" /\ GoesDown
    /\ sha' = sha \cup {g} /\ failing' = failing \cup {g}
    /\ \/ Recovered
       \/ /\ \/ UNCHANGED shared
             \/ /\ g \in sha => cached
                /\ stored' = Consumed(stored, Clock(g)) /\ expires' = Lives
          /\ saved' = Snapshot' /\ losses' = losses
    /\ UNCHANGED <<real, offset, backend, local, history>>

Restart ==
    /\ redis = "down"
    /\ redis' = "up"
    /\ UNCHANGED <<real, offset, shared, saved, backend, local, cached, sha, failing, history, losses>>

AnyConsume(g) ==
    ConsumeLocal(g) \/ ConsumeShared(g) \/ ConsumeWithoutRedis(g) \/ ConsumeWithoutScript(g)

RedisNext ==
    \/ \E g \in Gateways : CreateBackend(g) \/ AnyConsume(g) \/ Interrupted(g)
    \/ Expire \/ RealTick \/ Save \/ Shutdown \/ Crash \/ Restart

RedisSpec == RedisInit /\ [][RedisNext]_redisVars

\* Redis is restarted when it is down, and every gateway keeps getting requests.
RedisFairSpec ==
    /\ RedisSpec
    /\ WF_redisVars(Restart)
    /\ \A g \in Gateways : WF_redisVars(AnyConsume(g))

-------------------------------------------------------------------------------

\* "Race-free across multiple gateway instances" (rate_limit.py:51-53): however
\* the gateways' requests interleave, and although the key expires and their
\* clocks differ, the shared bucket admits no more than capacity and refill pay
\* for, but for the refill of the time the clocks are apart.  The exception is a
\* crash that loses what Redis has not saved: it grants that much anew, once each.
\* The bucket of a gateway that fell back to memory ("NOT be shared",
\* rate_limit.py:388) goes by one clock and admits no more than they pay for.
RateHonouredUpToSkew ==
    \A s \in 0 .. real :
        /\ Cost * since_shared[s]
               <= (1 + losses[s]) * (Capacity + Rate * Skew) + Rate * (real - s)
        /\ \A g \in Gateways :
               Cost * since_local[g][s] <= Capacity + Rate * (real - s)

\* "An automatic fallback when Redis is unavailable" (rate_limit.py:49-50): a
\* Redis that stays up in the end is used again, by every gateway.
ErrorsEnd ==
    <>[](redis = "up") => <>[](failing = {})
===============================================================================
