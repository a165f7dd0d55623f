# A verification project for the API gateway

TLA+ models of the gateway's stateful parts, TLC runs on small instances, and TLAPS
proofs for every value of the constants. Paths are relative to the repository; line
numbers are those of the commit this directory belongs to. `PROJECT.json` lists the
components, the runs, the code each definition stands for (`map`), the hazards, the
theorems, the disagreements found (`findings`) and, for every property, a plausible bug
that violates it (`mutants`).

## 1. The system

One Python process on one asyncio event loop, with two daemon threads.

    client
      -> request ID -> logging -> authentication -> cache -> rate limit -> LLM gateway
      -> proxy handler: route table, load balancer, circuit breaker
      -> reverse proxy (httpx) -> backend

    thread 1: RouteFileWatcher polls routes.json  ->  RouteTable
    thread 2: LoadBalancer health loop            ->  LoadBalancer._backends

The order of the middlewares is that of `gateway/main.py:78-83` read from the bottom up.
The cache is thus asked before the rate limiter: a hit costs no token. Each middleware runs
up to its `call_next`, waits for the stages inside it, and goes on with their response or
their exception.

| Part | State | Operations | What is hard |
|---|---|---|---|
| Circuit breaker `circuit_breaker/cb.py` | per service: state, consecutive failures, time of opening, probe slots taken | `can_execute`, `record_success`, `record_failure`, `state`, `reset` | results arrive long after the admission, in any order and in any state |
| Load balancer `loadbalancer/lb.py` | per service: list of backends with health, strikes and connections; round-robin counter; health thread, stop event | `register`, `deregister`, `select`, `mark_request_start`/`end`, `start`/`stop_health_checks` | the health thread probes without the lock and applies its verdicts later; stop's join may time out |
| Route table, file watcher `routing/router.py` | table, last mtime | `load_from_list`, `resolve`, the polling loop | the file is edited while it is read |
| Proxy handler `main.py`, `proxy/reverse_proxy.py` | the connections of the shared HTTP client; uses all of the above | `proxy`, `forward_request` | a request holds a probe slot and is counted over several waits and may end in many ways |
| Rate limiter `middleware/rate_limit.py` | a bucket per client, in memory or in Redis | `consume`, 429 with Retry-After | refill on demand; clocks of several gateways; expiry; a Redis that restarts |
| Response cache `middleware/cache.py` | entries with an expiry | hit, miss, fill, `clear_prefix` | misses of one key overlap with each other, with writes and with invalidations |
| LLM gateway `llm/llm_gateway.py` | tokens used per client | model routing, quota check, recording | the check comes before the request, the charge after it |
| Authentication `middleware/auth.py`, admin API `admin/routes.py` | registry of API keys | authentication of a request; creation and deletion of keys; cache invalidation | keys and entries change while requests that have passed the check are under way |
| Request ID, logging `middleware/request_id.py`, `logging_tracing/logger.py` | gauge of requests in flight | one pass per request, in and out | inner stages answer early or raise |
| Startup and shutdown `main.py:95-125` | the watcher, the health thread, the shared HTTP client | `on_startup`, `on_shutdown` | joins that time out; globals that outlive a shutdown |

**How they interact.** Between the lookup of a route and the first `await` of
`forward_request` a handler runs without a pause, so lookup, registration, selection,
`can_execute` and `mark_request_start` are one step with respect to other handlers. The
next awaits (the client's body, then a connection and the backend's answer) are where
other handlers, the two threads and the clock come in. What follows, up to the `finally`
block, is one step again. The two threads share only what they change under a lock
(`LoadBalancer._lock`, `RouteTable._lock`).

**What makes each part correct.** For the breaker: probe slots are neither lost nor
invented, an outage lets few requests through, a recovered backend gets its traffic back.
For the balancer: the connection counters are true, the rotation follows the probes,
round-robin is fair. For the routes: the longest prefix wins, edits are picked up and bad
files change nothing. For the proxy: each way to end a request gives back what it holds,
and a breaker opens for nothing but failures of its own service's requests. For the
limiter: the rate holds in every interval and Retry-After is enough. For the cache: no hit
older than promised. For the quota: the overshoot is bounded. For the middlewares: each
request is counted once, and a response carries nobody else's identity. For the lifecycle:
what is started is stopped.

## 2. The modules

| Module | What it is |
|---|---|
| `BreakerOps` | the breaker as a record, one operator per method (all run under its lock) |
| `BreakerContract` | abstract: the three-state machine of `CircuitState`'s docstring, the cool-down, the probes of a round |
| `CircuitBreaker` | a breaker and the requests that share it; refines `BreakerContract` |
| `CircuitBreakerProofs` | TLAPS proofs about `CircuitBreaker` |
| `BalancerOps` | the backend list of a service, one operator per locked section |
| `BalancerOpsProofs` | lemmas about those operators, for the two modules that use them |
| `LoadBalancer`, `LoadBalancerProofs` | handlers and health threads over that list, and proofs about them |
| `RouterOps`, `RouteTable` | sorting and lookup; the table checked against "longest matching prefix" |
| `RouteWatcher` | the polling thread against an editor of the file |
| `Routing` | the two composed: the watcher's reloads load the table |
| `Gateway`, `GatewayProofs` | the proxy handler, composed of `BreakerOps`, `BalancerOps` and `RouterOps`; proofs about its breakers, each of which implements `BreakerContract`, and its connection counters |
| `BucketOps` | a token bucket as a record, for both backends of the limiter |
| `FluidBucket` | abstract: a bucket that fills all the time |
| `TokenBucket` | the in-memory limiter of one client; refines `FluidBucket` |
| `RedisTokenBucket` | several gateways, one Redis |
| `ResponseCache`, `ResponseCacheProofs` | the cache middleware, and proofs about it |
| `TokenQuota` | the LLM middleware's quota |
| `RateLimitProofs` | TLAPS proofs about `TokenBucket`, `RedisTokenBucket` and `TokenQuota` |
| `Pipeline`, `PipelineProofs` | the seven stages of a request, the admin API among its handlers, and proofs about them |
| `Lifecycle` | the hooks, the threads and the client they start and stop |
| `LifecycleProofs` | TLAPS proofs about `Lifecycle` and what belongs to the watcher thread it starts: `RouteWatcher` and `RouteTable` |
| `MC*` | sets, functions and symmetries for TLC |

The `*Ops` modules have no variables. They are what the single-component modules and
`Gateway` share, so that the component and the composition cannot drift apart. Where one proof
module covers several components, all but the first have names of their own
(`WatcherInit`, `TableSpec`, `RedisNext`, `QuotaTypeOK`), so that they can be extended
together. Operators
marked `Mutant:` are never used by a specification: each is a bug that the definition
below it might have had.

### How state and actions correspond to the code

- **`CircuitBreaker`**: `cb` is the object's fields. `elapsed` is
  `time.time() - _opened_at`, cut off at the recovery timeout, which is all the code
  compares it with; `consecutive_failures` is cut off at the threshold. `Admit`/`Reject`
  are the two outcomes of `can_execute`, with the promotion to half-open inside;
  `RecordSuccess`/`RecordFailure` are the results, `ReadState` is the property with its
  side effect, `Reset` the manual reset. `call` remembers how each request was admitted
  and in which round; it and `herd` only serve the properties.
- **`LoadBalancer`**: `backends` is `_backends[service]`, in order of registration.
  `DispatchRoundRobin`/`DispatchLeastConnections` are `select` and `mark_request_start`
  together, `End` is `mark_request_end`. `Snapshot`, `Probe` (one per backend) and `Apply`
  are the phases of `_run_health_checks`; `StopHealthChecks` and `JoinReturns` are the two
  halves of the stop, because the join waits and may time out. The results of a round are
  a set, one for each entry, because their order means nothing. `strikes`, `picks` and
  `orphaned` are history. Services share nothing but the lock, so one stands for all.
- **`RouteTable`**: a path is a sequence of segments and `Length` gives the length of a
  prefix in characters, so that the sort by characters and the match by segments can
  disagree; all that is assumed of it is that a prefix is shorter than one that extends it.
  `Load` installs any file.
- **`RouteWatcher`**: `Read`, `Swap` and `Stamp` are the three statements of `_do_reload`,
  `Wake` and `CheckMtime` those of the loop. `content` is the number of a version of the
  routes, or `Broken` (not JSON) or `Missing`. An edit picks any of the `Mtimes`, the one
  the watcher remembers included. `blind` is history: whether the watcher can tell the
  last edit, which it cannot if it came between a reload's `Read` and its `Stamp`, or left
  the file with `_last_mtime`.
- **`Routing`**: `Install` is `Swap` and `Load` in one step, for any file the version read
  may have had; all other steps leave the table alone.
- **`Gateway`**: `ArriveRouted` is the branch of `proxy` with a route, `ArriveDirect` the
  two without one (a model of the LLM gateway, the fallback), both down to the first
  await; `BodyRead` is `request.body()`, `ClientAborts` its exception; `Connect` and
  `PoolTimeout` are what `client.request()` gets first, one of the `MaxConnections` of the
  client that all services share or, for as long as httpx waits, none
  (`reverse_proxy.py:33-36` sets no limits, so there are httpx's 100); `Succeed`,
  `AnswerError` and `NoAnswer` are the ends. `Reload` and `HealthRound` are the two
  threads, each a step here because `RouteWatcher` and `LoadBalancer` have their
  interleavings. `lists` and `breaker` have an entry for every service from the start: an
  unused breaker equals a new one, an unused list is empty. `failed` is history.
- **`TokenBucket`**: `Consume` is one request, answer included; a token is `Cost` units,
  so that fractions of tokens are whole numbers.
- **`RedisTokenBucket`**: `CreateBackend` is `_create_backend` at import, `ConsumeLocal`
  the bucket a gateway has of its own from then on if Redis was down. `ConsumeShared` is
  `_ensure_script` and the script, atomic in Redis. `ConsumeWithoutRedis`,
  `ConsumeWithoutScript` and `Interrupted` (the reply is lost, the script may have run)
  are its exceptions. Redis is deployed with a volume and without an append-only file
  (`docker-compose.yml:83-90`): `saved` is its last snapshot, `Save` takes one, `Shutdown`
  too, and after a `Crash` Redis has what is in `saved`, and no scripts in either case.
  `losses` counts the crashes that lost something, as history. `RealTick` moves the true
  time, from which each gateway's clock is `offset` away. `since_shared` and `since_local`
  are history.
- **`ResponseCache`**: `Miss`, `Answer` and `Finish` are the read of the cache, the
  backend's answer and the `set`; what happens in between is everybody else. `purged` is
  history, for invalidations that meet no answer on its way. A body is
  abstracted to whether it is a 2xx, the version of the resource it shows, and its age.
- **`TokenQuota`**: `Quotas[c]` are the quotas of the tiers that client c has credentials of,
  since the tier is the credential's (`llm_gateway.py:198`) and the usage the client's.
  `Forward` is the check, `Reply` the rest of the pipeline, `Finish`
  the draining and the recording.
- **`Pipeline`**: every stage has an `...In` action, up to its `call_next`, and an `...Out`
  action, from its return or its exception on; `Order` is that of `add_middleware`. A stage
  that answers itself turns the request round. Limiter, LLM gateway and proxy give any of
  their answers, because what they decide is the other modules' subject; an exception is a
  response with status `raised`, which only the logging stage looks at. `CreateKey`,
  `DeleteKey` and `ClearCache` are handlers like any other, so they run between any two
  steps of other requests. The kinds of request under `/gateway/` are two: what one of the
  gateway's own routes takes (`admin`), and the paths and methods that none of them matches
  (`unmatched`). Both are exempt from authentication, limiter and cache, by their prefix;
  the second falls through to the catch-all (`main.py:150-157`) and thus to `Proxy`, like
  any request of a client. `held` is history.
- **`Lifecycle`**: `Accept` hands a request to the application while the server is up;
  `Forward`, its `get_client`, may come while the server drains, which waits for every
  request it has accepted. `Startup` is the startup hook; `StopWatcher`, `StopChecker`,
  `Close` and `Closed` are the shutdown hook, cut where it waits: the two joins and the
  client's `aclose`. A thread waits for its event or is in a round (`busy`); a join
  returns when its thread has ended, and may give up on a busy one. `gave_up` is history.
  The hooks reset what they can (`_health_thread = None`, `_client = None`, the event is
  cleared by the next start), as an application does that is started several times in a
  process, the way test clients do it; the model starts it `MaxStarts` times.

## 3. The runs

A passing run for each component; the watcher and the table it reloads share one:

| Run | Shows | Bounds, and why they are enough | States |
|---|---|---|---|
| `breaker` | slots = probes in flight; a closed breaker is below its threshold; the herd of an outage is bounded in every window; refinement of `BreakerContract`; a recovered backend is served, a dead one is not | 3 requests and 2 slots: two probes of a round overlap with a late result; threshold 3, timeout 2; resets at any time | 2.4k |
| `balancer` | no duplicates; rotation = latest probes; round-robin fair while the healthy set is the same; connection counters exact; the dead leave for good and the recovered come back for good | 2 backends, 2 requests, threshold 2: healthy sets of 0, 1 and 2; 1 thread, stopped and started at will; deregistration | 229k |
| `routing` | longest prefix in segments, whatever is installed; no edit loses routes or takes them back; the last edit is picked up unless the watcher is blind to it | versions 1 to 4, 3 mtimes in any order: a missed edit is followed by one that is not, and an mtime comes back; a version is any file of up to 3 routes, repeats included, over prefixes of 2, 4 and 6 characters of which the one with 4 has the most segments | 96k |
| `gateway` | slots and counters exact over reloads, evictions, aborts and requests that get no connection; a breaker opens after failures of its service's own requests only; health checks and breakers together let every service recover | 2 requests, a route of 2 backends that a reload cuts to 1, the fallback on the first, 1 connection: whoever comes second waits for it; one failure opens, one probe, eviction at the first strike: a service may be all evicted with its breaker open; higher thresholds are the subject of `breaker` and `balancer` | 223k |
| `bucket` | the rate in every interval; Retry-After; refinement of `FluidBucket` | 10 ticks; a token of 3 units, 2 units a tick, capacity 7: fractions and the cap occur | 52k |
| `redis_bucket` | each bucket keeps the rate, the shared one up to the skew, over expiry, restarts and lost replies, and but for one grant more per crash that loses what was not saved | 2 gateways, skew 1, a bucket that fills in 3 ticks, expiry 6, 6 ticks: the key expires; 2 crashes that lose something: one brings back nothing, an older bucket or one that is to expire sooner | 2.7M |
| `cache` | a hit is a 2xx of age at most TTL + latency; what is invalidated stays gone unless an answer was on its way; a resource that stops changing is served as it is | 1 key, TTL 2, latency 1, 2 requests, 2 writes: two misses with different answers fill the entry in either order | 19k |
| `quota` | the overshoot is what requests under way may report | 2 clients, 3 requests, up to 2 tokens each, quota 2 for one client, 1 and 3 for the other: used up exactly, exceeded, and refused with one credential while the other goes on | 669k |
| `pipeline` | the gauge counts every request once; headers are the request's own; a backend's answer goes to holders of the key only, but under `/gateway/` | 2 requests at a time, which is what a hit on another's entry and a key moved in the middle of a request take; 2 clients, 1 key, 1 cached path; all four kinds of request | 383k |
| `lifecycle` | one health thread unless a join gave up; the client in use is open; all threads end | 3 starts: a thread that a join gave up on is revived by the second and still there at the third; 2 requests, accepted before they are forwarded | 41k |

Symmetry is used for requests, clients and gateways, and only in runs without liveness.

Two runs find what the repository promises and the code does not do:

| Run | Said | Done |
|---|---|---|
| `redis_restart` | "automatic fallback when Redis is unavailable" (`rate_limit.py:49-50`) | `_ensure_script` keeps its SHA: after a restart of Redis every request fails, for ever |
| `pipeline_unmatched` | "Authenticate every proxied request via API key or JWT" (`auth.py:135`) | paths under `/gateway/` that no route matches, and methods no route takes, are exempt by their prefix, fall through to the catch-all and are forwarded to the fallback backend, with no identity and no bucket (`main.py:150-157`, `189-192`, `rate_limit.py:403-416`) |

### Met while modelling

Where a comment promises more than the code does, a passing property says what does hold,
with the exception in it. The exceptions, some with a definition that states the promise
and has no run:

- A breaker round sets the slot counter to 0 although a probe of an earlier round may
  still be out, so more than `half_open_max_calls` probes may run at once
  (`cb.py:167-169`; `ConcurrentProbesBounded` of `CircuitBreaker`). `HerdBounded` is the
  bound that remains.
- A late success of a request admitted before the outage closes a half-open breaker, not
  only a probe's (`cb.py:250-251`; `OnlyProbeCloses`).
- A stop of the health checks whose join times out, then a start, leaves two health
  threads (`lb.py:340`, `363-365`): `OneChecker` excepts it, and `ThreadsEnd` says that the
  last shutdown ends both.
- "Changes are picked up automatically" (`routes.json:21`), but an edit between a reload's
  read and its `getmtime` is not, nor one that leaves the mtime as it was
  (`router.py:202-211`): `PicksUpUnlessBlind` excepts these two, and only these.
- A backend deregistered under its requests and registered again is undercounted until
  they end: `ConnectionsExact` excepts `orphaned` backends. The gateway never deregisters.
- What the fallback backend answers under `/gateway/` goes to whoever asks:
  `ServedAsHolder` excepts these requests, by name, and holds for all others.
- Redis comes back from a crash with its last snapshot, so the bucket may be fuller than it
  was when it went down: `RateHonouredUpToSkew` grants each such crash a full bucket and the
  skew once more, and a restart that saves none.
- A request that its client aborts while the body is read counts as a failure of the
  backend (`main.py:211`): see `ClientAborts`.
- The breakers do not keep services apart as `cb.py:12-22` has it, where a slow backend no
  longer "starves *healthy* backends": all services share one httpx client with one pool of
  connections, a closed breaker lets any number of requests into it, and a slow service may
  hold them all. Requests of another one then raise `PoolTimeout` without having reached
  their backend, and that is recorded as its failure, so its breaker opens. `Unstarved` of
  `Gateway` states the promise and fails on the module as it is. What holds is
  `NoCascade`: without a failed request of its own, however it failed, no breaker opens.
- A client with credentials of two tiers has two quotas and one account
  (`llm_gateway.py:197-198`): the larger one is what `OvershootBounded` is about.
- A backend that a reload takes from a route stays in the balancer's list and keeps
  serving (`main.py:173-178`): see `Reload`.
- With requests one at a time, least-connections sends all of them to the first backend
  (`lb.py:285-292`), whatever `demo.py:69` expects.
- A miss whose answer is on its way during an invalidation stores it afterwards:
  `InvalidatedStaysGone` excepts it.
- A 2xx of a model that is no JSON reaches the client without its body
  (`llm_gateway.py:252-253`; `PassesThrough` of `TokenQuota`), and a quota "per month"
  (`llm_gateway.py:121`) is never reset (`QuotaComesBack`, under `QuotaFairSpec`).
- A hit carries the `X-RateLimit-*` headers of the request that filled the entry
  (`cache.py:229`): `TagsAreOwn` excepts them.
- A request whose inner stage raises (Redis down, a JSON body that is no object) gets a
  response without `X-Request-ID` and without a line in the access log
  (`request_id.py:46-49`, `logger.py:87-94`); the gauge is right all the same.
- The headers `X-Client-ID` and `X-Client-Tier` for backends (`auth.py:23-25`, `142-144`)
  are set nowhere.
- `strip_prefix` writes to the scope of a request (`main.py:183-185`) whose `url`, which
  `forward_request` reads, has been computed by then.
- `/gateway/admin/health-detail` lists the breakers of a registry it has just made
  (`admin/routes.py:57`), and the rate-limit endpoints import `TIER_LIMITS`, which
  `rate_limit.py` does not define, so they change nothing: `OtherInternal`.

### Bounds

The counters that grow for ever in the code are cut off where the code stops telling
values apart (failures, strikes, elapsed time), reduced modulo a common multiple of what
they are used modulo (`RRPeriod`), or bounded by a constant of the configuration
(`MaxTime`, `MaxVersion`, `Edits`, `MaxUsage`). `TokenQuota`'s usage is bounded because the
check stops a client. `Threads` bounds the health threads that exist at once: with one, a
start of `LoadBalancer` waits until a forgotten thread has ended, so that the rotation can
be compared with its probes; two of them are `Lifecycle`'s subject. `MaxStarts` bounds the
starts, `MaxLosses` the crashes of Redis that lose data. `MaxConnections` is 1 instead of
httpx's 100, so that two requests are enough to fill the pool.

### Fairness

Assumed only for what the code or its surroundings must do: time passes; the two threads
get their turns (`wait` and every probe have a timeout); a request that was let through
ends (httpx gives up after its timeout, for the connection and for the answer; a body arrives
or its client goes away); a hook
goes on when its join or its close returns; a Redis
that is down is started again. The world is not fair: backends, editors, writers and
operators do what they like. Two specifications assume traffic on top. `CircuitBreaker`
and `Gateway` assume that clients keep asking, because a breaker has no timer of its own
and leaves the open state only when asked; in `Gateway` that is strong fairness for each
path and each model, because a request can start only while a slot for it is free.
`RedisTokenBucket` and `TokenQuota` assume requests because their properties are about
the answers. What the liveness properties need beyond that is in their premises: no reset
in the end (`StopsHammering`), checks that run in the end
(`RotationConverges`), no aborts and connections for all in the end (`ServiceRecovers`), no stop
(`PicksUpUnlessBlind`), a gateway that stays down (`ThreadsEnd`).

## 4. The proofs

Checked by TLAPS, for all values of the constants that satisfy the named assumptions.
Every safety property of the passing runs is a theorem, and so are the two action
properties and the two refinements that they check.

**`CircuitBreakerProofs`** (`BreakerAssumption`: positive threshold and slots, any
timeout; `CallsAssumption`: finitely many requests at once), with manual resets.
`SlotsMatchProbes` alone is not inductive: when a round opens the code sets its counter to
0, which is right only if no request counts as a probe of the round by then. The
strengthening adds `NoProbesBetweenRounds`: outside half-open there are no probes of the
current round. `TypeCorrect`, `SlotsAlwaysMatchProbes` and `ClosedAlwaysBelowThreshold`
follow. The proof has a lemma for `can_execute`, one for the two results, one for the
methods that admit nobody and one for the environment; what they share about `Become` and
about counting probes are lemmas of their own. `HerdAlwaysBounded` needs to know what the
state says of the window (`HerdFits`): half-open, it has let in no more than the slots
taken; open, nothing since the cool-down began; so that the end of a cool-down, which
takes the slots back, finds an empty window. `BreakerImplementsContract` shows, from
the same invariant, that each step but a manual reset is a step of `BreakerContract` or a
stutter; the contract has no reset, so `ImplementsContract` excepts that action by name.

**`BalancerOpsProofs`** has the lemmas about the list that `LoadBalancer` and `Gateway`
share: what each locked section does to types, URLs and counters, and that the k-th of a
finite set of positions, by the number of those before it, exists and is the only one.

**`LoadBalancerProofs`** (`BalancerAssumption`, `ProbeAssumption`), with deregistrations.
Three invariants, one on top of the other. `CountInv`: the counters of the list are the
requests in flight. Not inductive without `Homeless`: a request whose backend is not in
the list has seen it deregistered, so that a new entry, which counts from zero, is right
or excepted. `TypeCorrect`, `NeverDuplicates` and `ConnectionsAlwaysExact` follow.
`RotationInv`: what the thread carries from its snapshot to its verdict is about entries
still in the list, one result for each, and an entry is behind its backend's probes by just
that result. `RotationFollowsProbes` follows *while no two health threads are alive*
(`OneLoop`): with two, their verdicts may be applied in the other order than their probes,
and the property is false. Two are alive only after a join that gave up
(`AtMostOneChecker`); the run has one thread, and there `OneLoop` holds. `ShareInv`: who
has one pick more than the others depends on the counter's position among the healthy
alone, they are the positions it passed last; registrations and deregistrations that do not
change the healthy set change no order in it. `RoundRobinAlwaysFair` follows, for which the
wrap of the modelled counter must be a multiple of every number of backends
(`BalancerAssumption`).

**`GatewayProofs`** (`GatewayAssumption`, `IdleAssumption`, `BreakerAssumption`). As in
`CircuitBreakerProofs`, per service, a breaker that is not half-open has no probes
(`Fits`), and the same has to hold for the breakers a step leaves alone, because the
requests of other services are not theirs. A request that gets no connection ends like one
that gets no answer, and the proofs need nothing about the pool. `SlotsAreProbes` and
`NoCascading` follow. `BreakersImplementContract`: nothing a handler, a reload or a health
round does to a breaker is more than one of its methods, so each service's breaker is a
`BreakerContract`, without exception since nothing here resets one.
`ConnectionsAlwaysExact` rests on `ListsInv`: types, no duplicates, exact counters, and a
request's backend in its service's list. That no list loses an entry is what makes it
simpler than the balancer's; that a service without a balancer shares no name with a route
(`GatewayAssumption`) is what keeps its requests out of the lists.

**`RateLimitProofs`**, first the bucket of one process (`BucketAssumption`,
`TimeAssumption`). `RateHonoured` bounds what
was admitted; the induction must also know what is left. `BucketPays` does: what was
admitted from a tick on, *plus* what the bucket would hold now, is at most the capacity
and the refill since. Two facts of types help: the bucket was not refilled in the future
and nothing was admitted from later ticks on. `RateAlwaysHonoured` follows.
`BucketImplementsFluid` rests on `CappedTwice`: refilling twice with a cap is refilling
once, so a bucket that catches up on demand is as full as one that fills all the time.
`RetryAfterIsEnough` rests on `WaitPays`: a bucket fills while its client is refused, so
after a wait of n ticks it holds what n ticks refill, or is full.

Then the one that gateways share (`RedisAssumption`, `SkewAssumption`). The same account,
kept by the clock of the last refill, which may be up to `Skew` ahead (`Pays`); the script
never refills backwards, whoever's clock comes next. What is paid for need not be paid for
by the bucket there is, which may have expired or be an older one: `Funded` says that
either it pays, or what was admitted has been refilled by the *true* time and leaves room
for a full bucket (`Room`). An expired key leaves room because it outlives the filling of
the bucket by more than the clocks are apart (`Kept`), which is `SkewAssumption`; with
a TTL of at least 120 s and of at least twice the time to fill, it holds for all clocks up
to a minute apart. Beyond it the bound is false: every expiry may grant the skew anew. A
crash that loses what was not saved makes room by a grant (`SharedGrant`, `LossLeavesRoom`):
capacity and skew, once more for each. No assumption says how often Redis saves or how
often it crashes. `RateAlwaysHonouredUpToSkew` has the buckets in memory too, by one clock
each.

Then the quota (`QuotaAssumption`: positive quotas, one or more for each client, any
usage, finitely many requests). `OvershootBounded` charges what is recorded and, in
advance, what each POST under way may report; with the types that is inductive as it
stands. Reports of usage are taken to be natural numbers up to `MaxUsage`.

**`PipelineProofs`** (`PipelineAssumption`, `ResponseAssumption`: finitely many requests, and
names that do not clash). `GaugeExact` is inductive with the types: every step moves one
request by one stage, so the set of requests inside the logging stage grows or shrinks with
the gauge, or stays. `TagsAreOwn` and `ServedAsHolder` are not inductive: what a response
carries depends on the stages it has left behind. `Own` says so stage by stage, on the way
in and on the way back; `StoreUntagged` says that an entry has no client, since the cache is
inside the authentication. Reordering the stages breaks exactly these two. A key that moves
only adds to `held`. Requests that are exempt have no identity, wherever they are: that is
the exception of `ServedAsHolder`, and no request of another kind shares it.

**`LifecycleProofs`**, first the hooks (`LifecycleAssumption`). `KnownThreads`: until a
join gives up, the balancer knows of every health thread alive, and forgets none before it
has ended. `ClientKnown`: the client that is remembered is open, except while it is being
closed, and by then no request is accepted any more, forwarded or not. `AtMostOneChecker`
and `OneOpenClient` follow.

Then the watcher (`WatcherAssumption`). A reload that is about to replace the table
has read something that is not older, and a file that parses holds the newest version
(`NeverBehind`); `NeverGoesBack` follows.

Then the table it installs (`TableAssumption`, `LengthAssumption`). A route's rank is the
number of routes that sort before it, ranks are one to one with positions, so the table is
the file in the order of the sort (`RanksSort`); of two prefixes of one path one extends
the other, so the longer in characters is the longer in segments (`PrefixesCompare`); the
first match is then the longest (`AlwaysResolvesLongest`).

**`ResponseCacheProofs`** (`CacheAssumption`). An entry ages by as much as it has less time
left (`EntriesTimely`), an answer on its way is no older than the latency (`AnswersYoung`),
and neither shows less than the version its key was invalidated at (`PurgedIsGone`).

**Only model-checked**: the liveness properties (`Recovers`, `StopsHammering`,
`RotationConverges`, `PicksUpUnlessBlind`, `ServiceRecovers`, `CatchesUp`, `ThreadsEnd`,
and `ErrorsEnd`, which is violated, as `ProxiedAuthenticated` is): fairness is stated with
`ENABLED`, which the prover does not handle. What the rotation does while two health
threads are alive is not stated anywhere: `Lifecycle` shows when there are two, and that
the last shutdown ends both.

## 5. What is not modelled

- Floating point in the bucket (tokens are whole units) and clocks that go back.
- The cancellation of handlers: whether a disconnect raises `CancelledError` in a handler
  depends on the server, and the code has no line for it. It would skip both
  `record_success` and `record_failure` and leave a probe slot taken, and both
  decrements of the gauge. The server delivers a disconnect as a message that only
  `request.body()` reads here (`ClientAborts`), and drains requests before it shuts down, so
  the models assume that handlers are not cancelled.
- httpx's timeout is per operation and not total: a response that trickles is not cut
  off after 30 s. The models need only that requests end; `ResponseCache` bounds the time
  between the backend's answer and the `set` by `MaxLatency`.
- `RedisCache` (nothing in the repository installs it), the normalisation of cache keys
  and headers, URL rewriting (`strip_prefix`), hop-by-hop headers, the tokens and
  signatures of JWTs, log lines and the metrics other than the gauge.
- Two tiers for one `client_id` share a bucket (`rate_limit.py:440-441`): `TokenBucket`
  has one tier.
- `get_or_create`'s double-checked lock: only handlers call it, and they run on one thread.
- Configuration, mock backends, demo and container files have no behaviour of their own,
  except for what `docker-compose.yml` says of Redis.
- Of the HTTP client's pool, which connections are kept alive and in which order requests
  get them; the models let any that waits be next.

## 6. The plan

Every component with behaviour of its own is modelled, and every safety property that
holds is proved. What is left, in order:

1. The cache implements a register that may lag by a bounded time: the abstract register,
   and the refinement.
2. `LoadBalancer` implements what `Gateway` takes it for: a round of the health thread that
   is one step, while no backend changes in the middle of it.
3. `Gateway` with a property that names the routes a backend may serve after a reload, and
   `TokenBucket` with two tiers for one key.
