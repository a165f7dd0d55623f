----------------------------- MODULE TokenBucket ------------------------------
(***************************************************************************)
(* InMemoryTokenBucket and the answer of RateLimitMiddleware for one       *)
(* client (middleware/rate_limit.py).  The bucket is only touched when a   *)
(* request comes: it catches up with the time since the last one.          *)
(*                                                                         *)
(* The clock is time.time(), assumed not to go back; MaxTime bounds it.    *)
(***************************************************************************)
EXTENDS BucketOps

CONSTANT TicksPerSecond   \* Retry-After is in whole seconds

ASSUME SecondAssumption == TicksPerSecond \in Nat \ {0}

VARIABLES
    now,             \* the clock
    bucket,          \* _buckets[key]
    answer,          \* the answer to the last request
    refused_since,   \* history: the first refusal since the last admission
    since            \* history: since[s] requests were admitted from tick s on

vars == <<now, bucket, answer, refused_since, since>>

Bucket == [tokens : 0 .. Capacity, last_refill : Times]

TypeOK ==
    /\ now \in Times
    /\ bucket \in Bucket \cup {Absent}
    /\ answer \in {"none", "allowed", "refused"}
    /\ refused_since \in Times
    /\ since \in [Times -> Nat]

Init ==
    /\ now = 0 /\ bucket = Absent /\ answer = "none" /\ refused_since = 0
    /\ since = [s \in Times |-> 0]

Consume ==
    /\ bucket' = Consumed(bucket, now)
    /\ answer' = Answer(bucket, now)
    /\ refused_since' = IF answer = "refused" THEN refused_since ELSE now
    /\ since' = IF Answer(bucket, now) = "allowed" THEN OneMore(since, now) ELSE since
    /\ UNCHANGED now

Tick ==
    /\ now < MaxTime
    /\ now' = now + 1
    /\ UNCHANGED <<bucket, answer, refused_since, since>>

Next == Consume \/ Tick

Spec == Init /\ [][Next]_vars

-------------------------------------------------------------------------------

\* What the bucket would hold if it were refilled now.
Level == IF bucket = Absent THEN Capacity
         ELSE AtMostCapacity(bucket.tokens + (now - bucket.last_refill) * Rate)

\* "You can burst up to N requests, then you're limited to M per second"
\* (rate_limit.py:36-37): from any moment on, however the requests are spread,
\* no more are admitted than the capacity and the refill since then pay for.
RateHonoured ==
    \A s \in 0 .. now : Cost * since[s] <= Capacity + Rate * (now - s)

Fluid == INSTANCE FluidBucket WITH
    Size <- Capacity, Flow <- Rate, Token <- Cost, level <- Level, reply <- answer

\* Catching up on demand is as good as filling all the time: the same requests
\* are admitted and refused.
ImplementsFluid == Fluid!Spec

\* math.ceil(1.0 / tier.rate), in seconds (rate_limit.py:488-491).
PerSecond == Rate * TicksPerSecond

\* Mutant: rounds the wait down.
RetryTooEarly == Cost \div PerSecond

RetryAfter == (Cost + PerSecond - 1) \div PerSecond

\* "How many seconds the client should wait before retrying" (rate_limit.py:82-84):
\* a client that has waited that long since it was first refused, and has not been
\* admitted since, is admitted, even if it kept asking.
RetryAfterSuffices ==
    answer = "refused" /\ now >= refused_since + RetryAfter * TicksPerSecond
        => Level >= Cost
===============================================================================
