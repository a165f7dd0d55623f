------------------------------ MODULE BucketOps -------------------------------
(***************************************************************************)
(* One token bucket as a value: what InMemoryTokenBucket.consume and the   *)
(* Lua script of RedisTokenBucket (middleware/rate_limit.py) do to the     *)
(* pair of tokens and last_refill.  The two compute the same.              *)
(*                                                                         *)
(* The code counts in floating point.  Here a token is Cost units, so that *)
(* rate and capacity are whole numbers of units; rounding is not modelled. *)
(***************************************************************************)
EXTENDS Integers

CONSTANTS Capacity,   \* units a bucket holds: the tier's capacity
          Rate,       \* units per tick of the clock: the tier's rate
          Cost,       \* units in one token
          Absent,     \* no bucket under the client's key
          MaxTime     \* the last tick of the model

ASSUME BucketAssumption ==
    /\ Capacity \in Nat /\ Rate \in Nat \ {0}
    /\ Cost \in Nat \ {0} /\ Cost <= Capacity
    /\ Absent \notin [tokens : Int, last_refill : Int]

ASSUME TimeAssumption == MaxTime \in Nat

Times == 0 .. MaxTime

AtMostCapacity(n) == IF n < Capacity THEN n ELSE Capacity

\* The first request of a key finds a full bucket.
Opened(b, now) == IF b = Absent THEN [tokens |-> Capacity, last_refill |-> now] ELSE b

\* Mutant: the refill is added without the cap.
RefilledPastCapacity(b, now) ==
    IF now > b.last_refill
    THEN [tokens |-> b.tokens + (now - b.last_refill) * Rate, last_refill |-> now]
    ELSE b

\* Mutant: last_refill is left where it was.
RefilledTwice(b, now) ==
    IF now > b.last_refill
    THEN [b EXCEPT !.tokens = AtMostCapacity(@ + (now - b.last_refill) * Rate)]
    ELSE b

Refilled(b, now) ==
    IF now > b.last_refill
    THEN [tokens |-> AtMostCapacity(b.tokens + (now - b.last_refill) * Rate),
          last_refill |-> now]
    ELSE b

\* Mutant: a request needs more than one whole token.
AllowsAboveOne(b) == b.tokens > Cost

Allows(b) == b.tokens >= Cost

Taken(b) == IF Allows(b) THEN [b EXCEPT !.tokens = @ - Cost] ELSE b

\* consume: the bucket afterwards, and the answer.
Consumed(b, now) == Taken(Refilled(Opened(b, now), now))
Answer(b, now) == IF Allows(Refilled(Opened(b, now), now)) THEN "allowed" ELSE "refused"

\* History: count[s] requests were admitted from tick s on; one more is, now.
OneMore(count, now) == [s \in Times |-> IF s <= now THEN count[s] + 1 ELSE count[s]]
===============================================================================
