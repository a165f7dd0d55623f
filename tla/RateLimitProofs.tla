--------------------------- MODULE RateLimitProofs ----------------------------
(***************************************************************************)
(* TLAPS proofs about what limits a client: the bucket in memory           *)
(* (TokenBucket), the bucket that gateways share (RedisTokenBucket), and   *)
(* the quota of tokens (TokenQuota).                                       *)
(*                                                                         *)
(* That the requests since s are paid for is not inductive: it says        *)
(* nothing of what the bucket still holds.  BucketPays does, and WaitPays  *)
(* says what it holds by the time a refused client has waited.  Of a       *)
(* bucket with more clocks than one, Pays says the same by the clock of    *)
(* its last refill, and Room that whatever bucket comes next can pay: a    *)
(* bucket that expired had filled, and one that was lost is granted anew.  *)
(*                                                                         *)
(* With QuotaTypeOK the bound on the overshoot is inductive as it stands:  *)
(* a POST is forwarded below the quota, whatever else is under way, and    *)
(* what it is allowed for itself it gives back when its usage is recorded. *)
(***************************************************************************)
EXTENDS TokenBucket, RedisTokenBucket, TokenQuota, FiniteSetTheorems, TLAPS

NotRefilledAhead == bucket # Absent => bucket.last_refill <= now

NoneFromLaterOn == \A s \in Times : s > now => since[s] = 0

\* What was admitted since s, and what is left, came from the capacity and the
\* refill since s.
BucketPays ==
    \A s \in 0 .. now : Cost * since[s] + Level <= Capacity + Rate * (now - s)

IInv == TypeOK /\ NotRefilledAhead /\ NoneFromLaterOn /\ BucketPays

-------------------------------------------------------------------------------
(* Arithmetic.                                                             *)

\* What the solver needs to know of products, stated for numbers without structure.
LEMMA Products ==
    ASSUME NEW m \in Nat, NEW n \in Nat
    PROVE  m * n \in Nat /\ m * (n + 1) = m * n + m /\ n * m = m * n /\ m * 0 = 0
OBVIOUS

\* The same of sums and of the larger of two.
LEMMA Sums ==
    ASSUME NEW m \in Nat, NEW n \in Nat, NEW k \in Nat
    PROVE  /\ m * n \in Nat /\ m * k \in Nat
           /\ m * (n + k) = m * n + m * k
           /\ n <= k => m * n <= m * k
<1>1. /\ m * n \in Nat /\ m * k \in Nat
      /\ m * (n + k) = m * n + m * k
    OBVIOUS
<1>2. ASSUME n <= k  PROVE  m * n <= m * k
    <2>1. PICK d \in Nat : k = n + d
        <3>1. k - n \in Nat /\ k = n + (k - n)
            BY <1>2
        <3> QED  BY <3>1
    <2>2. m * k = m * n + m * d /\ m * d \in Nat /\ m * n \in Nat
        BY <2>1
    <2> QED  BY <2>2
<1> QED  BY <1>1, <1>2

\* What d ticks add to a bucket.
LEMMA Refills ==
    ASSUME NEW d \in Nat
    PROVE  /\ d * Rate \in Nat /\ (d + 1) * Rate = d * Rate + Rate /\ 0 * Rate = 0
           /\ Rate * d \in Nat /\ Rate * (d + 1) = Rate * d + Rate /\ Rate * 0 = 0
<1>1. Rate \in Nat
    BY BucketAssumption DEF BucketAssumption
<1> QED  BY <1>1, Products

\* Refilling twice, with a cap each time, is refilling once.
LEMMA CappedTwice ==
    ASSUME NEW x \in Nat, NEW y \in Nat
    PROVE  AtMostCapacity(AtMostCapacity(x) + y) = AtMostCapacity(x + y)
<1>1. Capacity \in Nat
    BY BucketAssumption DEF BucketAssumption
<1> QED  BY <1>1 DEF AtMostCapacity

-------------------------------------------------------------------------------
(* The level and the bucket.                                               *)

\* The level is within the capacity, whenever the bucket was last touched
\* (rate_limit.py:222-225).
LEMMA LevelType ==
    ASSUME TypeOK, NotRefilledAhead
    PROVE  Level \in 0 .. Capacity
<1>1. Capacity \in Nat
    BY BucketAssumption DEF BucketAssumption
<1>2. CASE bucket = Absent
    BY <1>1, <1>2 DEF Level
<1>3. CASE bucket # Absent
    <2>1. bucket.tokens \in 0 .. Capacity /\ now - bucket.last_refill \in Nat
        BY <1>3, TimeAssumption DEF TypeOK, Bucket, NotRefilledAhead, Times, TimeAssumption
    <2>2. (now - bucket.last_refill) * Rate \in Nat
        BY <2>1, Refills
    <2> QED  BY <1>1, <1>3, <2>1, <2>2 DEF Level, AtMostCapacity
<1> QED  BY <1>2, <1>3

\* A request that comes now finds the level: catching up loses nothing and adds
\* nothing (rate_limit.py:211-223).
LEMMA FindsLevel ==
    ASSUME TypeOK, NotRefilledAhead
    PROVE  Refilled(Opened(bucket, now), now) = [tokens |-> Level, last_refill |-> now]
<1> DEFINE b == Opened(bucket, now)
<1>1. Capacity \in Nat /\ now \in Nat
    BY BucketAssumption, TimeAssumption DEF BucketAssumption, TimeAssumption, TypeOK, Times
<1>2. CASE bucket = Absent
    <2>1. b = [tokens |-> Capacity, last_refill |-> now]
        BY <1>2 DEF Opened
    <2> QED  BY <1>1, <1>2, <2>1 DEF Refilled, Level
<1>3. CASE bucket # Absent
    <2>1. /\ b = bucket /\ bucket \in Bucket /\ bucket.last_refill <= now
          /\ bucket.tokens \in 0 .. Capacity /\ bucket.last_refill \in Nat
        BY <1>3, TimeAssumption
           DEF TypeOK, Bucket, NotRefilledAhead, Times, TimeAssumption, Opened
    <2>2. CASE now > bucket.last_refill
        BY <1>3, <2>1, <2>2 DEF Refilled, Level
    <2>3. CASE ~(now > bucket.last_refill)
        <3>1. bucket.last_refill = now
            BY <1>1, <2>1, <2>3
        <3>2. bucket = [tokens |-> bucket.tokens, last_refill |-> now]
            BY <2>1, <3>1 DEF Bucket
        <3>3. (now - bucket.last_refill) * Rate = 0
            BY <1>1, <3>1, Refills
        <3>4. Level = bucket.tokens
            BY <1>1, <1>3, <2>1, <3>3 DEF Level, AtMostCapacity
        <3> QED  BY <2>1, <2>3, <3>2, <3>4 DEF Refilled
    <2> QED  BY <2>2, <2>3
<1> QED  BY <1>2, <1>3

\* A request takes a token off the level, if there is one, and is told so.
LEMMA ConsumeLevel ==
    ASSUME TypeOK, NotRefilledAhead, Consume
    PROVE  /\ bucket' \in Bucket /\ bucket'.last_refill = now /\ now' = now
           /\ \/ /\ Level >= Cost /\ Answer(bucket, now) = "allowed"
                 /\ Level' = Level - Cost
              \/ /\ Level < Cost /\ Answer(bucket, now) = "refused"
                 /\ Level' = Level
<1> DEFINE full == [tokens |-> Level, last_refill |-> now]
           left == IF Level >= Cost THEN Level - Cost ELSE Level
<1>1. /\ Capacity \in Nat /\ Cost \in Nat \ {0} /\ Level \in 0 .. Capacity
      /\ now \in Times /\ now \in Nat
    BY LevelType, BucketAssumption, TimeAssumption
       DEF BucketAssumption, TimeAssumption, TypeOK, Times
<1>2. Answer(bucket, now) = IF Level >= Cost THEN "allowed" ELSE "refused"
    BY FindsLevel DEF Answer, Allows
<1>3. bucket' = [tokens |-> left, last_refill |-> now] /\ now' = now
    BY FindsLevel DEF Consume, Consumed, Taken, Allows
<1>4. left \in 0 .. Capacity
    BY <1>1
<1>5. bucket' \in Bucket
    BY <1>1, <1>3, <1>4 DEF Bucket
<1>6. bucket' # Absent
    <2>1. left \in Int /\ now \in Int
        BY <1>1, <1>4
    <2>2. bucket' \in [tokens : Int, last_refill : Int]
        BY <1>3, <2>1
    <2> QED  BY <2>2, BucketAssumption DEF BucketAssumption
<1>7. Level' = left
    <2>1. (now - now) * Rate = 0
        BY <1>1, Refills
    <2>2. bucket'.tokens = left /\ bucket'.last_refill = now
        BY <1>3
    <2>3. Level' = AtMostCapacity(bucket'.tokens + (now' - bucket'.last_refill) * Rate)
        BY <1>6 DEF Level, AtMostCapacity
    <2>4. Level' = AtMostCapacity(left + 0)
        BY <1>3, <2>1, <2>2, <2>3
    <2> QED  BY <1>1, <1>4, <2>4 DEF AtMostCapacity
<1> QED  BY <1>1, <1>2, <1>3, <1>5, <1>7

\* A tick adds the rate to the level, up to the capacity.
LEMMA TickLevel ==
    ASSUME TypeOK, NotRefilledAhead, Tick
    PROVE  Level' = AtMostCapacity(Level + Rate)
<1>1. /\ Capacity \in Nat /\ Rate \in Nat /\ now \in Nat
      /\ now' = now + 1 /\ bucket' = bucket
    BY BucketAssumption, TimeAssumption
       DEF BucketAssumption, TimeAssumption, TypeOK, Times, Tick
<1>2. CASE bucket = Absent
    BY <1>1, <1>2 DEF Level, AtMostCapacity
<1>3. CASE bucket # Absent
    <2> DEFINE d == now - bucket.last_refill
    <2>1. bucket.tokens \in Nat /\ bucket.last_refill \in Nat /\ d \in Nat
        BY <1>1, <1>3, TimeAssumption
           DEF TypeOK, Bucket, NotRefilledAhead, Times, TimeAssumption
    <2>2. d * Rate \in Nat /\ (d + 1) * Rate = d * Rate + Rate
        BY <2>1, Refills
    <2>3. now' - bucket.last_refill = d + 1
        BY <1>1, <2>1
    <2>4. Level' = AtMostCapacity(bucket.tokens + (d + 1) * Rate)
        BY <1>1, <1>3, <2>3 DEF Level, AtMostCapacity
    <2>5. Level = AtMostCapacity(bucket.tokens + d * Rate)
        BY <1>3 DEF Level
    <2>6. bucket.tokens + (d + 1) * Rate = (bucket.tokens + d * Rate) + Rate
        BY <1>1, <2>1, <2>2
    <2>7. bucket.tokens + d * Rate \in Nat
        BY <2>1, <2>2
    <2> QED  BY <1>1, <2>4, <2>5, <2>6, <2>7, CappedTwice
<1> QED  BY <1>2, <1>3

-------------------------------------------------------------------------------
(* The invariant.                                                          *)

\* Before the first request there is no bucket and nothing was admitted.
LEMMA InitIInv == Init => IInv
<1> SUFFICES ASSUME Init  PROVE IInv
    OBVIOUS
<1>1. TypeOK
    BY TimeAssumption DEF Init, TypeOK, Times, TimeAssumption
<1>2. NotRefilledAhead /\ NoneFromLaterOn
    BY DEF Init, NotRefilledAhead, NoneFromLaterOn
<1>3. ASSUME NEW s \in 0 .. now
      PROVE  Cost * since[s] + Level <= Capacity + Rate * (now - s)
    <2>1. /\ s = 0 /\ now = 0 /\ since[s] = 0 /\ Level = Capacity
          /\ Capacity \in Nat /\ Cost \in Nat
        BY <1>3, BucketAssumption, TimeAssumption
           DEF Init, Level, Times, BucketAssumption, TimeAssumption
    <2>2. Cost * since[s] = 0 /\ Rate * (now - s) = 0
        BY <2>1, Products, Refills
    <2> QED  BY <2>1, <2>2
<1> QED  BY <1>1, <1>2, <1>3 DEF IInv, BucketPays

\* A request is admitted for a token of the bucket.
LEMMA ConsumeKeepsIInv == ASSUME IInv, Consume  PROVE IInv'
<1> USE DEF IInv
<1>1. /\ bucket' \in Bucket /\ bucket'.last_refill = now /\ now' = now
      /\ \/ /\ Level >= Cost /\ Answer(bucket, now) = "allowed"
            /\ Level' = Level - Cost
         \/ /\ Level < Cost /\ Answer(bucket, now) = "refused"
            /\ Level' = Level
    BY ConsumeLevel
<1>2. /\ Capacity \in Nat /\ Cost \in Nat \ {0} /\ Level \in 0 .. Capacity
      /\ now \in Times /\ now \in Nat /\ MaxTime \in Nat
    BY LevelType, BucketAssumption, TimeAssumption
       DEF BucketAssumption, TimeAssumption, TypeOK, Times
<1>3. since' = IF Answer(bucket, now) = "allowed"
               THEN [s \in Times |-> IF s <= now THEN since[s] + 1 ELSE since[s]]
               ELSE since
    BY DEF Consume, OneMore
<1>4. TypeOK'
    <2>1. answer' \in {"none", "allowed", "refused"}
        BY <1>1 DEF Consume
    <2>2. refused_since' \in Times
        BY <1>2 DEF Consume, TypeOK
    <2>3. since' \in [Times -> Nat]
        BY <1>3 DEF TypeOK
    <2> QED  BY <1>1, <1>2, <2>1, <2>2, <2>3 DEF TypeOK, Times, Bucket
<1>5. NotRefilledAhead'
    BY <1>1, <1>2 DEF NotRefilledAhead
<1>6. NoneFromLaterOn'
    BY <1>1, <1>2, <1>3 DEF NoneFromLaterOn, TypeOK, Times
<1>7. ASSUME NEW s \in 0 .. now
      PROVE  Cost * since'[s] + Level' <= Capacity + Rate * (now - s)
    <2>1. /\ s \in Times /\ since[s] \in Nat /\ now - s \in Nat
          /\ Cost * since[s] + Level <= Capacity + Rate * (now - s)
        BY <1>2 DEF TypeOK, BucketPays, Times
    <2>2. /\ Cost * since[s] \in Nat /\ Cost * (since[s] + 1) = Cost * since[s] + Cost
          /\ Rate * (now - s) \in Nat
        BY <1>2, <2>1, Products, Refills
    <2>3. CASE Answer(bucket, now) = "allowed"
        <3>1. Level' = Level - Cost
            BY <1>1, <2>3
        <3>2. since'[s] = since[s] + 1
            BY <1>2, <1>3, <2>1, <2>3
        <3> QED  BY <1>2, <2>1, <2>2, <3>1, <3>2
    <2>4. CASE Answer(bucket, now) # "allowed"
        BY <1>1, <1>3, <2>1, <2>4
    <2> QED  BY <2>3, <2>4
<1> QED  BY <1>1, <1>4, <1>5, <1>6, <1>7 DEF BucketPays

\* A tick pays its rate into the bucket, or less when it is full.
LEMMA TickKeepsIInv == ASSUME IInv, Tick  PROVE IInv'
<1> USE DEF IInv
<1>1. Level' = AtMostCapacity(Level + Rate)
    BY TickLevel
<1>2. /\ Capacity \in Nat /\ Cost \in Nat /\ Rate \in Nat /\ Level \in 0 .. Capacity
      /\ now \in Nat /\ now < MaxTime /\ MaxTime \in Nat /\ now' = now + 1
      /\ bucket' = bucket /\ answer' = answer /\ refused_since' = refused_since
      /\ since' = since
    BY LevelType, BucketAssumption, TimeAssumption
       DEF BucketAssumption, TimeAssumption, TypeOK, Times, Tick
<1>3. TypeOK'
    BY <1>2 DEF TypeOK, Times
<1>4. NotRefilledAhead'
    BY <1>2 DEF NotRefilledAhead, TypeOK, Bucket, Times
<1>5. NoneFromLaterOn'
    BY <1>2 DEF NoneFromLaterOn, Times
<1>6. Level' \in 0 .. Capacity /\ Level' <= Level + Rate
    BY <1>1, <1>2 DEF AtMostCapacity
<1>7. ASSUME NEW s \in 0 .. now + 1
      PROVE  Cost * since[s] + Level' <= Capacity + Rate * (now + 1 - s)
    <2>1. CASE s <= now
        <3>1. /\ s \in Times /\ since[s] \in Nat /\ now - s \in Nat
              /\ Cost * since[s] + Level <= Capacity + Rate * (now - s)
            BY <1>2, <2>1 DEF TypeOK, BucketPays, Times
        <3>2. /\ Cost * since[s] \in Nat /\ Rate * (now - s) \in Nat
              /\ Rate * ((now - s) + 1) = Rate * (now - s) + Rate
            BY <1>2, <3>1, Products, Refills
        <3>3. (now - s) + 1 = now + 1 - s
            BY <1>2, <3>1
        <3> QED  BY <1>2, <1>6, <3>1, <3>2, <3>3
    <2>2. CASE s = now + 1
        <3>1. since[s] = 0 /\ now + 1 - s = 0
            BY <1>2, <2>2 DEF NoneFromLaterOn, Times
        <3>2. Cost * since[s] = 0 /\ Rate * (now + 1 - s) = 0
            BY <1>2, <3>1, Products, Refills
        <3> QED  BY <1>2, <1>6, <3>2
    <2> QED  BY <1>2, <2>1, <2>2
<1> QED  BY <1>2, <1>3, <1>4, <1>5, <1>7 DEF BucketPays

\* Requests and the clock keep the invariant (rate_limit.py:209-236).
LEMMA NextIInv == IInv /\ [Next]_vars => IInv'
<1> SUFFICES ASSUME IInv, [Next]_vars  PROVE  IInv'
    OBVIOUS
<1>1. CASE UNCHANGED vars
    BY <1>1 DEF vars, IInv, TypeOK, NotRefilledAhead, NoneFromLaterOn, BucketPays, Level
<1> QED  BY <1>1, ConsumeKeepsIInv, TickKeepsIInv DEF Next

\* The strengthened invariant holds in every state of the bucket.
LEMMA Invariance == Spec => []IInv
BY InitIInv, NextIInv, PTL DEF Spec

-------------------------------------------------------------------------------

\* The bucket holds between nothing and its capacity (rate_limit.py:219-239).
THEOREM BucketTypeCorrect == Spec => []TypeOK
<1>1. IInv => TypeOK
    BY DEF IInv
<1> QED  BY <1>1, Invariance, PTL

\* However the requests are spread, no more are admitted in any interval than
\* the capacity and the refill of the interval pay for (rate_limit.py:35-37).
THEOREM RateAlwaysHonoured == Spec => []RateHonoured
<1>1. IInv => RateHonoured
    <2> SUFFICES ASSUME IInv, NEW s \in 0 .. now
                 PROVE  Cost * since[s] <= Capacity + Rate * (now - s)
        BY DEF RateHonoured
    <2>1. /\ s \in Times /\ since[s] \in Nat /\ now - s \in Nat
          /\ Cost * since[s] + Level <= Capacity + Rate * (now - s)
        BY TimeAssumption DEF IInv, TypeOK, BucketPays, Times, TimeAssumption
    <2>2. Level \in Nat
        BY LevelType, BucketAssumption DEF IInv, BucketAssumption
    <2>3. /\ Cost * since[s] \in Nat /\ Rate * (now - s) \in Nat /\ Capacity \in Nat
        BY <2>1, Products, Refills, BucketAssumption DEF BucketAssumption
    <2> QED  BY <2>1, <2>2, <2>3
<1> QED  BY <1>1, Invariance, PTL

\* Catching up on demand is as good as filling all the time: the bucket answers
\* every request as FluidBucket does (rate_limit.py:219-232).
THEOREM BucketImplementsFluid == Spec => ImplementsFluid
<1>1. Init => Fluid!Init
    BY DEF Init, Fluid!Init, Level
<1>2. ASSUME IInv, [Next]_vars  PROVE [Fluid!Next]_(Fluid!vars)
    <2>1. CASE Consume
        <3>1. answer' = Answer(bucket, now)
            BY <2>1 DEF Consume
        <3> QED  BY <1>2, <2>1, <3>1, ConsumeLevel
                 DEF IInv, Fluid!Next, Fluid!Give, Fluid!Refuse
    <2>2. CASE Tick
        BY <1>2, <2>2, TickLevel
           DEF IInv, Tick, AtMostCapacity, Fluid!Next, Fluid!Drip
    <2>3. CASE UNCHANGED vars
        BY <2>3 DEF vars, Level, Fluid!vars
    <2> QED  BY <1>2, <2>1, <2>2, <2>3 DEF Next
<1> QED  BY <1>1, <1>2, Invariance, PTL DEF Spec, ImplementsFluid, Fluid!Spec

-------------------------------------------------------------------------------
(* Retry-After.                                                            *)

\* While a client is refused the bucket fills: nothing is taken from it.
WaitPays ==
    answer = "refused" =>
        /\ refused_since <= now
        /\ Level >= AtMostCapacity((now - refused_since) * Rate)

LEMMA NextWaitPays == IInv /\ WaitPays /\ [Next]_vars => WaitPays'
<1> SUFFICES ASSUME IInv, WaitPays, [Next]_vars, answer' = "refused"
             PROVE  /\ refused_since' <= now'
                    /\ Level' >= AtMostCapacity((now' - refused_since') * Rate)
    BY DEF WaitPays, AtMostCapacity, Level
<1>1. /\ now \in Nat /\ refused_since \in Nat /\ Level \in Nat /\ Level <= Capacity
      /\ Capacity \in Nat /\ Rate \in Nat
    BY LevelType, BucketAssumption, TimeAssumption
       DEF IInv, TypeOK, Times, BucketAssumption, TimeAssumption
<1>2. CASE Consume
    <2>1. Level' = Level /\ now' = now
        <3>1. answer' = Answer(bucket, now)
            BY <1>2 DEF Consume
        <3> QED  BY <1>2, <3>1, ConsumeLevel DEF IInv
    <2>2. CASE answer = "refused"
        BY <1>2, <2>1, <2>2 DEF Consume, WaitPays
    <2>3. CASE answer # "refused"
        <3>1. refused_since' = now /\ (now - now) * Rate = 0
            BY <1>1, <1>2, <2>3, Refills DEF Consume
        <3> QED  BY <1>1, <2>1, <3>1 DEF AtMostCapacity
    <2> QED  BY <2>2, <2>3
<1>3. CASE Tick
    <2> DEFINE d == now - refused_since
    <2>1. /\ now' = now + 1 /\ refused_since' = refused_since
          /\ d \in Nat /\ now' - refused_since = d + 1
          /\ Level >= AtMostCapacity(d * Rate)
        BY <1>1, <1>3 DEF Tick, WaitPays
    <2>2. d * Rate \in Nat /\ (d + 1) * Rate = d * Rate + Rate
        BY <2>1, Refills
    <2>3. Level' = AtMostCapacity(Level + Rate)
        BY <1>3, TickLevel DEF IInv
    <2> HIDE DEF d
    <2> QED  BY <1>1, <2>1, <2>2, <2>3 DEF AtMostCapacity
<1>4. CASE UNCHANGED vars
    BY <1>4 DEF vars, WaitPays, Level, AtMostCapacity
<1> QED  BY <1>2, <1>3, <1>4 DEF Next

\* Rounding up is enough.
LEMMA RoundedUp ==
    ASSUME NEW n \in Nat, NEW p \in Nat \ {0}
    PROVE  ((n + p - 1) \div p) \in Nat /\ p * ((n + p - 1) \div p) >= n
OBVIOUS

\* A client that waits as long as it was told is admitted (rate_limit.py:487-511).
THEOREM RetryAfterIsEnough == Spec => []RetryAfterSuffices
<1>1. Init => WaitPays
    BY DEF Init, WaitPays
<1>2. IInv /\ WaitPays => RetryAfterSuffices
    <2> SUFFICES ASSUME IInv, WaitPays, answer = "refused",
                        now >= refused_since + RetryAfter * TicksPerSecond
                 PROVE  Level >= Cost
        BY DEF RetryAfterSuffices
    <2> DEFINE wait == RetryAfter * TicksPerSecond
               d == now - refused_since
    <2>1. Rate \in Nat \ {0} /\ TicksPerSecond \in Nat \ {0} /\ PerSecond \in Nat \ {0}
        BY BucketAssumption, SecondAssumption
           DEF BucketAssumption, SecondAssumption, PerSecond
    <2>2. RetryAfter \in Nat /\ PerSecond * RetryAfter >= Cost
        BY <2>1, BucketAssumption, RoundedUp DEF BucketAssumption, RetryAfter
    <2>3. wait \in Nat /\ wait * Rate = PerSecond * RetryAfter
        BY <2>1, <2>2 DEF PerSecond
    <2>4. d \in Nat /\ d >= wait
        BY <2>3, TimeAssumption DEF IInv, TypeOK, Times, TimeAssumption, WaitPays
    <2>5. d * Rate \in Nat /\ d * Rate >= wait * Rate
        <3>1. PICK e \in Nat : d = wait + e
            <4>1. d - wait \in Nat /\ d = wait + (d - wait)
                BY <2>3, <2>4
            <4> QED  BY <4>1
        <3>2. (wait + e) * Rate = wait * Rate + e * Rate /\ e * Rate \in Nat /\ wait * Rate \in Nat
            BY <2>1, <2>3, <3>1
        <3> QED  BY <3>1, <3>2
    <2>6. Level >= AtMostCapacity(d * Rate)
        BY DEF WaitPays
    <2>7. Level \in Nat
        BY LevelType, BucketAssumption DEF IInv, BucketAssumption
    <2> HIDE DEF wait, d
    <2> QED
        BY <2>2, <2>3, <2>5, <2>6, <2>7, BucketAssumption DEF AtMostCapacity, BucketAssumption
<1> QED  BY <1>1, <1>2, NextWaitPays, Invariance, PTL DEF Spec

-------------------------------------------------------------------------------
(* The bucket gateways share.                                              *)

\* What a client was granted for nothing from each time on: the bucket it was given
\* full, and again in each crash that lost it, with the time the clocks are apart.
SharedGrant == [s \in Times |-> Capacity + losses[s] * (Capacity + Rate * Skew)]
OwnGrant == [s \in Times |-> Capacity]

\* At true time t the n requests since s leave room for a full bucket.
Room(n, s, t, granted) == Cost * n + Capacity <= granted + Rate * (t - s)

\* Bucket b, whose clocks are at least `ahead` of the true time, has paid for the n
\* requests since s: by the clock of its last refill.
PaysFor(b, n, s, ahead, granted) ==
    /\ s + ahead <= b.last_refill
    /\ Cost * n + b.tokens <= granted + Rate * (b.last_refill - ahead - s)

Pays(b, count, ahead, grant) ==
    \A s \in Times : count[s] > 0 => PaysFor(b, count[s], s, ahead, grant[s])

\* What was admitted is paid for, or leaves room for any bucket: whether there is
\* none, or an old one came back.
Funded(b, count, ahead, t, grant) ==
    \A s \in Times :
        count[s] > 0 =>
            /\ s <= t
            /\ \/ Room(count[s], s, t, grant[s])
               \/ b # Absent /\ PaysFor(b, count[s], s, ahead, grant[s])

\* The key outlives its last refill by the time to live, but for the clocks.
Kept(b, until) ==
    b # Absent => /\ until <= real + TimeToLive
                  /\ b.last_refill + TimeToLive <= until + Skew

RedisInv ==
    /\ RedisTypeOK
    /\ Funded(stored, since_shared, 0, real, SharedGrant)
    /\ Kept(stored, expires) /\ Kept(saved.stored, saved.expires)
    /\ \A g \in Gateways :
           /\ Funded(local[g], since_local[g], offset[g], real, OwnGrant)
           /\ local[g] # Absent => local[g].last_refill <= real + offset[g]

LEMMA RedisConstants ==
    /\ Capacity \in Nat /\ Rate \in Nat \ {0} /\ Cost \in Nat \ {0} /\ Cost <= Capacity
    /\ MaxTime \in Nat /\ Skew \in Nat /\ TimeToLive \in Nat
    /\ Absent \notin SkewedBucket
<1>1. /\ Capacity \in Nat /\ MaxTime \in Nat /\ Skew \in Nat
      /\ Absent \notin [tokens : Int, last_refill : Int]
    BY BucketAssumption, TimeAssumption, RedisAssumption
       DEF BucketAssumption, TimeAssumption, RedisAssumption
<1>2. \A b \in SkewedBucket : b \in [tokens : Int, last_refill : Int]
    BY <1>1 DEF SkewedBucket
<1> QED
    BY <1>1, <1>2, BucketAssumption, RedisAssumption DEF BucketAssumption, RedisAssumption

\* Grants are of a bucket at least, and each loss grants that much and the skew more.
LEMMA Grants ==
    ASSUME RedisTypeOK
    PROVE  /\ \A s \in Times :
                 /\ SharedGrant[s] \in Nat /\ SharedGrant[s] >= Capacity
                 /\ OwnGrant[s] = Capacity /\ OwnGrant[s] \in Nat
           /\ \A s \in Times :
                 losses'[s] = losses[s] => SharedGrant'[s] = SharedGrant[s]
           /\ \A s \in Times :
                 losses'[s] = losses[s] + 1
                     => SharedGrant'[s] = SharedGrant[s] + Capacity + Rate * Skew
<1> DEFINE more == Capacity + Rate * Skew
<1>1. /\ Capacity \in Nat /\ Rate * Skew \in Nat /\ more \in Nat
      /\ losses \in [Times -> Nat]
    <2>1. Capacity \in Nat /\ Rate \in Nat /\ Skew \in Nat
        BY RedisConstants
    <2>2. Rate * Skew \in Nat
        BY <2>1, Products
    <2>3. losses \in [Times -> Nat]
        BY DEF RedisTypeOK
    <2> QED  BY <2>1, <2>2, <2>3
<1> HIDE DEF more
<1>2. /\ SharedGrant = [s \in Times |-> Capacity + losses[s] * more]
      /\ SharedGrant' = [s \in Times |-> Capacity + losses'[s] * more]
    BY DEF SharedGrant, more
<1>3. ASSUME NEW s \in Times
      PROVE  /\ losses[s] \in Nat /\ losses[s] * more \in Nat
             /\ (losses[s] + 1) * more = losses[s] * more + more
    <2>1. losses[s] \in Nat
        BY <1>1
    <2>2. /\ more * losses[s] \in Nat /\ more * (losses[s] + 1) = more * losses[s] + more
          /\ losses[s] * more = more * losses[s]
        BY <1>1, <2>1, Products
    <2>3. (losses[s] + 1) * more = more * (losses[s] + 1)
        <3>1. losses[s] + 1 \in Nat
            BY <2>1
        <3> QED  BY <1>1, <3>1, Products
    <2> QED  BY <2>1, <2>2, <2>3
<1>4. \A s \in Times :
          /\ SharedGrant[s] \in Nat /\ SharedGrant[s] >= Capacity
          /\ OwnGrant[s] = Capacity /\ OwnGrant[s] \in Nat
    BY <1>1, <1>2, <1>3 DEF OwnGrant
<1>5. ASSUME NEW s \in Times, losses'[s] = losses[s]
      PROVE  SharedGrant'[s] = SharedGrant[s]
    BY <1>2, <1>5
<1>6. ASSUME NEW s \in Times, losses'[s] = losses[s] + 1
      PROVE  SharedGrant'[s] = SharedGrant[s] + Capacity + Rate * Skew
    <2>1. SharedGrant'[s] = Capacity + (losses[s] * more + more)
        BY <1>2, <1>3, <1>6
    <2>2. SharedGrant[s] = Capacity + losses[s] * more
        BY <1>2
    <2>3. SharedGrant'[s] = SharedGrant[s] + more
        <3> DEFINE lost == losses[s] * more
        <3>1. lost \in Nat
            BY <1>3
        <3> HIDE DEF lost
        <3>2. SharedGrant'[s] = Capacity + (lost + more) /\ SharedGrant[s] = Capacity + lost
            BY <2>1, <2>2 DEF lost
        <3> QED  BY <1>1, <3>1, <3>2
    <2>4. SharedGrant[s] \in Nat
        BY <1>4
    <2> QED  BY <1>1, <2>3, <2>4 DEF more
<1> QED  BY <1>4, <1>5, <1>6

\* Where there is room for any bucket, a bucket that is refilled now pays.
LEMMA RoomPays ==
    ASSUME NEW b \in SkewedBucket, NEW n \in Nat, NEW s \in Times, NEW t \in Times,
           NEW ahead \in 0 .. Skew, NEW granted \in Nat,
           s <= t, t + ahead <= b.last_refill, Room(n, s, t, granted)
    PROVE  PaysFor(b, n, s, ahead, granted)
<1> DEFINE early == t - s
           late == b.last_refill - ahead - s
<1>1. /\ s \in Nat /\ t \in Nat /\ ahead \in Nat /\ b.last_refill \in Nat
      /\ b.tokens \in Nat /\ b.tokens <= Capacity
      /\ Capacity \in Nat /\ Rate \in Nat /\ Cost \in Nat
    BY RedisConstants DEF Times, SkewedBucket
<1>2. early \in Nat /\ late \in Nat /\ early <= late /\ s + ahead <= b.last_refill
    BY <1>1
<1>3. Cost * n + Capacity <= granted + Rate * early
    BY DEF Room
<1> HIDE DEF early, late
<1>4. Rate * early \in Nat /\ Rate * late \in Nat /\ Rate * early <= Rate * late
    BY <1>1, <1>2, Sums
<1>5. Cost * n \in Nat
    BY <1>1, Products
<1> DEFINE spent == Cost * n
<1> HIDE DEF spent
<1>6. spent + b.tokens <= granted + Rate * late
    BY <1>1, <1>3, <1>4, <1>5 DEF spent
<1> QED  BY <1>2, <1>6 DEF PaysFor, late, spent

\* A refill pays for the time since the last one; a clock that is behind adds
\* nothing (rate_limit.py:295-298).
LEMMA RefillPays ==
    ASSUME NEW b \in SkewedBucket, NEW n \in Nat, NEW s \in Times, NEW ahead \in 0 .. Skew,
           NEW granted \in Nat, NEW clock \in 0 .. MaxTime + Skew,
           PaysFor(b, n, s, ahead, granted)
    PROVE  PaysFor(Refilled(b, clock), n, s, ahead, granted)
<1>1. CASE ~(clock > b.last_refill)
    BY <1>1 DEF Refilled
<1>2. CASE clock > b.last_refill
    <2> DEFINE tokens == AtMostCapacity(b.tokens + (clock - b.last_refill) * Rate)
               d == clock - b.last_refill
               e == b.last_refill - ahead - s
    <2>1. /\ b.tokens \in Nat /\ b.last_refill \in Nat /\ clock \in Nat /\ d \in Nat
          /\ ahead \in Nat /\ Capacity \in Nat /\ Rate \in Nat /\ Cost \in Nat /\ s \in Nat
        BY <1>2, RedisConstants DEF SkewedBucket, Times
    <2>2. d * Rate = Rate * d /\ Rate * d \in Nat
        BY <2>1, Products
    <2>3. tokens \in 0 .. Capacity /\ tokens <= b.tokens + Rate * d /\ tokens \in Nat
        BY <2>1, <2>2 DEF AtMostCapacity
    <2>4. Refilled(b, clock) = [tokens |-> tokens, last_refill |-> clock]
        BY <1>2 DEF Refilled
    <2>5. s + ahead <= b.last_refill /\ Cost * n + b.tokens <= granted + Rate * e
        BY DEF PaysFor
    <2>6. e \in Nat /\ clock - ahead - s = e + d /\ s + ahead <= clock
        BY <1>2, <2>1, <2>5
    <2> HIDE DEF tokens, d, e
    <2>7. Rate * (e + d) = Rate * e + Rate * d /\ Rate * e \in Nat
        BY <2>1, <2>6, Sums
    <2>8. Cost * n \in Nat
        BY <2>1, Products
    <2> DEFINE spent == Cost * n
    <2> HIDE DEF spent
    <2>9. spent + tokens <= granted + Rate * (e + d)
        BY <2>1, <2>2, <2>3, <2>5, <2>7, <2>8 DEF spent
    <2> QED  BY <2>4, <2>6, <2>9 DEF PaysFor, spent
<1> QED  BY <1>1, <1>2

\* The bucket a request finds: a full one if it is the first (rate_limit.py:285-293),
\* refilled to its clock.
LEMMA RefilledPays ==
    ASSUME NEW b \in SkewedBucket \cup {Absent}, NEW count \in [Times -> Nat],
           NEW ahead \in 0 .. Skew, NEW t \in Times, NEW clock \in 0 .. MaxTime + Skew,
           NEW grant, \A s \in Times : grant[s] \in Nat,
           t + ahead <= clock, Funded(b, count, ahead, t, grant)
    PROVE  /\ Refilled(Opened(b, clock), clock) \in SkewedBucket
           /\ Pays(Refilled(Opened(b, clock), clock), count, ahead, grant)
           /\ t + ahead <= Refilled(Opened(b, clock), clock).last_refill
           /\ \/ Refilled(Opened(b, clock), clock).last_refill = clock
              \/ b # Absent
                 /\ Refilled(Opened(b, clock), clock).last_refill = b.last_refill
<1> DEFINE open == Opened(b, clock)
           full == Refilled(open, clock)
<1>1. /\ open \in SkewedBucket
      /\ b = Absent => open.last_refill = clock
      /\ b # Absent => open = b
    BY RedisConstants DEF Opened, SkewedBucket
<1> HIDE DEF open
<1>2. /\ full \in SkewedBucket
      /\ full.last_refill = IF clock > open.last_refill THEN clock ELSE open.last_refill
    <2>1. CASE ~(clock > open.last_refill)
        BY <1>1, <2>1 DEF Refilled
    <2>2. CASE clock > open.last_refill
        <3> DEFINE tokens == AtMostCapacity(open.tokens + (clock - open.last_refill) * Rate)
                   d == clock - open.last_refill
        <3>1. /\ open.tokens \in Nat /\ d \in Nat /\ Capacity \in Nat /\ Rate \in Nat
            BY <1>1, <2>2, RedisConstants DEF SkewedBucket
        <3>2. d * Rate \in Nat
            BY <3>1, Products
        <3>3. tokens \in 0 .. Capacity
            BY <3>1, <3>2 DEF AtMostCapacity
        <3>4. full = [tokens |-> tokens, last_refill |-> clock]
            BY <2>2 DEF Refilled
        <3> HIDE DEF tokens, full
        <3> QED  BY <2>2, <3>3, <3>4 DEF SkewedBucket
    <2> QED  BY <2>1, <2>2
<1>3. /\ open.last_refill \in Nat /\ clock \in Nat /\ t \in Nat /\ ahead \in Nat
    BY <1>1, RedisConstants DEF SkewedBucket, Times
<1>4. t + ahead <= full.last_refill
    BY <1>2, <1>3
<1>5. ASSUME NEW s \in Times, count[s] > 0
      PROVE  PaysFor(full, count[s], s, ahead, grant[s])
    <2>1. /\ count[s] \in Nat /\ grant[s] \in Nat /\ s <= t
          /\ \/ Room(count[s], s, t, grant[s])
             \/ b # Absent /\ PaysFor(b, count[s], s, ahead, grant[s])
        BY <1>5 DEF Funded
    <2>2. CASE Room(count[s], s, t, grant[s])
        BY <1>2, <1>4, <2>1, <2>2, RoomPays
    <2>3. CASE b # Absent /\ PaysFor(b, count[s], s, ahead, grant[s])
        BY <1>1, <2>1, <2>3, RefillPays
    <2> QED  BY <2>1, <2>2, <2>3
<1>6. Pays(full, count, ahead, grant)
    BY <1>5 DEF Pays
<1>7. \/ full.last_refill = clock
      \/ b # Absent /\ full.last_refill = b.last_refill
    BY <1>1, <1>2
<1> QED  BY <1>2, <1>4, <1>6, <1>7 DEF open

\* A request takes a token for each one counted from now on (rate_limit.py:300-305).
LEMMA TakenPays ==
    ASSUME NEW b \in SkewedBucket, NEW count \in [Times -> Nat], NEW ahead \in 0 .. Skew,
           NEW t \in Times, NEW grant,
           \A s \in Times : grant[s] \in Nat /\ grant[s] >= Capacity,
           t + ahead <= b.last_refill, Pays(b, count, ahead, grant)
    PROVE  /\ Taken(b) \in SkewedBucket /\ Taken(b).last_refill = b.last_refill
           /\ Pays(Taken(b), count, ahead, grant)
           /\ Allows(b) => Pays(Taken(b), OneMore(count, t), ahead, grant)
<1>1. CASE ~Allows(b)
    BY <1>1 DEF Taken
<1>2. CASE Allows(b)
    <2> DEFINE left == b.tokens - Cost
               more == OneMore(count, t)
    <2>1. /\ b.tokens \in 0 .. Capacity /\ b.last_refill \in Nat /\ ahead \in Nat /\ t \in Nat
          /\ Capacity \in Nat /\ Rate \in Nat /\ Cost \in Nat \ {0}
        BY RedisConstants DEF SkewedBucket, Times
    <2>2. left \in 0 .. Capacity /\ left \in Nat /\ b.tokens >= Cost
        BY <1>2, <2>1 DEF Allows
    <2>3. Taken(b) = [b EXCEPT !.tokens = left]
        BY <1>2 DEF Taken
    <2>4. /\ Taken(b) \in SkewedBucket /\ Taken(b).tokens = left
          /\ Taken(b).last_refill = b.last_refill
        BY <2>2, <2>3 DEF SkewedBucket
    <2>5. ASSUME NEW s \in Times, NEW n \in Nat, n > 0,
                 n = count[s] \/ (s <= t /\ n = count[s] + 1)
          PROVE  /\ s + ahead <= b.last_refill
                 /\ Cost * n + left <= grant[s] + Rate * (b.last_refill - ahead - s)
        <3>1. count[s] \in Nat /\ s \in Nat /\ grant[s] \in Nat /\ grant[s] >= Capacity
            BY <2>1, RedisConstants DEF Times
        <3>2. s + ahead <= b.last_refill
            BY <2>1, <2>5, <3>1 DEF Pays, PaysFor
        <3> DEFINE e == Rate * (b.last_refill - ahead - s)
        <3>3. e \in Nat
            BY <2>1, <3>1, <3>2, Products
        <3>4. /\ Cost * (count[s] + 1) = Cost * count[s] + Cost
              /\ Cost * count[s] \in Nat /\ Cost * 0 = 0
            BY <2>1, <3>1, Products
        <3>5. count[s] > 0 => Cost * count[s] + b.tokens <= grant[s] + e
            BY DEF Pays, PaysFor
        <3>6. Cost * count[s] + b.tokens <= grant[s] + e
            <4>1. CASE count[s] > 0
                BY <3>5, <4>1
            <4>2. CASE count[s] = 0
                <5>1. Cost * count[s] = 0
                    BY <3>4, <4>2
                <5> QED  BY <2>1, <3>1, <3>3, <5>1
            <4> QED  BY <3>1, <4>1, <4>2
        <3>7. Cost * n <= Cost * count[s] + Cost /\ Cost * n \in Nat
            BY <2>1, <2>5, <3>1, <3>4
        <3> HIDE DEF e
        <3>8. Cost * n + left <= grant[s] + e
            BY <2>1, <2>2, <3>1, <3>3, <3>4, <3>6, <3>7
        <3> QED  BY <3>2, <3>8 DEF e
    <2>6. \A s \in Times : count[s] \in Nat
        OBVIOUS
    <2>7. Pays(Taken(b), count, ahead, grant)
        <3>1. ASSUME NEW s \in Times, count[s] > 0
              PROVE  /\ s + ahead <= b.last_refill
                     /\ Cost * count[s] + left <= grant[s] + Rate * (b.last_refill - ahead - s)
            BY <2>5, <2>6, <3>1
        <3> QED  BY <2>4, <3>1 DEF Pays, PaysFor
    <2>8. \A s \in Times :
              /\ more[s] \in Nat
              /\ more[s] = count[s] \/ (s <= t /\ more[s] = count[s] + 1)
        BY <2>6 DEF OneMore
    <2> HIDE DEF more
    <2>9. Pays(Taken(b), more, ahead, grant)
        <3>1. ASSUME NEW s \in Times, more[s] > 0
              PROVE  /\ s + ahead <= b.last_refill
                     /\ Cost * more[s] + left <= grant[s] + Rate * (b.last_refill - ahead - s)
            BY <2>5, <2>8, <3>1
        <3> QED  BY <2>4, <3>1 DEF Pays, PaysFor
    <2> QED  BY <2>4, <2>7, <2>9 DEF more
<1> QED  BY <1>1, <1>2

\* The script keeps the books, whether its reply reaches the gateway or not.
LEMMA ConsumedFunded ==
    ASSUME NEW b \in SkewedBucket \cup {Absent}, NEW count \in [Times -> Nat],
           NEW ahead \in 0 .. Skew, NEW t \in Times, NEW clock \in 0 .. MaxTime + Skew,
           NEW grant, \A s \in Times : grant[s] \in Nat /\ grant[s] >= Capacity,
           t + ahead <= clock, Funded(b, count, ahead, t, grant)
    PROVE  /\ Consumed(b, clock) \in SkewedBucket
           /\ Funded(Consumed(b, clock), count, ahead, t, grant)
           /\ Answer(b, clock) = "allowed" =>
                  Funded(Consumed(b, clock), OneMore(count, t), ahead, t, grant)
           /\ \/ Consumed(b, clock).last_refill = clock
              \/ b # Absent /\ Consumed(b, clock).last_refill = b.last_refill
<1> DEFINE full == Refilled(Opened(b, clock), clock)
           next == Taken(full)
           more == OneMore(count, t)
<1>1. /\ full \in SkewedBucket /\ Pays(full, count, ahead, grant)
      /\ t + ahead <= full.last_refill
      /\ \/ full.last_refill = clock
         \/ b # Absent /\ full.last_refill = b.last_refill
    BY RefilledPays
<1>2. Consumed(b, clock) = next /\ (Answer(b, clock) = "allowed" <=> Allows(full))
    BY DEF Consumed, Answer
<1> HIDE DEF full
<1>3. /\ next \in SkewedBucket /\ next.last_refill = full.last_refill
      /\ Pays(next, count, ahead, grant)
      /\ Allows(full) => Pays(next, more, ahead, grant)
    BY <1>1, TakenPays
<1>4. next # Absent
    BY <1>3, RedisConstants
<1>5. \A s \in Times :
          /\ count[s] > 0 => s <= t
          /\ more[s] > 0 => s <= t
    BY DEF Funded, OneMore
<1> HIDE DEF next, more
<1>6. /\ Funded(next, count, ahead, t, grant)
      /\ Allows(full) => Funded(next, more, ahead, t, grant)
    BY <1>3, <1>4, <1>5 DEF Funded, Pays
<1> QED  BY <1>1, <1>2, <1>3, <1>6 DEF more

\* Time makes room for a bucket that has not paid by its own clock.
LEMMA LaterFunded ==
    ASSUME NEW b, NEW count \in [Times -> Nat], NEW ahead, NEW t \in Nat, NEW later \in Nat,
           NEW grant, \A s \in Times : grant[s] \in Nat,
           t <= later, Funded(b, count, ahead, t, grant)
    PROVE  Funded(b, count, ahead, later, grant)
<1>1. ASSUME NEW s \in Times, s <= t, Room(count[s], s, t, grant[s])
      PROVE  Room(count[s], s, later, grant[s])
    <2> DEFINE early == t - s
               late == later - s
               spent == Cost * count[s]
    <2>1. /\ early \in Nat /\ late \in Nat /\ early <= late
          /\ Rate \in Nat /\ Cost \in Nat /\ count[s] \in Nat /\ Capacity \in Nat
          /\ grant[s] \in Nat
        BY <1>1, RedisConstants DEF Times
    <2>2. spent + Capacity <= grant[s] + Rate * early
        BY <1>1 DEF Room
    <2>3. spent \in Nat
        BY <2>1, Products
    <2> HIDE DEF early, late, spent
    <2>4. Rate * early \in Nat /\ Rate * late \in Nat /\ Rate * early <= Rate * late
        BY <2>1, Sums
    <2>5. spent + Capacity <= grant[s] + Rate * late
        BY <2>1, <2>2, <2>3, <2>4
    <2> QED  BY <2>5 DEF Room, late, spent
<1>2. ASSUME NEW s \in Times, count[s] > 0
      PROVE  /\ s <= later
             /\ \/ Room(count[s], s, later, grant[s])
                \/ b # Absent /\ PaysFor(b, count[s], s, ahead, grant[s])
    <2>1. /\ s <= t
          /\ \/ Room(count[s], s, t, grant[s])
             \/ b # Absent /\ PaysFor(b, count[s], s, ahead, grant[s])
        BY <1>2 DEF Funded
    <2>2. s <= later
        BY <2>1, RedisConstants DEF Times
    <2> QED  BY <1>1, <2>1, <2>2
<1> QED  BY <1>2 DEF Funded

\* A key that has expired was a bucket that had filled: the time to live is what
\* filling takes, and the clocks are apart, and more (rate_limit.py:307-312).
LEMMA ExpiryLeavesRoom ==
    ASSUME NEW b \in SkewedBucket, NEW n \in Nat, NEW s \in Times, NEW t \in Times,
           NEW granted \in Nat, PaysFor(b, n, s, 0, granted),
           b.last_refill + TimeToLive <= t + Skew
    PROVE  Room(n, s, t, granted)
<1>1. /\ b.tokens \in Nat /\ b.last_refill \in Nat /\ t \in Nat /\ s \in Nat
      /\ Capacity \in Nat /\ Rate \in Nat \ {0} /\ Cost \in Nat \ {0} /\ Cost <= Capacity
      /\ Skew \in Nat /\ TimeToLive \in Nat
    BY RedisConstants DEF SkewedBucket, Times
<1>2. Capacity + Rate * Skew <= Rate * TimeToLive
    BY <1>1, Products, SkewAssumption DEF SkewAssumption
<1>3. Skew <= TimeToLive
    <2> SUFFICES ASSUME TimeToLive <= Skew  PROVE Skew <= TimeToLive
        BY <1>1
    <2>1. Rate * TimeToLive <= Rate * Skew
        BY <1>1, Sums
    <2>2. Rate * TimeToLive \in Nat /\ Rate * Skew \in Nat
        BY <1>1, Sums
    <2> QED  BY <1>1, <1>2, <2>1, <2>2
<1> DEFINE d == TimeToLive - Skew
           gap == t - b.last_refill
           e == b.last_refill - s
           spent == Cost * n
<1>4. d \in Nat /\ gap \in Nat /\ d <= gap /\ TimeToLive = Skew + d
    BY <1>1, <1>3
<1>5. Capacity <= Rate * gap /\ Rate * gap \in Nat
    <2>1. /\ Rate * (Skew + d) = Rate * Skew + Rate * d /\ Rate * d <= Rate * gap
          /\ Rate * d \in Nat /\ Rate * Skew \in Nat /\ Rate * gap \in Nat
        BY <1>1, <1>4, Sums
    <2>2. Capacity + Rate * Skew <= Rate * Skew + Rate * d
        BY <1>2, <1>4, <2>1
    <2> QED  BY <1>1, <2>1, <2>2
<1>6. s + 0 <= b.last_refill /\ spent + b.tokens <= granted + Rate * (b.last_refill - 0 - s)
    BY DEF PaysFor
<1>7. e \in Nat /\ t - s = e + gap /\ b.last_refill - 0 - s = e
    BY <1>1, <1>4, <1>6
<1>8. Rate * (e + gap) = Rate * e + Rate * gap /\ Rate * e \in Nat
    BY <1>1, <1>4, <1>7, Sums
<1>9. spent \in Nat
    BY <1>1, Products
<1>10. spent + b.tokens <= granted + Rate * e
    BY <1>6, <1>7
<1> HIDE DEF e, spent, gap
<1>11. spent + Capacity <= granted + Rate * (e + gap)
    BY <1>1, <1>5, <1>8, <1>9, <1>10
<1> QED  BY <1>7, <1>11 DEF Room, spent

\* What a crash that loses grants anew makes room for any bucket: the one that was
\* lost was refilled by a clock at most the skew ahead (docker-compose.yml:83-90).
LEMMA LossLeavesRoom ==
    ASSUME NEW b \in SkewedBucket, NEW n \in Nat, NEW s \in Times, NEW t \in Times,
           NEW granted \in Nat, s <= t,
           \/ Room(n, s, t, granted)
           \/ b.last_refill <= t + Skew /\ PaysFor(b, n, s, 0, granted)
    PROVE  Room(n, s, t, granted + Capacity + Rate * Skew)
<1> DEFINE early == t - s
           e == b.last_refill - s
           spent == Cost * n
<1>1. /\ b.tokens \in Nat /\ b.last_refill \in Nat /\ t \in Nat /\ s \in Nat /\ early \in Nat
      /\ Capacity \in Nat /\ Rate \in Nat /\ Cost \in Nat /\ Skew \in Nat
    BY RedisConstants DEF SkewedBucket, Times
<1>2. /\ Rate * (early + Skew) = Rate * early + Rate * Skew
      /\ Rate * early \in Nat /\ Rate * Skew \in Nat
    BY <1>1, Sums
<1>3. spent \in Nat
    BY <1>1, Products
<1>4. CASE Room(n, s, t, granted)
    <2>1. spent + Capacity <= granted + Rate * early
        BY <1>4 DEF Room
    <2> HIDE DEF spent, early
    <2>2. spent + Capacity <= granted + Capacity + Rate * Skew + Rate * early
        BY <1>1, <1>2, <1>3, <2>1
    <2> QED  BY <2>2 DEF Room, spent, early
<1>5. CASE b.last_refill <= t + Skew /\ PaysFor(b, n, s, 0, granted)
    <2>1. /\ s + 0 <= b.last_refill
          /\ spent + b.tokens <= granted + Rate * (b.last_refill - 0 - s)
        BY <1>5 DEF PaysFor
    <2>2. e \in Nat /\ b.last_refill - 0 - s = e /\ e <= early + Skew
        BY <1>1, <1>5, <2>1
    <2>3. Rate * e <= Rate * (early + Skew) /\ Rate * e \in Nat
        <3>1. early + Skew \in Nat
            BY <1>1
        <3> QED  BY <1>1, <2>2, <3>1, Sums
    <2>4. spent + b.tokens <= granted + Rate * e
        BY <2>1, <2>2
    <2> HIDE DEF spent, early, e
    <2>5. spent + Capacity <= granted + Capacity + Rate * Skew + Rate * early
        BY <1>1, <1>2, <1>3, <2>3, <2>4
    <2> QED  BY <2>5 DEF Room, spent, early
<1> QED  BY <1>4, <1>5

-------------------------------------------------------------------------------

\* No bucket, and nothing admitted.
LEMMA InitRedis == RedisInit => RedisInv
<1> SUFFICES ASSUME RedisInit  PROVE RedisInv
    OBVIOUS
<1>1. RedisTypeOK
    <2>1. /\ real \in Times /\ expires \in 0 .. MaxTime + TimeToLive
          /\ since_shared \in [Times -> Nat] /\ losses \in [Times -> Nat]
          /\ since_local \in [Gateways -> [Times -> Nat]]
        BY RedisConstants DEF RedisInit, Times
    <2>2. /\ offset \in [Gateways -> 0 .. Skew] /\ stored \in SkewedBucket \cup {Absent}
          /\ backend \in [Gateways -> {"none", "redis", "memory"}]
          /\ local \in [Gateways -> SkewedBucket \cup {Absent}]
          /\ redis \in {"up", "down"} /\ cached \in BOOLEAN
          /\ sha \subseteq Gateways /\ failing \subseteq Gateways
        BY DEF RedisInit
    <2>3. saved \in [stored : SkewedBucket \cup {Absent}, expires : 0 .. MaxTime + TimeToLive]
        BY <2>1, <2>2 DEF RedisInit, Snapshot
    <2> QED  BY <2>1, <2>2, <2>3 DEF RedisTypeOK
<1>2. \A s \in Times : since_shared[s] = 0 /\ \A g \in Gateways : since_local[g][s] = 0
    BY DEF RedisInit
<1>3. /\ Funded(stored, since_shared, 0, real, SharedGrant)
      /\ \A g \in Gateways : Funded(local[g], since_local[g], offset[g], real, OwnGrant)
    BY <1>2 DEF Funded
<1>4. stored = Absent /\ saved.stored = Absent /\ \A g \in Gateways : local[g] = Absent
    BY DEF RedisInit, Snapshot
<1> QED  BY <1>1, <1>3, <1>4 DEF RedisInv, Kept

\* The clock of a gateway, when it consumes.
LEMMA ClockType ==
    ASSUME RedisTypeOK, NEW g \in Gateways
    PROVE  /\ Clock(g) \in 0 .. MaxTime + Skew /\ Clock(g) <= real + Skew
           /\ real + 0 <= Clock(g) /\ real + offset[g] <= Clock(g)
           /\ real \in Times /\ offset[g] \in 0 .. Skew /\ 0 \in 0 .. Skew
BY RedisConstants DEF RedisTypeOK, Clock, Times

LEMMA AdmittedType ==
    ASSUME RedisTypeOK, NEW count \in [Times -> Nat], NEW b, NEW g \in Gateways
    PROVE  Admitted(count, b, g) \in [Times -> Nat]
BY DEF Admitted, OneMore

\* What the shared bucket has paid for depends on no more than this.
LEMMA SharedUnchanged ==
    ASSUME RedisInv, stored' = stored, expires' = expires, saved' = saved, real' = real,
           since_shared' = since_shared, losses' = losses
    PROVE  /\ Funded(stored, since_shared, 0, real, SharedGrant)'
           /\ Kept(stored, expires)' /\ Kept(saved.stored, saved.expires)'
BY DEF RedisInv, Funded, Room, PaysFor, SharedGrant, Kept

\* And that of a gateway on its own.
LEMMA LocalUnchanged ==
    ASSUME RedisInv, local' = local, offset' = offset, real' = real,
           since_local' = since_local
    PROVE  \A g \in Gateways :
               /\ Funded(local[g], since_local[g], offset[g], real, OwnGrant)'
               /\ local'[g] # Absent => local'[g].last_refill <= real' + offset'[g]
BY DEF RedisInv, Funded, Room, PaysFor, OwnGrant

\* The shared bucket after a consume, whether it is counted or not.
LEMMA SharedConsumed ==
    ASSUME RedisInv, NEW g \in Gateways,
           stored' = Consumed(stored, Clock(g)), expires' = Lives, real' = real
    PROVE  /\ stored' \in SkewedBucket /\ expires' \in 0 .. MaxTime + TimeToLive
           /\ Funded(stored', since_shared, 0, real, SharedGrant)
           /\ Funded(stored', Admitted(since_shared, stored, g), 0, real, SharedGrant)
           /\ Kept(stored, expires)'
<1>1. /\ stored \in SkewedBucket \cup {Absent} /\ since_shared \in [Times -> Nat]
      /\ real \in Nat /\ real <= MaxTime
      /\ \A s \in Times : SharedGrant[s] \in Nat /\ SharedGrant[s] >= Capacity
    <2>1. RedisTypeOK
        BY DEF RedisInv
    <2>2. \A s \in Times : SharedGrant[s] \in Nat /\ SharedGrant[s] >= Capacity
        BY <2>1, Grants
    <2> QED  BY <2>1, <2>2, RedisConstants DEF RedisTypeOK, Times
<1>2. Funded(stored, since_shared, 0, real, SharedGrant)
    BY DEF RedisInv
<1>3. /\ Clock(g) \in 0 .. MaxTime + Skew /\ Clock(g) <= real + Skew
      /\ real + 0 <= Clock(g) /\ real \in Times /\ 0 \in 0 .. Skew
    BY ClockType DEF RedisInv
<1>4. /\ stored' \in SkewedBucket
      /\ Funded(stored', since_shared, 0, real, SharedGrant)
      /\ Answer(stored, Clock(g)) = "allowed" =>
             Funded(stored', OneMore(since_shared, real), 0, real, SharedGrant)
      /\ \/ stored'.last_refill = Clock(g)
         \/ stored # Absent /\ stored'.last_refill = stored.last_refill
    <2> HIDE DEF SharedGrant
    <2> QED  BY <1>1, <1>2, <1>3, ConsumedFunded
<1>5. Funded(stored', Admitted(since_shared, stored, g), 0, real, SharedGrant)
    BY <1>4 DEF Admitted
<1>6. expires' = real + TimeToLive
    BY DEF Lives
<1>7. stored'.last_refill <= real + Skew
    <2>1. stored # Absent =>
              /\ stored.last_refill \in Nat /\ expires \in Nat
              /\ expires <= real + TimeToLive
              /\ stored.last_refill + TimeToLive <= expires + Skew
        BY RedisConstants DEF RedisInv, RedisTypeOK, SkewedBucket, Kept
    <2> QED  BY <1>1, <1>3, <1>4, <2>1, RedisConstants
<1>8. stored'.last_refill \in Nat
    BY <1>4, RedisConstants DEF SkewedBucket
<1>9. Kept(stored, expires)'
    BY <1>1, <1>6, <1>7, <1>8, RedisConstants DEF Kept
<1> QED  BY <1>1, <1>4, <1>5, <1>6, <1>9, RedisConstants

LEMMA ConsumeSharedKept ==
    ASSUME RedisInv, NEW g \in Gateways, ConsumeShared(g)
    PROVE  RedisInv'
<1>1. /\ stored' = Consumed(stored, Clock(g)) /\ expires' = Lives /\ real' = real
      /\ since_shared' = Admitted(since_shared, stored, g)
      /\ sha' = sha \cup {g} /\ cached' = TRUE /\ failing' = failing \ {g}
      /\ offset' = offset /\ backend' = backend /\ local' = local /\ redis' = redis
      /\ since_local' = since_local /\ saved' = saved /\ losses' = losses
    BY DEF ConsumeShared
<1>2. /\ stored' \in SkewedBucket /\ expires' \in 0 .. MaxTime + TimeToLive
      /\ Funded(stored', since_shared', 0, real, SharedGrant)
      /\ Kept(stored, expires)'
    BY <1>1, SharedConsumed
<1>3. since_shared' \in [Times -> Nat]
    BY <1>1, AdmittedType DEF RedisInv, RedisTypeOK
<1>4. RedisTypeOK'
    BY <1>1, <1>2, <1>3 DEF RedisInv, RedisTypeOK
<1>5. Funded(stored, since_shared, 0, real, SharedGrant)'
    BY <1>1, <1>2 DEF SharedGrant
<1>6. Kept(saved.stored, saved.expires)'
    BY <1>1 DEF RedisInv, Kept
<1> QED  BY <1>1, <1>2, <1>4, <1>5, <1>6, LocalUnchanged DEF RedisInv

\* What comes back after a crash was kept as long as it should be; and if anything
\* is lost, what that grants anew leaves room for it.
LEMMA RecoveredFunded ==
    ASSUME RedisInv, Recovered, real' = real, since_shared' = since_shared
    PROVE  /\ stored' \in SkewedBucket \cup {Absent} /\ expires' \in 0 .. MaxTime + TimeToLive
           /\ losses' \in [Times -> Nat] /\ saved' = saved
           /\ Funded(stored, since_shared, 0, real, SharedGrant)'
           /\ Kept(stored, expires)' /\ Kept(saved.stored, saved.expires)'
<1>1. RedisTypeOK /\ Kept(saved.stored, saved.expires)
    BY DEF RedisInv
<1>2. stored' = saved.stored /\ expires' = saved.expires /\ saved' = saved
    BY DEF Recovered
<1>3. /\ stored' \in SkewedBucket \cup {Absent} /\ expires' \in 0 .. MaxTime + TimeToLive
      /\ Kept(stored, expires)' /\ Kept(saved.stored, saved.expires)'
    BY <1>1, <1>2 DEF RedisTypeOK, Kept
<1>4. CASE saved = Snapshot /\ losses' = losses
    <2>1. stored' = stored
        BY <1>2, <1>4 DEF Snapshot
    <2>2. Funded(stored, since_shared, 0, real, SharedGrant)'
        BY <1>4, <2>1 DEF RedisInv, SharedGrant
    <2> QED  BY <1>1, <1>2, <1>3, <1>4, <2>2 DEF RedisTypeOK
<1>5. CASE losses' = OneMore(losses, real)
    <2>1. losses' \in [Times -> Nat] /\ real \in Times /\ since_shared \in [Times -> Nat]
        BY <1>1, <1>5 DEF RedisTypeOK, OneMore
    <2>2. ASSUME NEW s \in Times, since_shared[s] > 0
          PROVE  s <= real /\ Room(since_shared[s], s, real, SharedGrant'[s])
        <3>1. /\ s <= real
              /\ \/ Room(since_shared[s], s, real, SharedGrant[s])
                 \/ stored # Absent /\ PaysFor(stored, since_shared[s], s, 0, SharedGrant[s])
            BY <2>2 DEF RedisInv, Funded
        <3>2. losses'[s] = losses[s] + 1
            BY <1>5, <3>1 DEF OneMore
        <3>3. SharedGrant'[s] = SharedGrant[s] + Capacity + Rate * Skew
            BY <1>1, <3>2, Grants
        <3>4. SharedGrant[s] \in Nat /\ since_shared[s] \in Nat
            BY <1>1, <2>1, Grants
        <3>5. CASE Room(since_shared[s], s, real, SharedGrant[s])
            <4>1. [tokens |-> 0, last_refill |-> 0] \in SkewedBucket
                BY RedisConstants DEF SkewedBucket
            <4> HIDE DEF SharedGrant
            <4>2. Room(since_shared[s], s, real, SharedGrant[s] + Capacity + Rate * Skew)
                BY <2>1, <3>1, <3>4, <3>5, <4>1, LossLeavesRoom
            <4> QED  BY <3>1, <3>3, <4>2
        <3>6. CASE stored # Absent /\ PaysFor(stored, since_shared[s], s, 0, SharedGrant[s])
            <4>1. stored \in SkewedBucket /\ stored.last_refill <= real + Skew
                <5>1. /\ stored \in SkewedBucket /\ expires \in Nat /\ real \in Nat
                      /\ expires <= real + TimeToLive
                      /\ stored.last_refill + TimeToLive <= expires + Skew
                    BY <3>6, RedisConstants DEF RedisInv, RedisTypeOK, Kept, Times
                <5> QED  BY <5>1, RedisConstants DEF SkewedBucket
            <4> HIDE DEF SharedGrant
            <4>2. Room(since_shared[s], s, real, SharedGrant[s] + Capacity + Rate * Skew)
                BY <2>1, <3>1, <3>4, <3>6, <4>1, LossLeavesRoom
            <4> QED  BY <3>1, <3>3, <4>2
        <3> QED  BY <3>1, <3>5, <3>6
    <2>3. Funded(stored, since_shared, 0, real, SharedGrant)'
        BY <2>2 DEF Funded
    <2> QED  BY <1>2, <1>3, <2>1, <2>3
<1> QED  BY <1>4, <1>5 DEF Recovered

LEMMA CrashKept == ASSUME RedisInv, Crash  PROVE RedisInv'
<1>1. /\ Recovered /\ real' = real /\ offset' = offset /\ backend' = backend
      /\ local' = local /\ redis' = "down" /\ cached' = FALSE /\ sha' = sha
      /\ failing' = failing /\ since_shared' = since_shared /\ since_local' = since_local
    BY DEF Crash, GoesDown, history
<1>2. /\ stored' \in SkewedBucket \cup {Absent} /\ expires' \in 0 .. MaxTime + TimeToLive
      /\ losses' \in [Times -> Nat] /\ saved' = saved
      /\ Funded(stored, since_shared, 0, real, SharedGrant)'
      /\ Kept(stored, expires)' /\ Kept(saved.stored, saved.expires)'
    BY <1>1, RecoveredFunded
<1>3. RedisTypeOK'
    BY <1>1, <1>2 DEF RedisInv, RedisTypeOK
<1> QED  BY <1>1, <1>2, <1>3, LocalUnchanged DEF RedisInv

\* The script may have run although nobody hears of it.
LEMMA InterruptedKept ==
    ASSUME RedisInv, NEW g \in Gateways, Interrupted(g)
    PROVE  RedisInv'
<1>1. /\ real' = real /\ offset' = offset /\ backend' = backend /\ local' = local
      /\ redis' = "down" /\ cached' = FALSE /\ sha' = sha \cup {g}
      /\ failing' = failing \cup {g}
      /\ since_shared' = since_shared /\ since_local' = since_local
    BY DEF Interrupted, GoesDown, history
<1>2. /\ stored' \in SkewedBucket \cup {Absent} /\ expires' \in 0 .. MaxTime + TimeToLive
      /\ saved' \in [stored : SkewedBucket \cup {Absent}, expires : 0 .. MaxTime + TimeToLive]
      /\ losses' \in [Times -> Nat]
      /\ Funded(stored, since_shared, 0, real, SharedGrant)'
      /\ Kept(stored, expires)' /\ Kept(saved.stored, saved.expires)'
    <2>1. CASE Recovered
        BY <1>1, <2>1, RecoveredFunded DEF RedisInv, RedisTypeOK
    <2>2. CASE /\ saved' = Snapshot' /\ losses' = losses
               /\ \/ UNCHANGED shared
                  \/ stored' = Consumed(stored, Clock(g)) /\ expires' = Lives
        <3>1. /\ stored' \in SkewedBucket \cup {Absent}
              /\ expires' \in 0 .. MaxTime + TimeToLive
              /\ Funded(stored', since_shared, 0, real, SharedGrant)
              /\ Kept(stored, expires)'
            <4>1. CASE UNCHANGED shared
                BY <1>1, <4>1 DEF shared, RedisInv, RedisTypeOK, Kept
            <4>2. CASE stored' = Consumed(stored, Clock(g)) /\ expires' = Lives
                BY <1>1, <4>2, SharedConsumed
            <4> QED  BY <2>2, <4>1, <4>2
        <3>2. saved'.stored = stored' /\ saved'.expires = expires'
            BY <2>2 DEF Snapshot
        <3>3. saved' \in [stored : SkewedBucket \cup {Absent},
                          expires : 0 .. MaxTime + TimeToLive]
            BY <2>2, <3>1 DEF Snapshot
        <3>4. Kept(saved.stored, saved.expires)'
            BY <3>1, <3>2 DEF Kept
        <3>5. Funded(stored, since_shared, 0, real, SharedGrant)'
            BY <1>1, <2>2, <3>1 DEF SharedGrant
        <3>6. losses' \in [Times -> Nat]
            BY <2>2 DEF RedisInv, RedisTypeOK
        <3> QED  BY <3>1, <3>3, <3>4, <3>5, <3>6
    <2> QED  BY <2>1, <2>2 DEF Interrupted
<1>3. RedisTypeOK'
    BY <1>1, <1>2 DEF RedisInv, RedisTypeOK
<1> QED  BY <1>1, <1>2, <1>3, LocalUnchanged DEF RedisInv

\* A bucket of the gateway's own goes by one clock (rate_limit.py:388-397).
LEMMA ConsumeLocalKept ==
    ASSUME RedisInv, NEW g \in Gateways, ConsumeLocal(g)
    PROVE  RedisInv'
<1>1. /\ local' = [local EXCEPT ![g] = Consumed(local[g], Clock(g))]
      /\ since_local' = [since_local EXCEPT ![g] = Admitted(since_local[g], local[g], g)]
      /\ failing' = failing \ {g}
      /\ real' = real /\ offset' = offset /\ stored' = stored /\ expires' = expires
      /\ backend' = backend /\ redis' = redis /\ cached' = cached /\ sha' = sha
      /\ since_shared' = since_shared /\ saved' = saved /\ losses' = losses
    BY DEF ConsumeLocal, shared, server
<1>2. RedisTypeOK /\ \A s \in Times : OwnGrant[s] \in Nat /\ OwnGrant[s] >= Capacity
    BY Grants, RedisConstants DEF RedisInv
<1>3. /\ local[g] \in SkewedBucket \cup {Absent} /\ since_local[g] \in [Times -> Nat]
    BY <1>2 DEF RedisTypeOK
<1>4. Funded(local[g], since_local[g], offset[g], real, OwnGrant)
    BY DEF RedisInv
<1>5. /\ Clock(g) \in 0 .. MaxTime + Skew /\ real + offset[g] <= Clock(g)
      /\ real \in Times /\ offset[g] \in 0 .. Skew
    BY <1>2, ClockType
<1> DEFINE next == Consumed(local[g], Clock(g))
           more == Admitted(since_local[g], local[g], g)
<1>6. /\ next \in SkewedBucket
      /\ Funded(next, since_local[g], offset[g], real, OwnGrant)
      /\ Answer(local[g], Clock(g)) = "allowed" =>
             Funded(next, OneMore(since_local[g], real), offset[g], real, OwnGrant)
      /\ \/ next.last_refill = Clock(g)
         \/ local[g] # Absent /\ next.last_refill = local[g].last_refill
    BY <1>2, <1>3, <1>4, <1>5, ConsumedFunded
<1>7. Funded(next, more, offset[g], real, OwnGrant)
    BY <1>6 DEF Admitted
<1>8. next.last_refill <= real + offset[g]
    BY <1>5, <1>6, RedisConstants DEF RedisInv, Clock, Times
<1>9. more \in [Times -> Nat]
    BY <1>2, <1>3, AdmittedType
<1> HIDE DEF next, more
<1>10. /\ local' = [local EXCEPT ![g] = next]
       /\ since_local' = [since_local EXCEPT ![g] = more]
    BY <1>1 DEF next, more
<1>11. RedisTypeOK'
    BY <1>1, <1>2, <1>6, <1>9, <1>10 DEF RedisTypeOK
<1>12. ASSUME NEW h \in Gateways
       PROVE  /\ Funded(local'[h], since_local'[h], offset'[h], real', OwnGrant)
              /\ local'[h] # Absent => local'[h].last_refill <= real' + offset'[h]
    <2>1. CASE h = g
        BY <1>1, <1>2, <1>7, <1>8, <1>10, <2>1 DEF RedisTypeOK
    <2>2. CASE h # g
        BY <1>1, <1>2, <1>10, <2>2 DEF RedisTypeOK, RedisInv
    <2> QED  BY <2>1, <2>2
<1>13. OwnGrant' = OwnGrant
    BY DEF OwnGrant
<1> QED  BY <1>1, <1>11, <1>12, <1>13, SharedUnchanged DEF RedisInv

LEMMA ExpireKept == ASSUME RedisInv, Expire  PROVE RedisInv'
<1>1. /\ stored # Absent /\ real >= expires /\ stored' = Absent
      /\ real' = real /\ offset' = offset /\ expires' = expires /\ backend' = backend
      /\ local' = local /\ redis' = redis /\ cached' = cached /\ sha' = sha
      /\ failing' = failing /\ since_shared' = since_shared /\ since_local' = since_local
      /\ saved' = saved /\ losses' = losses
    BY DEF Expire, server, history
<1>2. /\ stored \in SkewedBucket /\ since_shared \in [Times -> Nat] /\ real \in Times
      /\ RedisTypeOK
    BY <1>1 DEF RedisInv, RedisTypeOK
<1>3. stored.last_refill + TimeToLive <= real + Skew
    <2>1. /\ stored.last_refill + TimeToLive <= expires + Skew /\ expires \in Nat
          /\ stored.last_refill \in Nat /\ real \in Nat
        BY <1>1, <1>2, RedisConstants DEF RedisInv, RedisTypeOK, SkewedBucket, Times, Kept
    <2> QED  BY <1>1, <2>1, RedisConstants
<1>4. ASSUME NEW s \in Times, since_shared[s] > 0
      PROVE  s <= real /\ Room(since_shared[s], s, real, SharedGrant[s])
    <2>1. /\ s <= real
          /\ \/ Room(since_shared[s], s, real, SharedGrant[s])
             \/ PaysFor(stored, since_shared[s], s, 0, SharedGrant[s])
        BY <1>4 DEF RedisInv, Funded
    <2>2. SharedGrant[s] \in Nat /\ since_shared[s] \in Nat
        BY <1>2, Grants
    <2> QED  BY <1>2, <1>3, <2>1, <2>2, ExpiryLeavesRoom
<1>5. RedisTypeOK'
    BY <1>1, <1>2 DEF RedisTypeOK
<1>6. Funded(stored, since_shared, 0, real, SharedGrant)'
    <2>1. Funded(stored', since_shared, 0, real, SharedGrant)
        BY <1>4 DEF Funded
    <2> QED  BY <1>1, <2>1 DEF SharedGrant
<1>7. Kept(stored, expires)' /\ Kept(saved.stored, saved.expires)'
    BY <1>1 DEF RedisInv, Kept
<1> QED  BY <1>1, <1>5, <1>6, <1>7, LocalUnchanged DEF RedisInv

LEMMA RealTickKept == ASSUME RedisInv, RealTick  PROVE RedisInv'
<1>1. /\ real < MaxTime /\ real' = real + 1
      /\ offset' = offset /\ stored' = stored /\ expires' = expires /\ backend' = backend
      /\ local' = local /\ redis' = redis /\ cached' = cached /\ sha' = sha
      /\ failing' = failing /\ since_shared' = since_shared /\ since_local' = since_local
      /\ saved' = saved /\ losses' = losses
    BY DEF RealTick, shared, server, history
<1>2. /\ RedisTypeOK /\ real \in Nat /\ since_shared \in [Times -> Nat] /\ expires \in Nat
      /\ saved.expires \in Nat
      /\ \A s \in Times : SharedGrant[s] \in Nat /\ OwnGrant[s] \in Nat
    <2>1. RedisTypeOK
        BY DEF RedisInv
    <2>2. \A s \in Times : SharedGrant[s] \in Nat /\ OwnGrant[s] \in Nat
        BY <2>1, Grants
    <2>3. saved.expires \in Nat
        BY <2>1, RedisConstants DEF RedisTypeOK
    <2> QED  BY <2>1, <2>2, <2>3, RedisConstants DEF RedisTypeOK, Times
<1>3. RedisTypeOK'
    BY <1>1, <1>2, RedisConstants DEF RedisTypeOK, Times
<1>4. Funded(stored, since_shared, 0, real + 1, SharedGrant)
    <2>1. /\ Funded(stored, since_shared, 0, real, SharedGrant)
          /\ real + 1 \in Nat /\ real <= real + 1
        BY <1>2 DEF RedisInv
    <2> QED  BY <1>2, <2>1, LaterFunded
<1>5. Kept(stored, expires)' /\ Kept(saved.stored, saved.expires)'
    BY <1>1, <1>2, RedisConstants DEF RedisInv, Kept
<1>6. ASSUME NEW g \in Gateways
      PROVE  /\ Funded(local[g], since_local[g], offset[g], real + 1, OwnGrant)
             /\ local[g] # Absent => local[g].last_refill <= real + 1 + offset[g]
    <2>1. /\ since_local[g] \in [Times -> Nat] /\ offset[g] \in Nat
          /\ local[g] # Absent => local[g].last_refill \in Nat
        BY <1>2, RedisConstants DEF RedisTypeOK, SkewedBucket
    <2>2. /\ Funded(local[g], since_local[g], offset[g], real, OwnGrant)
          /\ local[g] # Absent => local[g].last_refill <= real + offset[g]
        BY DEF RedisInv
    <2>3. Funded(local[g], since_local[g], offset[g], real + 1, OwnGrant)
        <3>1. real + 1 \in Nat /\ real <= real + 1
            BY <1>2
        <3> QED  BY <1>2, <2>1, <2>2, <3>1, LaterFunded
    <2> QED  BY <1>2, <2>1, <2>2, <2>3
<1>7. SharedGrant' = SharedGrant /\ OwnGrant' = OwnGrant
    BY <1>1 DEF SharedGrant, OwnGrant
<1> QED  BY <1>1, <1>3, <1>4, <1>5, <1>6, <1>7 DEF RedisInv

\* What Redis saves is the bucket as it is.
LEMMA SavedKept ==
    ASSUME RedisInv, Save \/ Shutdown
    PROVE  RedisInv'
<1>1. /\ real' = real /\ offset' = offset /\ stored' = stored /\ expires' = expires
      /\ saved' = Snapshot /\ backend' = backend /\ local' = local
      /\ redis' \in {redis, "down"} /\ cached' \in {cached, FALSE} /\ sha' = sha
      /\ failing' = failing /\ since_shared' = since_shared /\ since_local' = since_local
      /\ losses' = losses
    BY DEF Save, Shutdown, GoesDown, shared, server, history
<1>2. RedisTypeOK'
    BY <1>1 DEF RedisInv, RedisTypeOK, Snapshot
<1>3. /\ Funded(stored, since_shared, 0, real, SharedGrant)'
      /\ Kept(stored, expires)' /\ Kept(saved.stored, saved.expires)'
    BY <1>1 DEF RedisInv, SharedGrant, Kept, Snapshot
<1> QED  BY <1>1, <1>2, <1>3, LocalUnchanged DEF RedisInv

\* Every step of the gateways, of Redis and of time keeps the invariant.
LEMMA RedisKept == RedisInv /\ [RedisNext]_redisVars => RedisInv'
<1> SUFFICES ASSUME RedisInv, [RedisNext]_redisVars  PROVE RedisInv'
    OBVIOUS
<1> DEFINE Aside ==
        \/ \E g \in Gateways :
               CreateBackend(g) \/ ConsumeWithoutRedis(g) \/ ConsumeWithoutScript(g)
        \/ Restart \/ UNCHANGED redisVars
<1>1. CASE Aside
    <2>1. /\ real' = real /\ offset' = offset /\ stored' = stored /\ expires' = expires
          /\ local' = local /\ since_shared' = since_shared /\ since_local' = since_local
          /\ saved' = saved /\ losses' = losses
        BY <1>1 DEF CreateBackend, ConsumeWithoutRedis, ConsumeWithoutScript,
                    Restart, redisVars, shared, history
    <2>2. RedisTypeOK'
        BY <1>1, <2>1
           DEF RedisInv, RedisTypeOK, CreateBackend, ConsumeWithoutRedis,
               ConsumeWithoutScript, Restart, redisVars, server
    <2> QED  BY <2>1, <2>2, SharedUnchanged, LocalUnchanged DEF RedisInv
<1>2. \A g \in Gateways : ConsumeLocal(g) \/ ConsumeShared(g) \/ Interrupted(g) => RedisInv'
    BY ConsumeLocalKept, ConsumeSharedKept, InterruptedKept
<1> QED  BY <1>1, <1>2, ExpireKept, RealTickKept, SavedKept, CrashKept DEF RedisNext, AnyConsume

LEMMA RedisInvAlways == RedisSpec => []RedisInv
BY InitRedis, RedisKept, PTL DEF RedisSpec

\* The shared bucket and those of single gateways keep their types: no more than
\* the capacity, no less than nothing, whatever clock refills them and whatever
\* Redis comes back with (rate_limit.py:276-312).
THEOREM RedisTypeCorrect == RedisSpec => []RedisTypeOK
<1>1. RedisInv => RedisTypeOK
    BY DEF RedisInv
<1> QED  BY <1>1, RedisInvAlways, PTL

\* Any number of gateways together admit no more than one bucket pays for, but for
\* the refill of the time their clocks are apart, through expiries, stops of Redis,
\* crashes and lost replies, and for as much again as often as a crash has lost what
\* Redis had not saved; a gateway on its own no more than its bucket pays for
\* (rate_limit.py:35-37, 51-53; docker-compose.yml:83-90).
THEOREM RateAlwaysHonouredUpToSkew == RedisSpec => []RateHonouredUpToSkew
<1>1. ASSUME NEW b \in SkewedBucket \cup {Absent}, NEW count \in [Times -> Nat],
             NEW ahead \in 0 .. Skew, NEW t \in Times, NEW s \in 0 .. t,
             NEW late \in Nat, NEW grant, grant[s] \in Nat,
             Funded(b, count, ahead, t, grant),
             b # Absent => b.last_refill <= t + ahead + late
      PROVE  Cost * count[s] <= grant[s] + Rate * (t - s) + Rate * late
    <2> DEFINE spent == Cost * count[s]
    <2>1. /\ s \in Nat /\ s \in Times /\ t \in Nat /\ t - s \in Nat /\ ahead \in Nat
          /\ count[s] \in Nat /\ Capacity \in Nat /\ Rate \in Nat /\ Cost \in Nat
          /\ grant[s] \in Nat
        BY <1>1, RedisConstants DEF Times
    <2>2. /\ spent \in Nat /\ Rate * (t - s) \in Nat /\ Rate * late \in Nat
          /\ Rate * ((t - s) + late) = Rate * (t - s) + Rate * late
        BY <2>1, Sums
    <2>3. CASE count[s] = 0
        <3>1. spent = 0
            BY <2>1, <2>3, Products
        <3> HIDE DEF spent
        <3> QED  BY <2>1, <2>2, <3>1 DEF spent
    <2>4. CASE Room(count[s], s, t, grant[s])
        <3>1. spent + Capacity <= grant[s] + Rate * (t - s)
            BY <2>4 DEF Room
        <3> HIDE DEF spent
        <3>2. spent <= grant[s] + Rate * (t - s) + Rate * late
            BY <2>1, <2>2, <3>1
        <3> QED  BY <3>2 DEF spent
    <2>5. CASE b # Absent /\ PaysFor(b, count[s], s, ahead, grant[s])
        <3> DEFINE e == b.last_refill - ahead - s
        <3>1. s + ahead <= b.last_refill /\ spent + b.tokens <= grant[s] + Rate * e
            BY <2>5 DEF PaysFor
        <3>2. b.tokens \in Nat /\ b.last_refill \in Nat
            BY <2>5, RedisConstants DEF SkewedBucket
        <3>3. e \in Nat /\ e <= (t - s) + late
            BY <1>1, <2>1, <2>5, <3>1, <3>2
        <3>4. Rate * e <= Rate * ((t - s) + late) /\ Rate * e \in Nat
            BY <2>1, <3>3, Sums
        <3> HIDE DEF e, spent
        <3>5. spent <= grant[s] + Rate * (t - s) + Rate * late
            BY <2>1, <2>2, <3>1, <3>2, <3>4
        <3> QED  BY <3>5 DEF spent
    <2> QED  BY <1>1, <2>1, <2>3, <2>4, <2>5 DEF Funded
<1>2. ASSUME RedisInv, NEW s \in 0 .. real
      PROVE  /\ Cost * since_shared[s]
                    <= (1 + losses[s]) * (Capacity + Rate * Skew) + Rate * (real - s)
             /\ \A g \in Gateways :
                    Cost * since_local[g][s] <= Capacity + Rate * (real - s)
    <2>1. /\ RedisTypeOK /\ real \in Times /\ real \in Nat /\ 0 \in 0 .. Skew /\ Skew \in Nat
          /\ stored \in SkewedBucket \cup {Absent} /\ since_shared \in [Times -> Nat]
          /\ s \in Times /\ losses[s] \in Nat
        <3>1. RedisTypeOK
            BY <1>2 DEF RedisInv
        <3>2. /\ real \in Times /\ stored \in SkewedBucket \cup {Absent}
              /\ since_shared \in [Times -> Nat] /\ losses \in [Times -> Nat]
            BY <3>1 DEF RedisTypeOK
        <3>3. real \in Nat /\ s \in Times /\ 0 \in 0 .. Skew /\ Skew \in Nat
            BY <1>2, <3>2, RedisConstants DEF Times
        <3> QED  BY <3>1, <3>2, <3>3
    <2>2. stored # Absent => stored.last_refill <= real + 0 + Skew
        <3>1. stored # Absent =>
                  /\ stored.last_refill \in Nat /\ expires \in Nat
                  /\ expires <= real + TimeToLive
                  /\ stored.last_refill + TimeToLive <= expires + Skew
            BY <1>2, RedisConstants DEF RedisInv, RedisTypeOK, SkewedBucket, Kept
        <3> QED  BY <2>1, <3>1, RedisConstants
    <2>3. Funded(stored, since_shared, 0, real, SharedGrant) /\ SharedGrant[s] \in Nat
        BY <1>2, <2>1, Grants DEF RedisInv
    <2>4. Cost * since_shared[s] <= SharedGrant[s] + Rate * (real - s) + Rate * Skew
        <3> HIDE DEF SharedGrant
        <3> QED  BY <1>1, <2>1, <2>2, <2>3
    <2>5. Cost * since_shared[s]
              <= (1 + losses[s]) * (Capacity + Rate * Skew) + Rate * (real - s)
        <3> DEFINE more == Capacity + Rate * Skew
                   refill == Rate * (real - s)
                   lost == losses[s] * more
                   spent == Cost * since_shared[s]
        <3>1. Rate * Skew \in Nat /\ Capacity \in Nat /\ more \in Nat
            BY <2>1, RedisConstants, Products
        <3>2. refill \in Nat /\ spent \in Nat /\ lost \in Nat
            <4> HIDE DEF more
            <4>1. real - s \in Nat /\ Rate \in Nat /\ Cost \in Nat /\ since_shared[s] \in Nat
                BY <2>1, RedisConstants DEF Times
            <4> QED  BY <2>1, <3>1, <4>1, Products
        <3>3. (1 + losses[s]) * more = lost + more
            <4> HIDE DEF more
            <4>1. 1 + losses[s] = losses[s] + 1 /\ losses[s] + 1 \in Nat
                BY <2>1
            <4>2. /\ more * (losses[s] + 1) = more * losses[s] + more
                  /\ (losses[s] + 1) * more = more * (losses[s] + 1)
                  /\ losses[s] * more = more * losses[s]
                BY <2>1, <3>1, <4>1, Products
            <4> QED  BY <4>1, <4>2
        <3>4. SharedGrant[s] = Capacity + lost
            BY <2>1 DEF SharedGrant
        <3>5. spent <= Capacity + lost + refill + Rate * Skew
            BY <2>4, <3>4
        <3> HIDE DEF spent, refill, lost
        <3>6. spent <= (lost + more) + refill
            BY <3>1, <3>2, <3>5
        <3> QED  BY <3>3, <3>6 DEF spent, refill
    <2>6. ASSUME NEW g \in Gateways
          PROVE  Cost * since_local[g][s] <= Capacity + Rate * (real - s)
        <3>1. /\ local[g] \in SkewedBucket \cup {Absent} /\ offset[g] \in 0 .. Skew
              /\ since_local[g] \in [Times -> Nat]
            BY <2>1 DEF RedisTypeOK
        <3>2. /\ Funded(local[g], since_local[g], offset[g], real, OwnGrant)
              /\ local[g] # Absent => local[g].last_refill <= real + offset[g] + 0
            <4>1. local[g] # Absent => local[g].last_refill <= real + offset[g]
                BY <1>2 DEF RedisInv
            <4>2. real + offset[g] + 0 = real + offset[g]
                BY <2>1, <3>1
            <4> QED  BY <1>2, <4>1, <4>2 DEF RedisInv
        <3>3. OwnGrant[s] = Capacity /\ OwnGrant[s] \in Nat
            BY <2>1, Grants
        <3>4. Cost * since_local[g][s] <= OwnGrant[s] + Rate * (real - s) + Rate * 0
            <4> HIDE DEF OwnGrant
            <4> QED  BY <1>1, <2>1, <3>1, <3>2, <3>3
        <3>5. Rate * 0 = 0 /\ Rate * (real - s) \in Nat /\ Capacity \in Nat
            BY <2>1, Products, RedisConstants
        <3> QED  BY <3>3, <3>4, <3>5
    <2> QED  BY <2>5, <2>6
<1>3. RedisInv => RateHonouredUpToSkew
    BY <1>2 DEF RateHonouredUpToSkew
<1> QED  BY <1>3, RedisInvAlways, PTL

-------------------------------------------------------------------------------
(* The quota.                                                              *)

QuotaInv == QuotaTypeOK /\ OvershootBounded

-------------------------------------------------------------------------------

\* At most all requests are under way for one client.
LEMMA InFlightFinite ==
    ASSUME NEW c \in Clients
    PROVE  /\ IsFiniteSet(InFlight(c)) /\ Cardinality(InFlight(c)) \in Nat
           /\ Cardinality(Requests) \in Nat
           /\ Cardinality(InFlight(c)) <= Cardinality(Requests)
<1>1. InFlight(c) \subseteq Requests /\ IsFiniteSet(Requests)
    BY QuotaAssumption DEF InFlight, QuotaAssumption
<1> QED  BY <1>1, FS_Subset, FS_CardinalityType

\* A step that changes neither what a client used nor which of its POSTs are
\* under way keeps its bound.
LEMMA UndisturbedClient ==
    ASSUME OvershootBounded, NEW c \in Clients,
           total_tokens'[c] = total_tokens[c], InFlight(c)' = InFlight(c)
    PROVE  \E quota \in Quotas[c] :
               total_tokens'[c] + MaxUsage * Cardinality(InFlight(c)')
                   <= quota - 1 + MaxUsage * Cardinality(Requests)
BY DEF OvershootBounded

-------------------------------------------------------------------------------

\* Nobody has used any tokens and nothing is in flight (llm_gateway.py:102).
LEMMA InitQuota == QuotaInit => QuotaInv
<1> SUFFICES ASSUME QuotaInit  PROVE QuotaInv
    OBVIOUS
<1>1. QuotaTypeOK
    BY DEF QuotaInit, QuotaTypeOK, Request
<1>2. ASSUME NEW c \in Clients
      PROVE  \E quota \in Quotas[c] :
                 total_tokens[c] + MaxUsage * Cardinality(InFlight(c))
                     <= quota - 1 + MaxUsage * Cardinality(Requests)
    <2> PICK quota \in Quotas[c] : TRUE
        BY QuotaAssumption DEF QuotaAssumption
    <2>1. InFlight(c) = {}
        BY DEF QuotaInit, InFlight
    <2>2. Cardinality(InFlight(c)) = 0
        BY <2>1, FS_EmptySet
    <2>3. /\ total_tokens[c] = 0 /\ MaxUsage \in Nat
          /\ quota \in Nat \ {0} /\ Cardinality(Requests) \in Nat
        BY QuotaAssumption, InFlightFinite DEF QuotaInit, QuotaAssumption
    <2>4. MaxUsage * Cardinality(Requests) \in Nat
        BY <2>3, Products, Sums
    <2> QED  BY <2>2, <2>3, <2>4
<1> QED  BY <1>1, <1>2 DEF QuotaInv, OvershootBounded

\* A POST is forwarded while the client is below its quota: whatever it and the
\* others under way may report is within the bound (llm_gateway.py:195-214).
LEMMA ForwardKeepsQuota ==
    ASSUME QuotaInv, NEW r \in Requests, NEW c \in Clients, NEW quota \in Quotas[c],
           Forward(r, c, quota)
    PROVE  QuotaInv'
<1> USE DEF QuotaInv
<1>1. PICK method \in {"GET", "POST"} :
          /\ method = "POST" => ~Exceeded(c, quota)
          /\ request' = [request EXCEPT ![r] =
                           [phase |-> "forwarded", method |-> method, client |-> c]]
    BY DEF Forward
<1>2. total_tokens' = total_tokens /\ outcome' = outcome /\ request[r] = Idle
    BY DEF Forward
<1>3. QuotaTypeOK'
    BY <1>1, <1>2 DEF QuotaTypeOK, Request
<1>4. request'[r] = [phase |-> "forwarded", method |-> method, client |-> c]
    BY <1>1 DEF QuotaTypeOK
<1>5. \A s \in Requests \ {r} : request'[s] = request[s]
    BY <1>1 DEF QuotaTypeOK
<1>6. ASSUME NEW d \in Clients
      PROVE  \E q \in Quotas[d] :
                 total_tokens'[d] + MaxUsage * Cardinality(InFlight(d)')
                     <= q - 1 + MaxUsage * Cardinality(Requests)
    <2>1. CASE method = "POST" /\ d = c
        <3>1. InFlight(d)' \subseteq Requests
            BY DEF InFlight
        <3>2. /\ Cardinality(InFlight(d)') \in Nat /\ Cardinality(Requests) \in Nat
              /\ Cardinality(InFlight(d)') <= Cardinality(Requests)
            BY <3>1, QuotaAssumption, FS_Subset, FS_CardinalityType DEF QuotaAssumption
        <3>3. /\ total_tokens[d] \in Nat /\ quota \in Nat /\ MaxUsage \in Nat
              /\ total_tokens[d] <= quota - 1
            BY <1>1, <2>1, QuotaAssumption DEF Exceeded, QuotaTypeOK, QuotaAssumption
        <3>4. /\ MaxUsage * Cardinality(InFlight(d)') \in Nat
              /\ MaxUsage * Cardinality(Requests) \in Nat
              /\ MaxUsage * Cardinality(InFlight(d)') <= MaxUsage * Cardinality(Requests)
            BY <3>2, <3>3, Products, Sums
        <3>5. total_tokens'[d] + MaxUsage * Cardinality(InFlight(d)')
                  <= quota - 1 + MaxUsage * Cardinality(Requests)
            BY <1>2, <3>3, <3>4
        <3> QED  BY <2>1, <3>5
    <2>2. CASE ~(method = "POST" /\ d = c)
        <3>1. r \notin InFlight(d) /\ r \notin InFlight(d)'
            BY <1>2, <1>4, <2>2 DEF InFlight
        <3>2. InFlight(d)' = InFlight(d)
            BY <1>5, <3>1 DEF InFlight
        <3> QED  BY <1>2, <3>2, UndisturbedClient
    <2> QED  BY <2>1, <2>2
<1> QED  BY <1>3, <1>6 DEF OvershootBounded

\* An answer moves a request on, and uses nothing yet.
LEMMA ReplyKeepsQuota ==
    ASSUME QuotaInv, NEW r \in Requests, Reply(r)
    PROVE  QuotaInv'
<1> USE DEF QuotaInv
<1>1. request[r].phase = "forwarded" /\ total_tokens' = total_tokens /\ outcome' = outcome
    BY DEF Reply
<1>2. PICK reply \in Replies :
          request' = [request EXCEPT ![r] =
                        [phase |-> "answered", method |-> request[r].method,
                         client |-> request[r].client, reply |-> reply]]
    BY DEF Reply
<1>3. request[r] \in [phase : {"forwarded"}, method : {"GET", "POST"}, client : Clients]
    BY <1>1 DEF QuotaTypeOK, Request, Idle
<1>4. QuotaTypeOK'
    BY <1>1, <1>2, <1>3 DEF QuotaTypeOK, Request
<1>5. /\ request[r] # Idle /\ request'[r] # Idle
      /\ request'[r].method = request[r].method /\ request'[r].client = request[r].client
    BY <1>1, <1>2 DEF QuotaTypeOK, Idle
<1>6. \A s \in Requests \ {r} : request'[s] = request[s]
    BY <1>2 DEF QuotaTypeOK
<1>7. ASSUME NEW d \in Clients  PROVE  InFlight(d)' = InFlight(d)
    BY <1>5, <1>6 DEF InFlight
<1> QED  BY <1>1, <1>4, <1>7, UndisturbedClient DEF OvershootBounded

\* A request that ends gives back what it was allowed, and has used no more
\* (llm_gateway.py:216-242).
LEMMA FinishKeepsQuota ==
    ASSUME QuotaInv, NEW r \in Requests, Finish(r)
    PROVE  QuotaInv'
<1> USE DEF QuotaInv
<1> DEFINE q == request[r]
           counted == Drained(q) /\ q.reply.kind = "usage"
<1>1. /\ q.phase = "answered" /\ request' = [request EXCEPT ![r] = Idle]
      /\ total_tokens' = IF counted THEN Recorded(q) ELSE total_tokens
    BY DEF Finish
<1>2. /\ q # Idle /\ q.method \in {"GET", "POST"} /\ q.client \in Clients
      /\ q.reply.tokens \in 0 .. MaxUsage
    BY <1>1, QuotaAssumption DEF QuotaTypeOK, Request, Idle, Replies, QuotaAssumption
<1>3. QuotaTypeOK'
    <2>1. outcome' \in {"error", "whole", "empty"}
        BY DEF Finish
    <2>2. total_tokens' \in [Clients -> Nat]
        BY <1>1, <1>2, QuotaAssumption DEF QuotaTypeOK, Recorded, QuotaAssumption
    <2>3. request' \in [Requests -> Request]
        BY <1>1 DEF QuotaTypeOK, Request
    <2> QED  BY <2>1, <2>2, <2>3 DEF QuotaTypeOK
<1>4. request'[r] = Idle /\ \A s \in Requests \ {r} : request'[s] = request[s]
    BY <1>1 DEF QuotaTypeOK
<1>5. ASSUME NEW d \in Clients
      PROVE  \E quota \in Quotas[d] :
                 total_tokens'[d] + MaxUsage * Cardinality(InFlight(d)')
                     <= quota - 1 + MaxUsage * Cardinality(Requests)
    <2>1. CASE q.method = "POST" /\ d = q.client
        <3>1. r \in InFlight(d) /\ InFlight(d)' = InFlight(d) \ {r}
            BY <1>2, <1>4, <2>1 DEF InFlight
        <3>2. /\ Cardinality(InFlight(d)) \in Nat /\ Cardinality(InFlight(d)') \in Nat
              /\ Cardinality(InFlight(d)) = Cardinality(InFlight(d)') + 1
            <4>1. IsFiniteSet(InFlight(d)) /\ Cardinality(InFlight(d)) \in Nat
                BY InFlightFinite
            <4>2. /\ IsFiniteSet(InFlight(d) \ {r})
                  /\ Cardinality(InFlight(d) \ {r}) = Cardinality(InFlight(d)) - 1
                BY <3>1, <4>1, FS_RemoveElement
            <4>3. Cardinality(InFlight(d) \ {r}) \in Nat
                BY <4>2, FS_CardinalityType
            <4> QED  BY <3>1, <4>1, <4>2, <4>3
        <3>3. /\ total_tokens[d] \in Nat /\ MaxUsage \in Nat
              /\ total_tokens'[d] \in Nat /\ total_tokens'[d] <= total_tokens[d] + MaxUsage
            BY <1>1, <1>2, QuotaAssumption DEF QuotaTypeOK, Recorded, QuotaAssumption
        <3>4. /\ MaxUsage * Cardinality(InFlight(d)') \in Nat
              /\ MaxUsage * Cardinality(InFlight(d))
                     = MaxUsage * Cardinality(InFlight(d)') + MaxUsage
            BY <3>2, <3>3, Products, Sums
        <3>5. MaxUsage * Cardinality(Requests) \in Nat
            BY <3>3, InFlightFinite, Products, Sums
        <3>6. PICK quota \in Quotas[d] :
                  total_tokens[d] + MaxUsage * Cardinality(InFlight(d))
                      <= quota - 1 + MaxUsage * Cardinality(Requests)
            BY DEF OvershootBounded
        <3>7. quota \in Nat
            BY QuotaAssumption DEF QuotaAssumption
        <3>8. total_tokens'[d] + MaxUsage * Cardinality(InFlight(d)')
                  <= quota - 1 + MaxUsage * Cardinality(Requests)
            BY <3>3, <3>4, <3>5, <3>6, <3>7
        <3> QED  BY <3>8
    <2>2. CASE ~(q.method = "POST" /\ d = q.client)
        <3>1. r \notin InFlight(d) /\ r \notin InFlight(d)'
            BY <1>4, <2>2 DEF InFlight
        <3>2. InFlight(d)' = InFlight(d)
            BY <1>4, <3>1 DEF InFlight
        <3>3. total_tokens'[d] = total_tokens[d]
            BY <1>1, <2>2 DEF Drained, Recorded, QuotaTypeOK
        <3> QED  BY <3>2, <3>3, UndisturbedClient
    <2> QED  BY <2>1, <2>2
<1> QED  BY <1>3, <1>5 DEF OvershootBounded

\* Every step keeps the invariant: one case for each action of the middleware.
LEMMA QuotaKept == QuotaInv /\ [QuotaNext]_quotaVars => QuotaInv'
<1> SUFFICES ASSUME QuotaInv, [QuotaNext]_quotaVars  PROVE  QuotaInv'
    OBVIOUS
<1>1. ASSUME NEW r \in Requests, UnknownModel(r)  PROVE QuotaInv'
    BY <1>1 DEF UnknownModel, QuotaInv, QuotaTypeOK, OvershootBounded, InFlight
<1>2. ASSUME NEW r \in Requests, NEW c \in Clients, NEW quota \in Quotas[c],
             Refuse(r, c, quota)
      PROVE  QuotaInv'
    BY <1>2 DEF Refuse, QuotaInv, QuotaTypeOK, OvershootBounded, InFlight
<1>3. CASE UNCHANGED quotaVars
    BY <1>3 DEF quotaVars, QuotaInv, QuotaTypeOK, OvershootBounded, InFlight
<1> QED  BY <1>1, <1>2, <1>3, ForwardKeepsQuota, ReplyKeepsQuota, FinishKeepsQuota DEF QuotaNext

-------------------------------------------------------------------------------

\* The strengthened invariant holds in every state of the middleware.
LEMMA QuotaInvAlways == QuotaSpec => []QuotaInv
BY InitQuota, QuotaKept, PTL DEF QuotaSpec

\* The variables of the middleware keep their types, and totals never go below
\* zero (llm_gateway.py:73-91).
THEOREM QuotaTypeCorrect == QuotaSpec => []QuotaTypeOK
<1>1. QuotaInv => QuotaTypeOK
    BY DEF QuotaInv
<1> QED  BY <1>1, QuotaInvAlways, PTL

\* However many requests a client has under way, and whatever the tiers of its
\* credentials, its total exceeds the largest of its quotas by no more than these
\* requests may report (llm_gateway.py:194-242).
THEOREM OvershootAlwaysBounded == QuotaSpec => []OvershootBounded
<1>1. QuotaInv => OvershootBounded
    BY DEF QuotaInv
<1> QED  BY <1>1, QuotaInvAlways, PTL
===============================================================================
