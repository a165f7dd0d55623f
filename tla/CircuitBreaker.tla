--------------------------- MODULE CircuitBreaker -----------------------------
(***************************************************************************)
(* One CircuitBreaker (circuit_breaker/cb.py) and the requests that share  *)
(* it, used as its docstring says: can_execute() first, then, when the     *)
(* backend has answered, record_success() or record_failure().  Between    *)
(* the two a request waits for the backend, and any number of results,     *)
(* ticks and other requests come in between: a result is recorded in       *)
(* whatever state the breaker is in by then.                               *)
(***************************************************************************)
EXTENDS BreakerOps, FiniteSets

CONSTANT Calls   \* the requests that may be in flight at once

ASSUME CallsAssumption == IsFiniteSet(Calls)

VARIABLES
    cb,          \* the breaker
    call,        \* where each request is, and how it was let through:
                 \*   "idle"     not in flight
                 \*   "regular"  admitted by a closed breaker
                 \*   "probe"    admitted in the half-open round going on
                 \*   "stale"    admitted in a half-open round that is over
    backendUp,   \* whether the backend answers without an error now
    herd         \* history: herd[a] requests were admitted in the last a ticks and
                 \* in the present one, by a breaker that has not been closed since

vars == <<cb, call, backendUp, herd>>

Window == 0 .. RecoveryTimeout - 1
NoHerd == [a \in Window |-> 0]

TypeOK ==
    /\ cb \in Breaker
    /\ call \in [Calls -> {"idle", "regular", "probe", "stale"}]
    /\ backendUp \in BOOLEAN
    /\ herd \in [Window -> Nat]

Init ==
    /\ cb = NewBreaker
    /\ call = [c \in Calls |-> "idle"]
    /\ backendUp = TRUE
    /\ herd = NoHerd

-------------------------------------------------------------------------------

\* The breaker becomes next while the requests are where f says: a half-open
\* round ends with it, and so does the herd once the breaker is closed.
Become(next, f, h) ==
    /\ cb' = next
    /\ call' = IF next.state = "half_open"
               THEN f
               ELSE [c \in Calls |-> IF f[c] = "probe" THEN "stale" ELSE f[c]]
    /\ herd' = IF next.state = "closed" THEN NoHerd ELSE h

\* can_execute() returns True.
Admit(c) ==
    /\ call[c] = "idle"
    /\ CanExecute(cb)
    /\ LET next == AfterCanExecute(cb)
       IN  Become(next,
                  [call EXCEPT ![c] = IF next.state = "closed" THEN "regular" ELSE "probe"],
                  [a \in Window |-> herd[a] + 1])
    /\ UNCHANGED backendUp

\* can_execute() returns False: the caller answers 503 and is done.
Reject(c) ==
    /\ call[c] = "idle"
    /\ ~CanExecute(cb)
    /\ Become(AfterCanExecute(cb), call, herd)
    /\ UNCHANGED backendUp

RecordSuccess(c) ==
    /\ call[c] # "idle"
    /\ backendUp
    /\ Become(AfterSuccess(cb), [call EXCEPT ![c] = "idle"], herd)
    /\ UNCHANGED backendUp

RecordFailure(c) ==
    /\ call[c] # "idle"
    /\ ~backendUp
    /\ Become(AfterFailure(cb), [call EXCEPT ![c] = "idle"], herd)
    /\ UNCHANGED backendUp

\* Somebody reads `state`.
ReadState ==
    /\ Become(Promote(cb), call, herd)
    /\ UNCHANGED backendUp

Tick ==
    /\ cb' = AfterTick(cb)
    /\ herd' = [a \in Window |-> IF a = 0 THEN 0 ELSE herd[a - 1]]
    /\ UNCHANGED <<call, backendUp>>

\* reset(): for operators; nothing in the gateway calls it.
Reset ==
    /\ Become(AfterReset(cb), call, herd)
    /\ UNCHANGED backendUp

BackendFlips == backendUp' = ~backendUp /\ UNCHANGED <<cb, call, herd>>

\* What the gateway does with a breaker, and that plus the manual reset.
GatewayStep ==
    \/ \E c \in Calls : Admit(c) \/ Reject(c) \/ RecordSuccess(c) \/ RecordFailure(c)
    \/ ReadState
    \/ Tick
    \/ BackendFlips

Next == GatewayStep \/ Reset

Spec == Init /\ [][Next]_vars

\* Time passes, a request that was let through gets an answer or times out
\* (httpx gives up after its timeout), and clients keep sending requests: the
\* breaker has no timer of its own and leaves the open state only when asked.
FairSpec ==
    /\ Spec
    /\ WF_vars(Tick)
    /\ \A c \in Calls : WF_vars(RecordSuccess(c) \/ RecordFailure(c))
    /\ WF_vars(\E c \in Calls : Admit(c))

-------------------------------------------------------------------------------
(* Safety.                                                                 *)

Probes == {c \in Calls : call[c] = "probe"}

\* A slot is taken exactly while the probe that took it is in flight: whatever
\* order results, late results, resets and reads of the state come in,
\* half_open_calls is the number of this round's probes still out, and it is 0
\* when no round is going on.  Too high and the breaker is wedged in half-open,
\* too low and it lets extra probes through.
SlotsMatchProbes == cb.half_open_calls = Cardinality(Probes)

\* A closed breaker is always below its threshold, also after failures that were
\* recorded late, when the breaker was already open (cb.py:270-281).
ClosedBelowThreshold ==
    cb.state = "closed" => cb.consecutive_failures < FailureThreshold

\* The thundering-herd guard (cb.py:50-63), over time and not only within a
\* round: in any window as long as the recovery timeout, a breaker that stays
\* out of the closed state lets at most half_open_max_calls requests through,
\* also when late results reopen it in the middle of a round.
HerdBounded == \A a \in Window : herd[a] <= HalfOpenMaxCalls

\* The docstring's state machine, cool-down and probe slots.
Contract == INSTANCE BreakerContract WITH
    CoolDown <- RecoveryTimeout,
    ProbeSlots <- HalfOpenMaxCalls,
    mode <- cb.state,
    wait <- IF cb.state = "open" THEN RecoveryTimeout - cb.elapsed ELSE 0,
    spent <- cb.half_open_calls

\* The breaker implements that contract, whatever the requests do; only an
\* operator's reset may step outside it (cb.py:78-87, 283-288).
ImplementsContract == Contract!Init /\ [][Reset \/ Contract!Next]_(Contract!vars)

-------------------------------------------------------------------------------
(* Liveness.                                                               *)

\* A backend that is back for good gets its traffic back: no order of late
\* failures and probes leaves the breaker open or stuck in half-open.
Recovers == <>[]backendUp => <>[](cb.state = "closed")

\* A backend that is gone for good stops being called like a healthy one, unless
\* operators keep resetting its breaker.
StopsHammering ==
    <>[](~backendUp) /\ <>[][~Reset]_vars => <>[](cb.state # "closed")

-------------------------------------------------------------------------------
(* What the comments say and the code does not do.                         *)

\* "Prevents more than half_open_max_calls concurrent probes" (cb.py:167-169,
\* also 112-113): the probes in flight while a round is going on, those of
\* earlier rounds included.
ConcurrentProbesBounded ==
    cb.state = "half_open" =>
        Cardinality({c \in Calls : call[c] \in {"probe", "stale"}}) <= HalfOpenMaxCalls

\* "Probe succeeded -- backend is healthy again" (cb.py:251): the breaker leaves
\* half-open for closed only when a probe of the round comes back, or by a reset.
OnlyProbeCloses ==
    [][cb.state = "half_open" /\ cb'.state = "closed" =>
         Reset \/ \E c \in Calls : call[c] = "probe" /\ call'[c] = "idle"]_vars
===============================================================================
