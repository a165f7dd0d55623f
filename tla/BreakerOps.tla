------------------------------ MODULE BreakerOps ------------------------------
(***************************************************************************)
(* One circuit breaker as a value: what CircuitBreaker's methods           *)
(* (circuit_breaker/cb.py) do to the breaker's fields.  Every method runs  *)
(* under the breaker's lock, so each is one function on the record.        *)
(*                                                                         *)
(* Two fields hold less than the code's.  `elapsed` stands for             *)
(* time.time() - _opened_at: the code only compares it with the recovery   *)
(* timeout, so it stops there; the clock is assumed not to go back.        *)
(* `consecutive_failures` is only compared with the threshold, so it stops *)
(* at the threshold.                                                       *)
(***************************************************************************)
EXTENDS Integers

CONSTANTS FailureThreshold,   \* failures in a row that trip the breaker
          RecoveryTimeout,    \* cool-down, in ticks of the clock
          HalfOpenMaxCalls    \* probe slots in half-open

ASSUME BreakerAssumption ==
    /\ FailureThreshold \in Nat \ {0}
    /\ RecoveryTimeout \in Nat
    /\ HalfOpenMaxCalls \in Nat \ {0}

CircuitState == {"closed", "open", "half_open"}

Breaker == [state : CircuitState,
            consecutive_failures : 0 .. FailureThreshold,
            half_open_calls : 0 .. HalfOpenMaxCalls,
            elapsed : 0 .. RecoveryTimeout]

\* __init__: _opened_at is 0.0, the epoch, so the cool-down is long over.
NewBreaker == [state |-> "closed", consecutive_failures |-> 0,
               half_open_calls |-> 0, elapsed |-> RecoveryTimeout]

UpTo(bound, n) == IF n < bound THEN n ELSE bound

-------------------------------------------------------------------------------
(* The `state` property.  Reading it promotes an open breaker whose        *)
(* cool-down is over.                                                      *)

Promote(cb) ==
    IF cb.state = "open" /\ cb.elapsed >= RecoveryTimeout
    THEN [cb EXCEPT !.state = "half_open", !.half_open_calls = 0]
    ELSE cb

-------------------------------------------------------------------------------
(* can_execute: what it returns, and the breaker it leaves behind.         *)

\* Mutant: one slot too many.
HasProbeSlotOffByOne(cb) == cb.state = "half_open" /\ cb.half_open_calls <= HalfOpenMaxCalls

HasProbeSlot(cb) == cb.state = "half_open" /\ cb.half_open_calls < HalfOpenMaxCalls

CanExecute(cb) == LET p == Promote(cb) IN p.state = "closed" \/ HasProbeSlot(p)

\* Mutant: admits the probe and forgets to take its slot.
AdmitWithoutSlot(cb) == Promote(cb)

AfterCanExecute(cb) ==
    LET p == Promote(cb)
    IN  IF HasProbeSlot(p) THEN [p EXCEPT !.half_open_calls = @ + 1] ELSE p

-------------------------------------------------------------------------------
(* The two results of a call, and the manual reset.                        *)

\* Mutant: trips without restarting the cool-down clock.
TripWithOldClock(cb) == [cb EXCEPT !.state = "open", !.half_open_calls = 0]

TripOpen(cb) == [cb EXCEPT !.state = "open", !.elapsed = 0, !.half_open_calls = 0]

\* Mutant: a success closes the breaker and leaves the failure counter alone.
SuccessKeepsFailures(cb) ==
    [cb EXCEPT !.state = IF @ = "half_open" THEN "closed" ELSE @,
               !.half_open_calls = 0]

\* Mutant: a success closes an open breaker too.
SuccessClosesAlways(cb) ==
    [cb EXCEPT !.state = "closed", !.consecutive_failures = 0,
               !.half_open_calls = 0]

AfterSuccess(cb) ==
    [cb EXCEPT !.state = IF @ = "half_open" THEN "closed" ELSE @,
               !.consecutive_failures = 0,
               !.half_open_calls = 0]

\* Mutant: failures are not counted.
NeverCounted(cb) == cb

Counted(cb) ==
    [cb EXCEPT !.consecutive_failures = UpTo(FailureThreshold, @ + 1)]

\* Mutant: only a closed breaker reacts to a failure.
FailureWhenClosedOnly(cb) ==
    LET f == Counted(cb)
    IN  IF cb.state = "closed" /\ f.consecutive_failures >= FailureThreshold
        THEN TripOpen(f)
        ELSE f

AfterFailure(cb) ==
    LET f == Counted(cb)
    IN  IF \/ cb.state = "half_open"
           \/ cb.state = "closed" /\ f.consecutive_failures >= FailureThreshold
        THEN TripOpen(f)
        ELSE f

AfterReset(cb) == NewBreaker

\* One tick of time.time() as the breaker sees it.
AfterTick(cb) == [cb EXCEPT !.elapsed = UpTo(RecoveryTimeout, @ + 1)]
===============================================================================
