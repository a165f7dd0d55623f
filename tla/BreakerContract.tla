--------------------------- MODULE BreakerContract ----------------------------
(***************************************************************************)
(* What a circuit breaker promises its callers, without saying how it      *)
(* counts: the state machine of CircuitState's docstring (cb.py), the      *)
(* cool-down, and the number of probes of one half-open round.             *)
(***************************************************************************)
EXTENDS Integers

CONSTANTS CoolDown,    \* ticks an open breaker rejects everything
          ProbeSlots   \* probes one half-open round admits

VARIABLES mode,    \* "closed", "open" or "half_open"
          wait,    \* ticks left of the cool-down
          spent    \* probe slots of this round given away

vars == <<mode, wait, spent>>

Init == mode = "closed" /\ wait = 0 /\ spent = 0

\* CLOSED --[failures >= threshold]--> OPEN and HALF_OPEN --[failure]--> OPEN:
\* the cool-down starts again in full.
Trip ==
    /\ mode \in {"closed", "half_open"}
    /\ mode' = "open" /\ wait' = CoolDown /\ spent' = 0

Cool == wait > 0 /\ wait' = wait - 1 /\ UNCHANGED <<mode, spent>>

\* OPEN --[recovery_timeout elapsed]--> HALF_OPEN, by a read of the state or by
\* the request that becomes the first probe.
Promote ==
    /\ mode = "open" /\ wait = 0
    /\ mode' = "half_open" /\ spent' \in {0, 1} /\ UNCHANGED wait

Probe ==
    /\ mode = "half_open" /\ spent < ProbeSlots
    /\ spent' = spent + 1 /\ UNCHANGED <<mode, wait>>

\* HALF_OPEN --[success]--> CLOSED.
Recover ==
    /\ mode = "half_open"
    /\ mode' = "closed" /\ wait' = 0 /\ spent' = 0

Next == Trip \/ Cool \/ Promote \/ Probe \/ Recover

Spec == Init /\ [][Next]_vars
===============================================================================
