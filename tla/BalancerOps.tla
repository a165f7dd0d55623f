----------------------------- MODULE BalancerOps ------------------------------
(***************************************************************************)
(* The backend list of one service of the load balancer, as a value: what  *)
(* LoadBalancer's methods (loadbalancer/lb.py) do to it while they hold    *)
(* the lock.  The list keeps the order of registration, which the two      *)
(* strategies use.                                                         *)
(*                                                                         *)
(* `consecutive_failures` is only compared with the threshold and stops    *)
(* there; `last_health_check` is written and never read, and left out.     *)
(***************************************************************************)
EXTENDS Integers, Sequences, FiniteSets

CONSTANT ProbeThreshold   \* failed health probes in a row that evict a backend

ASSUME ProbeAssumption == ProbeThreshold \in Nat \ {0}

BackendInstance(Url) ==
    [url : Url, healthy : BOOLEAN, active_connections : Nat,
     consecutive_failures : 0 .. ProbeThreshold]

NewBackend(u) == [url |-> u, healthy |-> TRUE, active_connections |-> 0,
                  consecutive_failures |-> 0]

Urls(list) == {list[i].url : i \in DOMAIN list}

\* The k-th of a set of positions, from 0, and the entries at those positions.
Before(S, i) == Cardinality({j \in S : j < i})
Nth(S, k) == CHOOSE i \in S : Before(S, i) = k
Sublist(list, S) == [k \in 1 .. Cardinality(S) |-> list[Nth(S, k - 1)]]

\* Mutant: no guard against a second registration of the same URL.
RegisterTwice(list, u) == Append(list, NewBackend(u))

AfterRegister(list, u) ==
    IF u \in Urls(list) THEN list ELSE Append(list, NewBackend(u))

AfterDeregister(list, u) == Sublist(list, {i \in DOMAIN list : list[i].url # u})

-------------------------------------------------------------------------------
(* Selection, by position in the list.                                     *)

HealthyBackends(list) == {i \in DOMAIN list : list[i].healthy}
HealthyUrls(list) == {list[i].url : i \in HealthyBackends(list)}

\* Mutant: an off-by-one in the modulus, so that the last one is never reached.
RoundRobinNeverLast(list, counter) ==
    LET n == Cardinality(HealthyBackends(list))
    IN  Nth(HealthyBackends(list), counter % (IF n = 1 THEN 1 ELSE n - 1))

\* The backend at index counter % len(healthy) of the healthy ones.
RoundRobin(list, counter) ==
    Nth(HealthyBackends(list), counter % Cardinality(HealthyBackends(list)))

\* The healthy backend with the fewest connections, the first one on a tie.
LeastConnections(list) ==
    LET healthy == HealthyBackends(list)
        load(i) == list[i].active_connections
    IN  CHOOSE i \in healthy :
            \A j \in healthy : load(i) < load(j) \/ (load(i) = load(j) /\ i <= j)

-------------------------------------------------------------------------------
(* Updates of the entry with a given URL, none if there is no such entry.  *)

FindBackend(list, u) ==
    {i \in DOMAIN list : list[i].url = u /\ \A j \in 1 .. i - 1 : list[j].url # u}

AfterRequestStart(list, u) ==
    [i \in DOMAIN list |->
        IF i \in FindBackend(list, u)
        THEN [list[i] EXCEPT !.active_connections = @ + 1] ELSE list[i]]

\* Mutant: the end of a request is not counted.
RequestEndForgotten(list, u) == list

\* Mutant: the counter is not clamped at zero.
RequestEndUnclamped(list, u) ==
    [i \in DOMAIN list |->
        IF i \in FindBackend(list, u)
        THEN [list[i] EXCEPT !.active_connections = @ - 1] ELSE list[i]]

AfterRequestEnd(list, u) ==
    [i \in DOMAIN list |->
        IF i \in FindBackend(list, u) /\ list[i].active_connections > 0
        THEN [list[i] EXCEPT !.active_connections = @ - 1] ELSE list[i]]

\* Mutant: a good probe marks the backend healthy and keeps the strikes.
ReinstatedWithStrikes(b) == [b EXCEPT !.healthy = TRUE]

\* Mutant: a good probe clears the strikes and leaves the backend evicted.
ClearedNotReinstated(b) == [b EXCEPT !.consecutive_failures = 0]

Reinstated(b) == [b EXCEPT !.healthy = TRUE, !.consecutive_failures = 0]

\* Mutant: counts the strikes and never evicts.
StruckNotEvicted(b) ==
    [b EXCEPT !.consecutive_failures = IF @ < ProbeThreshold THEN @ + 1 ELSE @]

Struck(b) ==
    [b EXCEPT !.consecutive_failures = IF @ < ProbeThreshold THEN @ + 1 ELSE @,
              !.healthy = @ /\ b.consecutive_failures + 1 < ProbeThreshold]

\* The results of a round, one for each backend probed, as _run_health_checks
\* applies them.
AfterProbes(list, results) ==
    [i \in DOMAIN list |->
        CASE [url |-> list[i].url, ok |-> TRUE] \in results -> Reinstated(list[i])
          [] [url |-> list[i].url, ok |-> FALSE] \in results -> Struck(list[i])
          [] OTHER -> list[i]]
===============================================================================
