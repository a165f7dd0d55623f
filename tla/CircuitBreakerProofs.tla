------------------------- MODULE CircuitBreakerProofs -------------------------
(***************************************************************************)
(* TLAPS proofs about CircuitBreaker, for every threshold, timeout, number *)
(* of probe slots and finite set of requests.  The inductive invariant     *)
(* adds two facts to what the runs check: outside half-open no request is  *)
(* a probe of the current round, so that a new round starts from no        *)
(* probes; and, in each state, when the requests counted in `herd` were    *)
(* let through, so that a new round starts from an empty window.           *)
(***************************************************************************)
EXTENDS CircuitBreaker, FiniteSetTheorems, TLAPS

NoProbesBetweenRounds == cb.state # "half_open" => Probes = {}

\* Within a round, every request in the window has a slot of that round; while
\* the breaker is open, none was let through since it tripped.
HerdFits(b, h) ==
    /\ b.state = "closed" => h = NoHerd
    /\ b.state = "half_open" => \A a \in Window : h[a] <= b.half_open_calls
    /\ b.state = "open" =>
           \A a \in Window : h[a] <= HalfOpenMaxCalls /\ (a < b.elapsed => h[a] = 0)

HerdInv == HerdFits(cb, herd)

IInv ==
    /\ TypeOK
    /\ ClosedBelowThreshold
    /\ NoProbesBetweenRounds
    /\ SlotsMatchProbes
    /\ HerdInv

-------------------------------------------------------------------------------
(* The methods on the breaker's record.                                    *)

\* Every method of the breaker returns a breaker (cb.py:174-304).
LEMMA MethodTypes ==
    ASSUME NEW b \in Breaker
    PROVE  /\ NewBreaker \in Breaker
           /\ Promote(b) \in Breaker
           /\ AfterCanExecute(b) \in Breaker
           /\ AfterSuccess(b) \in Breaker
           /\ AfterFailure(b) \in Breaker
           /\ AfterReset(b) \in Breaker
           /\ AfterTick(b) \in Breaker
<1> USE BreakerAssumption DEF BreakerAssumption
<1>0. /\ 0 \in 0 .. FailureThreshold /\ 0 \in 0 .. HalfOpenMaxCalls
      /\ 0 \in 0 .. RecoveryTimeout /\ RecoveryTimeout \in 0 .. RecoveryTimeout
    OBVIOUS
<1>1. NewBreaker \in Breaker /\ AfterReset(b) \in Breaker
    BY <1>0 DEF NewBreaker, AfterReset, Breaker, CircuitState
<1>2. Promote(b) \in Breaker
    <2>1. [b EXCEPT !.state = "half_open", !.half_open_calls = 0] \in Breaker
        BY <1>0, Zenon DEF Breaker, CircuitState
    <2> QED  BY <2>1 DEF Promote
<1>3. AfterCanExecute(b) \in Breaker
    BY <1>2 DEF AfterCanExecute, HasProbeSlot, Breaker
<1>4. AfterSuccess(b) \in Breaker
    BY <1>0 DEF AfterSuccess, Breaker, CircuitState
<1>5. AfterFailure(b) \in Breaker
    <2>1. Counted(b) \in Breaker
        BY DEF Counted, UpTo, Breaker
    <2>2. TripOpen(Counted(b)) \in Breaker
        BY <1>0, <2>1 DEF TripOpen, Breaker, CircuitState
    <2> QED  BY <2>1, <2>2 DEF AfterFailure
<1>6. AfterTick(b) \in Breaker
    BY DEF AfterTick, UpTo, Breaker
<1> QED  BY <1>1, <1>2, <1>3, <1>4, <1>5, <1>6

\* A breaker that a method leaves closed is below its threshold if it was so
\* before: the only way back to closed clears the counter (cb.py:249-258).
LEMMA MethodsKeepBelowThreshold ==
    ASSUME NEW b \in Breaker,
           b.state = "closed" => b.consecutive_failures < FailureThreshold,
           NEW n \in {Promote(b), AfterCanExecute(b), AfterSuccess(b),
                      AfterFailure(b), AfterReset(b), AfterTick(b)},
           n.state = "closed"
    PROVE  n.consecutive_failures < FailureThreshold
<1> USE BreakerAssumption DEF BreakerAssumption, Breaker, CircuitState
<1>1. CASE n = Promote(b)          BY <1>1 DEF Promote
<1>2. CASE n = AfterCanExecute(b)  BY <1>2 DEF AfterCanExecute, HasProbeSlot, Promote
<1>3. CASE n = AfterSuccess(b)     BY <1>3 DEF AfterSuccess
<1>4. CASE n = AfterFailure(b)     BY <1>4 DEF AfterFailure, Counted, TripOpen, UpTo
<1>5. CASE n = AfterReset(b)       BY <1>5 DEF AfterReset, NewBreaker
<1>6. CASE n = AfterTick(b)        BY <1>6 DEF AfterTick
<1> QED  BY <1>1, <1>2, <1>3, <1>4, <1>5, <1>6

-------------------------------------------------------------------------------
(* The requests let through in a window of the recovery timeout.           *)

\* A promotion finds the cool-down over, so the window is empty when a round
\* starts (cb.py:181-188).
LEMMA PromoteKeepsHerd ==
    ASSUME NEW b \in Breaker, NEW h \in [Window -> Nat], HerdFits(b, h)
    PROVE  HerdFits(Promote(b), h)
<1>1. CASE b.state = "open" /\ b.elapsed >= RecoveryTimeout
    <2>1. Promote(b).state = "half_open" /\ Promote(b).half_open_calls = 0
        BY <1>1, BreakerAssumption DEF Promote, Breaker, CircuitState
    <2>2. \A a \in Window : h[a] = 0
        BY <1>1, BreakerAssumption DEF HerdFits, Window, Breaker, BreakerAssumption
    <2> QED  BY <2>1, <2>2 DEF HerdFits
<1>2. CASE ~(b.state = "open" /\ b.elapsed >= RecoveryTimeout)
    BY <1>2 DEF Promote
<1> QED  BY <1>1, <1>2

\* Every request let through by a half-open breaker takes a slot (cb.py:222-234).
LEMMA AdmissionKeepsHerd ==
    ASSUME NEW b \in Breaker, NEW h \in [Window -> Nat], HerdFits(b, h), CanExecute(b)
    PROVE  HerdFits(AfterCanExecute(b),
                    IF AfterCanExecute(b).state = "closed" THEN NoHerd
                    ELSE [a \in Window |-> h[a] + 1])
<1> DEFINE p == Promote(b)
           n == AfterCanExecute(b)
           k == IF n.state = "closed" THEN NoHerd ELSE [a \in Window |-> h[a] + 1]
<1>0. SUFFICES HerdFits(n, k)
    OBVIOUS
<1>1. p \in Breaker /\ HerdFits(p, h)
    BY MethodTypes, PromoteKeepsHerd
<1>2. CASE HasProbeSlot(p)
    <2>1. n.state = "half_open" /\ n.half_open_calls = p.half_open_calls + 1
        BY <1>1, <1>2 DEF AfterCanExecute, HasProbeSlot, Breaker
    <2>2. \A a \in Window : h[a] <= p.half_open_calls
        BY <1>1, <1>2 DEF HerdFits, HasProbeSlot
    <2>3. \A a \in Window : h[a] + 1 <= n.half_open_calls
        BY <1>1, <2>1, <2>2 DEF Breaker
    <2>4. \A a \in Window : k[a] <= n.half_open_calls
        BY <2>1, <2>3
    <2> HIDE DEF n, k
    <2> QED  BY <2>1, <2>4 DEF HerdFits
<1>3. CASE p.state = "closed" /\ ~HasProbeSlot(p)
    <2>1. n.state = "closed"
        BY <1>3 DEF AfterCanExecute
    <2>2. k = NoHerd
        BY <2>1
    <2> HIDE DEF n, k
    <2> QED  BY <2>1, <2>2 DEF HerdFits
<1> QED  BY <1>2, <1>3 DEF CanExecute

\* A result may end the round or reopen the breaker; neither lets anybody through
\* (cb.py:239-281).  A reset closes it.
LEMMA ResultKeepsHerd ==
    ASSUME NEW b \in Breaker, NEW h \in [Window -> Nat], HerdFits(b, h),
           NEW n \in {AfterSuccess(b), AfterFailure(b), AfterReset(b)}
    PROVE  HerdFits(n, IF n.state = "closed" THEN NoHerd ELSE h)
<1>0. \/ n.state = "closed"
      \/ n.state = "open" /\ b.state = "open" /\ n.elapsed = b.elapsed
      \/ n.state = "open" /\ b.state # "open" /\ n.elapsed = 0
    <2>1. CASE n = AfterSuccess(b)
        BY <2>1 DEF AfterSuccess, Breaker, CircuitState
    <2>2. CASE n = AfterFailure(b)
        BY <2>2 DEF AfterFailure, Counted, TripOpen, Breaker, CircuitState
    <2>3. CASE n = AfterReset(b)
        BY <2>3 DEF AfterReset, NewBreaker
    <2> QED  BY <2>1, <2>2, <2>3
<1>1. CASE n.state = "closed"
    BY <1>1 DEF HerdFits
<1>2. CASE n.state = "open" /\ b.state = "open" /\ n.elapsed = b.elapsed
    BY <1>2 DEF HerdFits
<1>3. CASE n.state = "open" /\ b.state # "open" /\ n.elapsed = 0
    <2>1. \A a \in Window : h[a] <= HalfOpenMaxCalls
        BY <1>3, BreakerAssumption
        DEF HerdFits, NoHerd, Breaker, CircuitState, BreakerAssumption
    <2> QED  BY <1>3, <2>1, BreakerAssumption DEF HerdFits, Window, BreakerAssumption
<1> QED  BY <1>0, <1>1, <1>2, <1>3

\* The window moves on with the clock by which the breaker measures its cool-down.
LEMMA TickKeepsHerd ==
    ASSUME NEW b \in Breaker, NEW h \in [Window -> Nat], HerdFits(b, h)
    PROVE  HerdFits(AfterTick(b), [a \in Window |-> IF a = 0 THEN 0 ELSE h[a - 1]])
<1> DEFINE n == AfterTick(b)
           k == [a \in Window |-> IF a = 0 THEN 0 ELSE h[a - 1]]
<1>1. /\ n.state = b.state /\ n.half_open_calls = b.half_open_calls
      /\ n.elapsed = UpTo(RecoveryTimeout, b.elapsed + 1)
    BY DEF AfterTick, Breaker
<1>2. \A a \in Window : a # 0 => a - 1 \in Window
    BY BreakerAssumption DEF Window, BreakerAssumption
<1>3. b.state = "closed" => k = NoHerd
    BY <1>2 DEF HerdFits, NoHerd
<1>4. b.state = "half_open" => \A a \in Window : k[a] <= b.half_open_calls
    BY <1>2 DEF HerdFits, Breaker
<1>5. b.state = "open" => \A a \in Window : k[a] <= HalfOpenMaxCalls
    BY <1>2, BreakerAssumption DEF HerdFits, BreakerAssumption
<1>6. ASSUME b.state = "open", NEW a \in Window, a < n.elapsed  PROVE k[a] = 0
    <2>1. a # 0 => a - 1 < b.elapsed
        BY <1>1, <1>6, BreakerAssumption DEF UpTo, Window, Breaker, BreakerAssumption
    <2> QED  BY <1>2, <1>6, <2>1 DEF HerdFits
<1> HIDE DEF n, k
<1> QED  BY <1>1, <1>3, <1>4, <1>5, <1>6 DEF HerdFits, n, k

-------------------------------------------------------------------------------
(* Become, the effect all handlers share.                                  *)

\* A handler that hands Become a breaker, statuses and a herd keeps the types.
LEMMA BecomeTypes ==
    ASSUME TypeOK, NEW next \in Breaker,
           NEW f \in [Calls -> {"idle", "regular", "probe", "stale"}],
           NEW h \in [Window -> Nat],
           Become(next, f, h), backendUp' \in BOOLEAN
    PROVE  TypeOK'
BY DEF TypeOK, Become, NoHerd

\* Outside half-open Become leaves no probe of the current round; inside, the
\* probes are those its caller says.
LEMMA BecomeProbes ==
    ASSUME NEW next \in Breaker,
           NEW f \in [Calls -> {"idle", "regular", "probe", "stale"}],
           NEW h, Become(next, f, h)
    PROVE  Probes' = IF next.state = "half_open"
                     THEN {c \in Calls : f[c] = "probe"} ELSE {}
BY DEF Become, Probes

\* The number of probes in flight is a natural number, and changes by one when
\* one request becomes a probe.
LEMMA CountProbes ==
    ASSUME NEW S \in SUBSET Calls, NEW c \in Calls
    PROVE  /\ IsFiniteSet(S)
           /\ Cardinality(S) \in Nat
           /\ c \notin S => Cardinality(S \cup {c}) = Cardinality(S) + 1
           /\ Cardinality({}) = 0
<1>1. IsFiniteSet(S)
    BY CallsAssumption, FS_Subset
<1> QED
    BY <1>1, FS_CardinalityType, FS_AddElement, FS_EmptySet

-------------------------------------------------------------------------------
(* The inductive invariant, one lemma per handler.                         *)

\* can_execute() returning True takes exactly the slot of the request it admits,
\* in the round going on or as the first of a new one (cb.py:210-237).
LEMMA AdmitKeepsIInv ==
    ASSUME IInv, NEW c \in Calls, Admit(c)
    PROVE  IInv'
<1> DEFINE next == AfterCanExecute(cb)
           to == [call EXCEPT ![c] = IF next.state = "closed" THEN "regular" ELSE "probe"]
           log == [a \in Window |-> herd[a] + 1]
<1>1. /\ TypeOK /\ cb \in Breaker /\ next \in Breaker
      /\ to \in [Calls -> {"idle", "regular", "probe", "stale"}]
      /\ log \in [Window -> Nat]
      /\ Become(next, to, log) /\ backendUp' \in BOOLEAN
    BY MethodTypes DEF IInv, TypeOK, Admit
<1>2. TypeOK'
    <2> HIDE DEF next, to, log
    <2> QED  BY <1>1, BecomeTypes
<1>3. cb' = next
    BY <1>1 DEF Become
<1>4. ClosedBelowThreshold'
    <2> HIDE DEF next
    <2>1. next = AfterCanExecute(cb)
        BY DEF next
    <2> QED  BY <1>1, <1>3, <2>1, MethodsKeepBelowThreshold DEF IInv, ClosedBelowThreshold
<1>5. Probes' = IF next.state = "half_open" THEN {d \in Calls : to[d] = "probe"} ELSE {}
    <2> HIDE DEF next, to, log
    <2> QED  BY <1>1, BecomeProbes
<1>6. NoProbesBetweenRounds'
    BY <1>3, <1>5 DEF NoProbesBetweenRounds
<1>7. SlotsMatchProbes'
    <2>1. CASE next.state = "half_open"
        <3>1. {d \in Calls : to[d] = "probe"} = Probes \cup {c} /\ c \notin Probes
            BY <2>1 DEF Probes, Admit, IInv, TypeOK
        <3>2. next.half_open_calls = cb.half_open_calls + 1
            BY <1>1, <2>1, CountProbes DEF AfterCanExecute, CanExecute, HasProbeSlot, Promote, Breaker,
               CircuitState, Admit, IInv, SlotsMatchProbes, NoProbesBetweenRounds
        <3> QED
            BY <1>3, <1>5, <2>1, <3>1, <3>2, CountProbes DEF IInv, SlotsMatchProbes, Probes
    <2>2. CASE next.state # "half_open"
        <3>1. next.half_open_calls = 0
            BY <1>1, <2>2, CountProbes DEF AfterCanExecute, HasProbeSlot, Promote, Breaker,
               CircuitState, IInv, SlotsMatchProbes, NoProbesBetweenRounds
        <3> QED  BY <1>3, <1>5, <2>2, <3>1, CountProbes DEF SlotsMatchProbes
    <2> QED  BY <2>1, <2>2
<1>8. HerdInv'
    <2>1. HerdFits(next, IF next.state = "closed" THEN NoHerd ELSE log)
        BY <1>1, AdmissionKeepsHerd DEF Admit, IInv, TypeOK, HerdInv
    <2>2. herd' = IF next.state = "closed" THEN NoHerd ELSE log
        <3> HIDE DEF next, to, log
        <3> QED  BY <1>1 DEF Become
    <2> HIDE DEF next, log
    <2> QED  BY <1>3, <2>1, <2>2 DEF HerdInv, HerdFits, Window
<1> QED  BY <1>2, <1>4, <1>6, <1>7, <1>8 DEF IInv

\* A result ends the round it falls into, and gives every slot back, whether it
\* comes from a probe of that round or from a request admitted long before
\* (cb.py:249-281).
LEMMA ResultKeepsIInv ==
    ASSUME IInv, NEW c \in Calls, RecordSuccess(c) \/ RecordFailure(c)
    PROVE  IInv'
<1> DEFINE to == [call EXCEPT ![c] = "idle"]
<1>1. PICK next \in {AfterSuccess(cb), AfterFailure(cb)} : Become(next, to, herd)
    BY DEF RecordSuccess, RecordFailure
<1>2. /\ TypeOK /\ cb \in Breaker /\ next \in Breaker
      /\ to \in [Calls -> {"idle", "regular", "probe", "stale"}]
      /\ herd \in [Window -> Nat] /\ backendUp' \in BOOLEAN
    BY MethodTypes DEF IInv, TypeOK, RecordSuccess, RecordFailure
<1>3. cb' = next
    BY <1>1 DEF Become
<1>4. TypeOK'
    <2> HIDE DEF to
    <2> QED  BY <1>1, <1>2, BecomeTypes
<1>5. ClosedBelowThreshold'
    BY <1>2, <1>3, MethodsKeepBelowThreshold DEF IInv, ClosedBelowThreshold
<1>6. next.state # "half_open" /\ next.half_open_calls = 0
    BY <1>2, CountProbes DEF AfterSuccess, AfterFailure, Counted, TripOpen, Breaker, CircuitState,
       IInv, SlotsMatchProbes, NoProbesBetweenRounds
<1>7. Probes' = {}
    <2> HIDE DEF to
    <2> QED  BY <1>1, <1>2, <1>6, BecomeProbes
<1>8. HerdInv'
    <2>1. HerdFits(next, IF next.state = "closed" THEN NoHerd ELSE herd)
        BY <1>2, ResultKeepsHerd DEF IInv, HerdInv
    <2>2. herd' = IF next.state = "closed" THEN NoHerd ELSE herd
        BY <1>1 DEF Become
    <2> QED  BY <1>3, <2>1, <2>2 DEF HerdInv, HerdFits, Window
<1> QED
    BY <1>3, <1>4, <1>5, <1>6, <1>7, <1>8, CountProbes
    DEF IInv, SlotsMatchProbes, NoProbesBetweenRounds

\* A refused request, a read of the state and a reset keep the invariant: they
\* let nobody through, and a reset ends the round with all its slots.
LEMMA OtherMethodsKeepIInv ==
    ASSUME IInv, (\E c \in Calls : Reject(c)) \/ ReadState \/ Reset
    PROVE  IInv'
<1>1. PICK next :
          /\ Become(next, call, herd)
          /\ \/ next = AfterCanExecute(cb) /\ ~CanExecute(cb)
             \/ next = Promote(cb)
             \/ next = AfterReset(cb)
    BY DEF Reject, ReadState, Reset
<1>2. /\ TypeOK /\ cb \in Breaker /\ next \in Breaker
      /\ call \in [Calls -> {"idle", "regular", "probe", "stale"}]
      /\ herd \in [Window -> Nat] /\ backendUp' \in BOOLEAN
    BY <1>1, MethodTypes DEF IInv, TypeOK, Reject, ReadState, Reset
<1>3. cb' = next
    BY <1>1 DEF Become
<1>4. TypeOK'
    BY <1>1, <1>2, BecomeTypes
<1>5. ClosedBelowThreshold'
    BY <1>1, <1>2, <1>3, MethodsKeepBelowThreshold DEF IInv, ClosedBelowThreshold
<1>6. Probes' = IF next.state = "half_open" THEN Probes ELSE {}
    BY <1>1, <1>2, BecomeProbes DEF Probes
<1>7. /\ next.half_open_calls = IF next.state = "half_open" THEN cb.half_open_calls ELSE 0
      /\ next.state = "half_open" => Cardinality(Probes) = cb.half_open_calls
    <2>1. cb.state # "half_open" => cb.half_open_calls = 0
        BY FS_EmptySet DEF IInv, SlotsMatchProbes, NoProbesBetweenRounds
    <2>2. CASE next = Promote(cb)
        BY <1>2, <2>1, <2>2 DEF Promote, Breaker, CircuitState, IInv, SlotsMatchProbes
    <2>3. CASE next = AfterReset(cb)
        BY <2>3 DEF AfterReset, NewBreaker
    <2>4. CASE next = AfterCanExecute(cb) /\ ~CanExecute(cb)
        BY <1>2, <2>1, <2>4 DEF AfterCanExecute, CanExecute, HasProbeSlot, Promote, Breaker,
           CircuitState, IInv, SlotsMatchProbes
    <2> QED  BY <1>1, <2>2, <2>3, <2>4
<1>8. HerdInv'
    <2>1. HerdFits(next, IF next.state = "closed" THEN NoHerd ELSE herd)
        <3>1. CASE next = AfterReset(cb)
            BY <1>2, <3>1, ResultKeepsHerd DEF IInv, HerdInv
        <3>2. CASE next # AfterReset(cb)
            <4>1. next = Promote(cb)
                BY <1>1, <3>2 DEF AfterCanExecute, CanExecute
            <4>2. HerdFits(next, herd)
                BY <1>2, <4>1, PromoteKeepsHerd DEF IInv, HerdInv
            <4> QED  BY <4>2 DEF HerdFits
        <3> QED  BY <3>1, <3>2
    <2>2. herd' = IF next.state = "closed" THEN NoHerd ELSE herd
        BY <1>1 DEF Become
    <2> QED  BY <1>3, <2>1, <2>2 DEF HerdInv, HerdFits, Window
<1> QED
    BY <1>3, <1>4, <1>5, <1>6, <1>7, <1>8, FS_EmptySet
    DEF IInv, SlotsMatchProbes, NoProbesBetweenRounds

\* The clock and the backend change nothing the invariant relates.
LEMMA EnvironmentKeepsIInv ==
    ASSUME IInv, Tick \/ BackendFlips
    PROVE  IInv'
<1>1. /\ cb' \in Breaker /\ call' = call
      /\ cb'.state = cb.state /\ cb'.half_open_calls = cb.half_open_calls
      /\ cb'.consecutive_failures = cb.consecutive_failures
    BY MethodTypes DEF IInv, TypeOK, Tick, BackendFlips, AfterTick, Breaker
<1>2. herd' \in [Window -> Nat]
    <2>1. CASE BackendFlips
        BY <2>1 DEF BackendFlips, IInv, TypeOK
    <2>2. CASE Tick
        <3>1. \A a \in Window : a # 0 => a - 1 \in Window
            BY BreakerAssumption DEF Window, BreakerAssumption
        <3> QED  BY <2>2, <3>1 DEF Tick, IInv, TypeOK
    <2> QED  BY <2>1, <2>2
<1>3. backendUp' \in BOOLEAN
    BY DEF Tick, BackendFlips, IInv, TypeOK
<1>4. Probes' = Probes
    BY <1>1 DEF Probes
<1>5. HerdInv'
    <2>1. CASE BackendFlips
        BY <2>1 DEF BackendFlips, IInv, HerdInv, HerdFits, Window
    <2>2. CASE Tick
        <3>1. HerdFits(cb', herd')
            BY <2>2, TickKeepsHerd DEF Tick, IInv, TypeOK, HerdInv
        <3> QED  BY <3>1 DEF HerdInv, HerdFits, Window
    <2> QED  BY <2>1, <2>2
<1> QED
    BY <1>1, <1>2, <1>3, <1>4, <1>5
    DEF IInv, TypeOK, ClosedBelowThreshold, NoProbesBetweenRounds, SlotsMatchProbes

\* A new breaker, and nobody in flight, satisfies the invariant (cb.py:160-170).
LEMMA InitIInv ==
    Init => IInv
<1> SUFFICES ASSUME Init PROVE IInv
    OBVIOUS
<1>1. Probes = {} /\ Cardinality({}) = 0
    BY FS_EmptySet DEF Init, Probes
<1>2. NewBreaker \in Breaker
    BY BreakerAssumption DEF BreakerAssumption, NewBreaker, Breaker, CircuitState
<1> QED
    BY <1>1, <1>2, BreakerAssumption
    DEF BreakerAssumption, Init, NoHerd, NewBreaker, IInv, TypeOK, ClosedBelowThreshold,
        NoProbesBetweenRounds, SlotsMatchProbes, HerdInv, HerdFits

\* So does every step, the manual reset included: one case for each handler.
LEMMA NextIInv ==
    IInv /\ [Next]_vars => IInv'
<1> SUFFICES ASSUME IInv, [Next]_vars PROVE IInv'
    OBVIOUS
<1>1. ASSUME NEW c \in Calls, Admit(c) PROVE IInv'
    BY <1>1, AdmitKeepsIInv
<1>2. ASSUME NEW c \in Calls, RecordSuccess(c) \/ RecordFailure(c) PROVE IInv'
    BY <1>2, ResultKeepsIInv
<1>3. CASE (\E c \in Calls : Reject(c)) \/ ReadState \/ Reset
    BY <1>3, OtherMethodsKeepIInv
<1>4. CASE Tick \/ BackendFlips
    BY <1>4, EnvironmentKeepsIInv
<1>5. CASE UNCHANGED vars
    BY <1>5 DEF vars, IInv, TypeOK, ClosedBelowThreshold, NoProbesBetweenRounds,
                SlotsMatchProbes, Probes, HerdInv, HerdFits, Window
<1> QED  BY <1>1, <1>2, <1>3, <1>4, <1>5 DEF Next, GatewayStep

-------------------------------------------------------------------------------
(* The theorems.                                                           *)

\* The inductive invariant holds in every state the breaker can be in, manual
\* resets included.
THEOREM Invariance ==
    Spec => []IInv
BY InitIInv, NextIInv, PTL DEF Spec

\* Every field stays in its range, half_open_calls within the probe slots
\* (cb.py:160-170).
THEOREM TypeCorrect ==
    Spec => []TypeOK
<1>1. IInv => TypeOK
    BY DEF IInv
<1> QED  BY <1>1, Invariance, PTL

\* half_open_calls is the number of probes of this round still in flight: no
\* slot leaks and none is given out twice (cb.py:186-188, 222-234, 249-258).
THEOREM SlotsAlwaysMatchProbes ==
    Spec => []SlotsMatchProbes
<1>1. IInv => SlotsMatchProbes
    BY DEF IInv
<1> QED  BY <1>1, Invariance, PTL

\* A closed breaker has seen fewer failures in a row than trip it
\* (cb.py:270-281).
THEOREM ClosedAlwaysBelowThreshold ==
    Spec => []ClosedBelowThreshold
<1>1. IInv => ClosedBelowThreshold
    BY DEF IInv
<1> QED  BY <1>1, Invariance, PTL

\* In any window as long as the recovery timeout, a breaker that stays out of the
\* closed state lets at most half_open_max_calls requests through, also when late
\* results reopen it in the middle of a round (cb.py:50-63).
THEOREM HerdAlwaysBounded ==
    Spec => []HerdBounded
<1>1. IInv => HerdBounded
    BY BreakerAssumption
    DEF IInv, TypeOK, HerdInv, HerdFits, HerdBounded, NoHerd, Breaker, CircuitState,
        BreakerAssumption
<1> QED  BY <1>1, Invariance, PTL

-------------------------------------------------------------------------------
(* The contract.                                                           *)

\* Every step of the gateway's requests, of the clock and of the backend is a
\* step of the contract or changes nothing of it (cb.py:78-87).
LEMMA StepImplementsContract ==
    ASSUME IInv, [GatewayStep]_vars
    PROVE  [Contract!Next]_(Contract!vars)
<1> USE DEF Contract!vars
<1>1. cb \in Breaker /\ (cb.state # "half_open" => cb.half_open_calls = 0)
    BY FS_EmptySet DEF IInv, TypeOK, SlotsMatchProbes, NoProbesBetweenRounds
<1>2. CASE \/ cb' = AfterCanExecute(cb)
           \/ cb' = Promote(cb)
    <2>1. CASE cb.state = "closed"
        BY <1>2, <2>1 DEF AfterCanExecute, HasProbeSlot, Promote
    <2>2. CASE cb.state = "open" /\ cb.elapsed < RecoveryTimeout
        BY <1>1, <1>2, <2>2, BreakerAssumption
        DEF BreakerAssumption, Breaker, AfterCanExecute, HasProbeSlot, Promote
    <2>3. CASE cb.state = "open" /\ ~(cb.elapsed < RecoveryTimeout)
        <3>1. cb.elapsed = RecoveryTimeout
            BY <1>1, <2>3, BreakerAssumption DEF BreakerAssumption, Breaker
        <3>2. cb'.state = "half_open" /\ cb'.half_open_calls \in {0, 1}
            <4>1. Promote(cb) \in Breaker
                BY <1>1, MethodTypes
            <4>2. Promote(cb).state = "half_open" /\ Promote(cb).half_open_calls = 0
                <5>1. cb.elapsed >= RecoveryTimeout
                    BY <3>1, BreakerAssumption DEF BreakerAssumption
                <5>2. Promote(cb) =
                          [cb EXCEPT !.state = "half_open", !.half_open_calls = 0]
                    BY <2>3, <5>1 DEF Promote
                <5> QED  BY <1>1, <5>2 DEF Breaker
            <4>3. AfterCanExecute(cb) = [Promote(cb) EXCEPT !.half_open_calls = @ + 1]
                BY <4>2, BreakerAssumption
                DEF BreakerAssumption, AfterCanExecute, HasProbeSlot
            <4> QED  BY <1>2, <4>1, <4>2, <4>3 DEF Breaker
        <3> QED
            BY <2>3, <3>1, <3>2, BreakerAssumption
            DEF BreakerAssumption, Contract!Next, Contract!Promote
    <2>4. CASE cb.state = "half_open"
        BY <1>1, <1>2, <2>4
        DEF Breaker, AfterCanExecute, HasProbeSlot, Promote, Contract!Next, Contract!Probe
    <2> QED
        BY <1>1, <2>1, <2>2, <2>3, <2>4, BreakerAssumption
        DEF BreakerAssumption, Breaker, CircuitState
<1>3. CASE cb' = AfterSuccess(cb)
    BY <1>1, <1>3
    DEF Breaker, CircuitState, AfterSuccess, Contract!Next, Contract!Recover
<1>4. CASE cb' = AfterFailure(cb)
    BY <1>1, <1>4, BreakerAssumption
    DEF BreakerAssumption, Breaker, CircuitState, AfterFailure, Counted, TripOpen,
        Contract!Next, Contract!Trip
<1>5. CASE cb' = AfterTick(cb)
    BY <1>1, <1>5, BreakerAssumption
    DEF BreakerAssumption, Breaker, CircuitState, AfterTick, UpTo,
        Contract!Next, Contract!Cool
<1>6. CASE cb' = cb
    BY <1>6
<1> QED
    BY <1>2, <1>3, <1>4, <1>5, <1>6
    DEF GatewayStep, vars, Admit, Reject, RecordSuccess, RecordFailure, ReadState,
        Tick, BackendFlips, Become

\* The breaker implements the state machine its documentation draws, manual
\* resets aside: it trips from closed or half-open only, starts every cool-down in
\* full, probes only after it and within the slots, and closes only from
\* half-open (cb.py:78-87, 199-281).
THEOREM BreakerImplementsContract ==
    Spec => ImplementsContract
<1>1. Init => Contract!Init
    BY BreakerAssumption DEF BreakerAssumption, Init, NewBreaker, Contract!Init
<1>2. IInv /\ [Next]_vars => [Reset \/ Contract!Next]_(Contract!vars)
    BY StepImplementsContract DEF Next
<1> QED  BY <1>1, <1>2, Invariance, PTL DEF Spec, ImplementsContract
===============================================================================
