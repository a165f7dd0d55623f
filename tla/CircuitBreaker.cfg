\* Three failures trip, two probe slots, a cool-down of two ticks; three requests
\* at a time, so that probes of one round meet those of the next, and resets.
SPECIFICATION FairSpec
CONSTANTS
    c1 = c1
    c2 = c2
    c3 = c3
    Calls <- ThreeCalls
    FailureThreshold = 3
    RecoveryTimeout = 2
    HalfOpenMaxCalls = 2
INVARIANTS
    TypeOK
    SlotsMatchProbes
    ClosedBelowThreshold
    HerdBounded
PROPERTIES
    ImplementsContract
    Recovers
    StopsHammering
