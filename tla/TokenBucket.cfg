\* A token is three units and a tick adds two, so that the bucket holds fractions
\* of tokens; it holds two and a third.  Ten ticks, two of them a second.
SPECIFICATION Spec
CONSTANTS
    Capacity = 7
    Rate = 2
    Cost = 3
    Absent = Absent
    MaxTime = 10
    TicksPerSecond = 2
INVARIANTS
    TypeOK
    RateHonoured
    RetryAfterSuffices
PROPERTY ImplementsFluid
