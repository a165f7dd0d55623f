\* A route with two backends that a reload may cut to one, and a path without a
\* route that shares the first backend, over one connection: safety, and liveness.
SPECIFICATION FairSpec
CONSTANTS
    a = a
    b = b
    b1 = b1
    b2 = b2
    r1 = r1
    r2 = r2
    Idle = Idle
    NoRoute = NoRoute
    Fallback = Fallback
    Segments <- TwoSegments
    RoutePrefixes <- TwoPaths
    Length <- UnitLengths
    Requests <- TwoRequests
    Paths <- TwoPaths
    Files <- TwoFiles
    Direct <- OnlyFallback
    Target <- ToFirst
    BackendUrls <- TwoBackends
    MaxConnections = 1
    FailureThreshold = 1
    RecoveryTimeout = 1
    HalfOpenMaxCalls = 1
    ProbeThreshold = 1
INVARIANTS
    SlotsMatchProbes
    ConnectionsExact
    NoCascade
PROPERTY ServiceRecovers
