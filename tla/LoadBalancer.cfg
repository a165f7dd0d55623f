\* Two backends, two requests, one health thread, and the whole interface.
SPECIFICATION FairSpec
CONSTANTS
    b1 = b1
    b2 = b2
    r1 = r1
    r2 = r2
    t1 = t1
    Idle = Idle
    NoThread = NoThread
    BackendUrls <- TwoBackends
    Requests <- TwoRequests
    Threads <- OneThread
    ProbeThreshold = 2
    RRPeriod = 2
INVARIANTS
    TypeOK
    NoDuplicates
    RotationMatchesProbes
    RoundRobinFair
    ConnectionsExact
PROPERTY RotationConverges
