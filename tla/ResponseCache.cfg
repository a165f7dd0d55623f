\* One route and two requests at a time: misses of the route overlap with two
\* writes and an invalidation, are filled in either order, and expire.
SPECIFICATION FairSpec
CONSTANTS
    users = users
    c1 = c1
    c2 = c2
    Keys <- OneKey
    Clients <- TwoClients
    Ttl <- TwoTicks
    MaxLatency = 1
    MaxVersion = 2
    MaxAge = 4
    Absent = Absent
INVARIANTS
    TypeOK
    HitsAreFresh
PROPERTIES
    InvalidatedStaysGone
    CatchesUp
