\* Two requests at a time, of two clients, over one key that the admin API gives
\* from one to the other and takes away.
SPECIFICATION Spec
CONSTANTS
    r1 = r1
    r2 = r2
    c1 = c1
    c2 = c2
    k = k
    Ip = Ip
    None = None
    Requests <- TwoRequests
    Clients <- TwoClients
    Keys <- OneKey
SYMMETRY Symmetric
INVARIANTS
    TypeOK
    GaugeExact
    TagsAreOwn
    ServedAsHolder
