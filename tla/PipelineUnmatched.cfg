\* A request for a path under /gateway/ that the gateway has no route for.
SPECIFICATION Spec
CONSTANTS
    r1 = r1
    r2 = r2
    c1 = c1
    c2 = c2
    k = k
    Ip = Ip
    None = None
    Requests <- TwoRequests
    Clients <- TwoClients
    Keys <- OneKey
SYMMETRY Symmetric
PROPERTIES
    ProxiedAuthenticated
