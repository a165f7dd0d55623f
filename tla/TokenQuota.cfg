\* Three requests of two clients, that report up to two tokens; one client has a
\* quota of two, the other credentials with quotas of one and three: a quota is used
\* up exactly, and exceeded, with others under way.
SPECIFICATION QuotaSpec
CONSTANTS
    plain = plain
    upgraded = upgraded
    r1 = r1
    r2 = r2
    r3 = r3
    Clients <- TwoClients
    Requests <- ThreeRequests
    Quotas <- TierQuotas
    MaxUsage = 2
SYMMETRY SymmetricRequests
INVARIANTS
    QuotaTypeOK
    OvershootBounded
