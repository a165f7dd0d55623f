\* Two gateways up to a tick apart; a bucket that fills in three ticks, an expiry of
\* six, and six ticks, so that the key expires; two crashes that lose something.
SPECIFICATION RedisSpec
CONSTANTS
    g1 = g1
    g2 = g2
    Gateways <- TwoGateways
    Capacity = 3
    Rate = 1
    Cost = 2
    Absent = Absent
    Skew = 1
    TimeToLive = 6
    MaxLosses = 2
    MaxTime = 6
SYMMETRY SymmetricGateways
INVARIANTS
    RedisTypeOK
    RateHonouredUpToSkew
