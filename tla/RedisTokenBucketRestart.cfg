\* Redis restarts under two gateways and forgets the script.
SPECIFICATION RedisFairSpec
CONSTANTS
    g1 = g1
    g2 = g2
    Gateways <- TwoGateways
    Capacity = 2
    Rate = 1
    Cost = 1
    Absent = Absent
    Skew = 0
    TimeToLive = 4
    MaxLosses = 1
    MaxTime = 2
PROPERTY ErrorsEnd
