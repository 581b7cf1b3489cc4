SPECIFICATION Spec
CONSTANTS
    Replicas = {r1, r2}
    Nobody = Nobody
    u1 = u1
    u2 = u2
    u3 = u3
    s1 = s1
    k1 = k1
    Usage = {u1, u2, u3}
    Legacy = {s1}
    Upstream = {u3}
    Key <- Keyed
    Price <- Prices
    Funds <- Purses
    MaxDeliveries = 3
    MaxFaults = 2
SYMMETRY Interchangeable
INVARIANT NoRebilling
CHECK_DEADLOCK FALSE
