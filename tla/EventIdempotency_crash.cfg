SPECIFICATION IdempotencySpec
CONSTANTS
    p1 = p1
    p2 = p2
    w1 = w1
    w2 = w2
    Pods = {p1, p2}
    Workers = {w1, w2}
    NoOwner = NoOwner
    PodOf <- MCPodOf
    LockTTL = 2
    StaleAfter = 3
    CacheTTL = 4
    MaxPolls = 1
    MaxProcessing = 2
    MaxFaults = 1
    FaultKinds = {"crash"}
    EventKinds = {"valid"}
INVARIANT CreditedAtMostOnce
