SPECIFICATION FairBreakerSpec
CONSTANTS
    Callers = {c1, c2, c3}
    failure_threshold = 2
    recovery_timeout = 2
    half_open_max_calls = 1
PROPERTY HalfOpenResolves
