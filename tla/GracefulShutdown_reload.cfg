SPECIFICATION ShutdownSpec
CONSTANTS
    Requests = {r1, r2}
    Cleanups = 2
    Grace = 6
    ForceExit = 2
    CleanupTimeout = 1
    HardTimeout = 2
    MaxStarts = 2
PROPERTY ReloadStartsFresh
CHECK_DEADLOCK FALSE
