\* What the comments promise and the code does not keep.  TLC reports the first
\* one it finds violated: take that one out to see the next.
SPECIFICATION ShutdownSpec
CONSTANTS
    Requests = {r1, r2}
    Cleanups = 2
    Grace = 6
    ForceExit = 2
    CleanupTimeout = 1
    HardTimeout = 2
    MaxStarts = 2
INVARIANTS
    UnroutedFirst
    BodiesDrained
PROPERTIES
    GraceGranted
    NeverHangs
CHECK_DEADLOCK FALSE
