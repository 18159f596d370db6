\* One waiting goroutine can be overtaken by a tick (MaxDelay = 1).  All
\* properties are safety properties that treat requests and addresses alike,
\* the refinement too, so symmetry is sound.
CONSTANTS
    Requests = {q1, q2, q3, q4}
    IPs = {a, b}
    Limit = 2
    MaxTracked = 1
    Window = 2
    CleanupPeriod = 3
    MaxDelay = 1
    MaxClock = 8
SYMMETRY Symmetry
SPECIFICATION Spec
INVARIANTS TableBounded WindowBound IdleIsForgotten
PROPERTY ImplementsSlidingWindow
CHECK_DEADLOCK FALSE
