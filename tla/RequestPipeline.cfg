\* Two ordinary requests and a download compete for one slot.  No symmetry:
\* liveness is checked.  The process stops at the end.
CONSTANTS
    Requests = {r1, r2, s1}
    Streams = {s1}
    MaxConcurrent = 1
    MaxCalls = 2
SPECIFICATION FairSpec
INVARIANTS SlotsMatch OrphanIsCancelled
PROPERTIES NoCallAfterReply WrappedEnds OrphansEnd GoneIsReleased ShutdownEnds
CHECK_DEADLOCK FALSE
