CONSTANTS
    Slots = {c1}
    Workers = {w1, w2}
    Sockets = {s1}
    NoSocket = NoSocket
    Never = Never
    NoJob = NoJob
    NoSlot = NoSlot
    TwoReads = FALSE
    HandlesRecycled = FALSE
    ReuseWait = 2
    MaxDelay = 1
    MaxTime = 8
    MaxGen = 2
SPECIFICATION FairSpec
INVARIANTS OutstandingIsCurrent ReportsByConnection
PROPERTIES   SlotReoffered
\* The server stops at a failed accept, and the clock at its bound.
CHECK_DEADLOCK FALSE
