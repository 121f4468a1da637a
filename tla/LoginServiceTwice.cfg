SPECIFICATION Spec
CONSTANTS
    Conns = {c1, c2}
    IDs = {u1}
    None = None
    MayUse <- Anyone
    Cap = 2
    Lossy = FALSE
    Patient = TRUE
    MaxRequests = 2
    MaxGen = 1
INVARIANT
    OneSessionPerID
\* A clean stop after the bounded requests, or an undefined step, ends the behaviour.
CHECK_DEADLOCK FALSE
