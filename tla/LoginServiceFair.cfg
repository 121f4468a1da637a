SPECIFICATION FairSpec
CONSTANTS
    Conns = {c1}
    IDs = {u1, u2}
    None = None
    MayUse <- Anyone
    Cap = 2
    Lossy = FALSE
    Patient = TRUE
    MaxRequests = 3
    MaxGen = 2

    
PROPERTIES
    RequestAnswered
\* A clean stop after the bounded requests, or an undefined step, ends the behaviour.
CHECK_DEADLOCK FALSE
