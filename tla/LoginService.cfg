SPECIFICATION Spec
CONSTANTS
    Conns = {c1}
    IDs = {u1, u2}
    None = None
    MayUse <- Anyone
    Cap = 2
    Lossy = TRUE
    Patient = FALSE
    MaxRequests = 2
    MaxGen = 2
INVARIANTS
    OnlyVerified
    
    LoggedInIsListed
\* A clean stop after the bounded requests, or an undefined step, ends the behaviour.
CHECK_DEADLOCK FALSE
