SPECIFICATION FairSpec
CONSTANTS
    Senders = {s1, s2}
    Workers = {w1, w2}
    Nobody = Nobody
    MaxMsg = 5
    MaxGen = 3
INVARIANTS
    OneSendAtATime
    InFlightIsHead
    NoForeignMessage
PROPERTIES
    ImplementsLink
    PushedIsSent
\* Everything is sent and the bounds are reached.
CHECK_DEADLOCK FALSE
