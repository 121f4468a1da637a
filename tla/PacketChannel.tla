--------------------------- MODULE PacketChannel ---------------------------
(***************************************************************************)
(* What the two DoubleBuffers of the session server promise their users:   *)
(* a one-way channel that hands the packets over in the order in which     *)
(* they were accepted, each at most once, and that may lose the packet     *)
(* accepted last while it is still in transit, and no other.               *)
(*                                                                         *)
(* A packet is its number in the order of acceptance.                      *)
(***************************************************************************)
EXTENDS Naturals, Sequences

CONSTANT MaxSent    \* bound on the packets accepted, a natural number

VARIABLES
    accepted,     \* number of packets the channel has accepted
    inTransit,    \* packets accepted and neither received nor lost, oldest first
    received      \* packets handed to the consumer, in that order

vars == <<accepted, inTransit, received>>

Init ==
    /\ accepted = 0
    /\ inTransit = << >>
    /\ received = << >>

Accept ==
    /\ accepted < MaxSent
    /\ accepted' = accepted + 1
    /\ inTransit' = Append(inTransit, accepted + 1)
    /\ UNCHANGED received

Receive ==
    /\ inTransit # << >>
    /\ received' = Append(received, Head(inTransit))
    /\ inTransit' = Tail(inTransit)
    /\ UNCHANGED accepted

LoseNewest ==
    /\ inTransit # << >>
    /\ inTransit' = SubSeq(inTransit, 1, Len(inTransit) - 1)
    /\ UNCHANGED <<accepted, received>>

Next == Accept \/ Receive \/ LoseNewest

Spec == Init /\ [][Next]_vars
============================================================================
