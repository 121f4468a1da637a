-------------------------- MODULE MCPlayerInput --------------------------
(* A small instance of PlayerInput for TLC: the checkpoint stands at a.    *)
EXTENDS PlayerInput

CONSTANTS a, b

MCMoveTo == [c \in Checkpoints |-> a]
=============================================================================
