--------------------------- MODULE MCAbilitySlots ---------------------------
(***************************************************************************)
(* An instance of AbilitySlots for TLC: an offensive ability the player    *)
(* has from the start, in slot s0, and two passives learnt at level 2.     *)
(***************************************************************************)
EXTENDS AbilitySlots

CONSTANTS o, p, q, s0, s1

StartsWith == [a \in {o} |-> s0]
FromTwo    == [a \in Abilities |-> IF a = o THEN 1 ELSE 2]
Three      == <<0, 2, 3>>
=============================================================================
