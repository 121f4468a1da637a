---------------------------- MODULE MCSpellMenu ----------------------------
(***************************************************************************)
(* An instance of SpellMenu for TLC: an offensive ability the player has   *)
(* from the start in slot s0, and two passives, learnt at level 2, for the *)
(* passive slots s1 and s2.                                                *)
(***************************************************************************)
EXTENDS SpellMenu

CONSTANTS o, p, q, s0, s1, s2

StartsWith == [a \in {o} |-> s0]
FromTwo    == [a \in Abilities |-> IF a = o THEN 1 ELSE 2]
Two        == <<0, 2>>
=============================================================================
