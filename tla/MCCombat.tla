------------------------------ MODULE MCCombat ------------------------------
(***************************************************************************)
(* An instance of Combat for TLC.  The player p has a bolt, a beam that    *)
(* can stun and shards of radial damage; e is an archer; g has armor that  *)
(* makes damage negative unless the hit is critical, and the award for it  *)
(* passes two levels.                                                      *)
(***************************************************************************)
EXTENDS Combat, TLC

CONSTANTS p, e, g

ZeroResistance == [x \in DamageTypes |-> 0]

TheParams == [
    beam   |-> [type |-> "Lightning", damage |-> 1, chance |-> 50, debuff |-> 1, radial |-> FALSE,
                bolt |-> FALSE, knockback |-> 0, impulse |-> 1, inner |-> 0, outer |-> 0, origin |-> 0],
    bolt   |-> [type |-> "Fire", damage |-> 1, chance |-> 0, debuff |-> 1, radial |-> FALSE,
                bolt |-> TRUE, knockback |-> 0, impulse |-> 1, inner |-> 0, outer |-> 0, origin |-> 0],
    shards |-> [type |-> "Arcane", damage |-> 1, chance |-> 0, debuff |-> 0, radial |-> TRUE,
                bolt |-> FALSE, knockback |-> 1, impulse |-> 1, inner |-> 1, outer |-> 2, origin |-> 1],
    arrow  |-> [type |-> "Physical", damage |-> 1, chance |-> 0, debuff |-> 0, radial |-> FALSE,
                bolt |-> TRUE, knockback |-> 0, impulse |-> 0, inner |-> 0, outer |-> 0, origin |-> 0],
    claws  |-> [type |-> "Physical", damage |-> 1, chance |-> 0, debuff |-> 0, radial |-> FALSE,
                bolt |-> FALSE, knockback |-> 0, impulse |-> 0, inner |-> 0, outer |-> 0, origin |-> 0]]

TheUses == [c \in Chars |-> IF c = p THEN {"bolt", "beam", "shards"} ELSE IF c = e THEN {"arrow"} ELSE {"claws"}]

TheAttributes == [c \in Chars |->
    [resistance |-> ZeroResistance, armor |-> IF c = g THEN 200 ELSE 0,
     penetration |-> 0, block |-> 0,
     critical |-> IF c = p THEN 50 ELSE 0, bonus |-> IF c = p THEN 3 ELSE 0]]

TheReward  == [c \in Chars |-> IF c = g THEN 3 ELSE 1]
LevelOne   == [c \in Enemies |-> 1]
SomeHealth == [c \in Enemies |-> IF c = g THEN 2 ELSE 1]
TheLevels  == <<[requirement |-> 2, points |-> 1, spellPoints |-> 1],
                [requirement |-> 3, points |-> 1, spellPoints |-> 1],
                [requirement |-> 9, points |-> 9, spellPoints |-> 9]>>
TheMMC     == [base |-> 0, vigor |-> 1, level |-> 1]
Everybody  == Chars \X Chars
OneApart   == [x \in Everybody |-> 1]
Flat       == [l \in 1..3 |-> 1]

\* GetClosestTargets returns the number asked for, and nobody who is farther
\* away than someone it leaves out.
ASSUME ClosestAreClosest ==
    \A actors \in SUBSET (1..4), n \in 0..4, distance \in [1..4 -> 1..3] :
        LET chosen == GetClosestTargets(n, actors, distance) IN
        /\ chosen \subseteq actors /\ Cardinality(chosen) = Least(n, Cardinality(actors))
        /\ \A x \in chosen, y \in actors \ chosen : distance[x] <= distance[y]

\* The descriptions of fire bolt, fire blast and arcane shards show what is cast;
\* that of electrocute is off by one below and above level 5.
ASSUME Described ==
    \A level \in 1..20 :
        /\ FireBoltsDescribed(level) = FireBolts(level)
        /\ FireBallsDescribed(level) = FireBalls
        /\ GroundPoints(ShardsDescribed(level)) = ShardsDescribed(level)
        /\ level \in 2..4 => ShockTargetsDescribed(level) = NumAdditionalTargets(level) + 1
        /\ level > 5 => ShockTargetsDescribed(level) = NumAdditionalTargets(level) - 1

\* Of the fire balls in all directions, the first and the last fly the same way.
ASSUME OneDirectionTwice == Cardinality(Directions(360, FireBalls)) = FireBalls - 1
=============================================================================
