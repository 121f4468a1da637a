------------------------------- MODULE Spells -------------------------------
(***************************************************************************)
(* What the spells of Aura count and choose: how many projectiles a cast   *)
(* launches and where, whom the beam jumps to, and the number each spell's *)
(* description shows for a level.  Angles are in degrees.                  *)
(***************************************************************************)
EXTENDS Integers, FiniteSets

MaxNumProjectiles  == 5     \* NumProjectiles of UAuraProjectileSpell
NumFireBalls       == 12
MaxNumShockTargets == 5
MaxNumShards       == 11
NumPoints          == 11    \* of APointCollection

Least(m, n) == IF m < n THEN m ELSE n

\* EvenlySpacedRotators and EvenlyRotatedVectors about the forward direction,
\* times the number of steps: from half the spread on the left to half of it on the right.
EvenlySpaced(spread, n) ==
    IF n > 1 THEN {i * spread - ((n - 1) * spread) \div 2 : i \in 0..(n - 1)} ELSE {0}

\* As directions of a circle of n - 1 steps.
Directions(spread, n) ==
    IF n > 1 THEN {a % (360 * (n - 1)) : a \in EvenlySpaced(spread, n)} ELSE {0}

\* SpawnProjectiles, and SpawnProjectile for the spells that do not override it.
FireBolts(level) == Least(MaxNumProjectiles, level)
FireBoltsDescribed(level) == IF level = 1 THEN 1 ELSE Least(level, MaxNumProjectiles)

\* SpawnFireBalls makes one per rotator, and shows as many.
FireBalls == NumFireBalls
FireBallsDescribed(level) == NumFireBalls

\* A shard falls on each ground point the collection returns; asking for more
\* than it has is an error.
GroundPoints(n) == IF n <= NumPoints THEN n ELSE 0
ShardsDescribed(level) == IF level = 1 THEN 1 ELSE Least(level, MaxNumShards)

\* StoreAdditionalTargets, and what GetDescription says of it.
NumAdditionalTargets(level) == Least(level - 1, MaxNumShockTargets)
ShockTargetsDescribed(level) == IF level = 1 THEN 0 ELSE Least(level, MaxNumShockTargets - 1)

\* The actors of a set that GetClosestTargets returns, one by one the first of
\* the closest that are left; all if they are not more than the number.
GetClosestTargets(n, actors, distance) ==
    LET closest(left) == CHOOSE a \in left : \A b \in left : distance[a] <= distance[b]
        left[k \in 0..n] == IF k = 0 \/ left[k - 1] = {} THEN IF k = 0 THEN actors ELSE {}
                            ELSE left[k - 1] \ {closest(left[k - 1])}
    IN  IF Cardinality(actors) <= n THEN actors ELSE actors \ left[n]
=============================================================================
