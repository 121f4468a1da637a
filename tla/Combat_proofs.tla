--------------------------- MODULE Combat_proofs ---------------------------
(***************************************************************************)
(* Proofs about Combat, for any players, enemies, attacks, attributes,     *)
(* curves, rewards and levels.                                             *)
(*                                                                         *)
(* Whatever a step does to a body is damage of some amount with some       *)
(* debuffs (Harm), whether from a hit, a bolt, the beam, a debuff or an    *)
(* area, or else it kills nobody and pays nobody.  So two lemmas carry the *)
(* invariant: HarmDone, about the one who is hit and the one who is paid,  *)
(* and NoHarmDone, about all the rest.                                     *)
(*                                                                         *)
(* DeathsPaidOnce is not inductive: a death adds its reward to the sum of  *)
(* a player's kills because the one who died had no killer before, which   *)
(* LivingWereNotKilled says.  DeadOrAlive needs maximal health above zero  *)
(* (PlayersHaveHealth), for a potion and a new maximum set the health.     *)
(* LevelsPaid needs that each award is a number and that the awards of the *)
(* levels passed follow those of the levels before (AwardsAdd).            *)
(*                                                                         *)
(* ContextArrives is about NetSerialize and not about the state: every     *)
(* context ApplyDamageEffect can make is read as it was written, because   *)
(* the one bit that is not sent is the last (ContextsArrive).              *)
(***************************************************************************)
EXTENDS Combat, Sums

\* The least of a nonempty set of numbers is in it.
LEMMA MinIsLeast ==
    ASSUME NEW S, S \subseteq Nat, S # {}
    PROVE  Min(S) \in S /\ \A x \in S : Min(S) <= x
<1>1. \E x \in S : \A y \in S : <<y, x>> \notin OpToRel(<, Nat)
  BY NatLessThanWellFounded, WFMin
<1>2. PICK x \in S : \A y \in S : <<y, x>> \notin OpToRel(<, Nat)
  BY <1>1
<1>3. ASSUME NEW y \in S PROVE x <= y
  <2>1. ~ (y < x)
    BY <1>2 DEF OpToRel
  <2>. QED  BY <2>1
<1>. QED  BY <1>3 DEF Min

----------------------------------------------------------------------------
(* One character.                                                          *)

DebuffSets == SUBSET (DamageTypes \X Chars)

\* The dead show no debuff, the living have health.
Consistent(b) == IF b.dead THEN b.fx = {} ELSE b.health > 0

\* Who cannot walk is stunned or reacts to a hit.
WalksAgain(b) == b.rooted => b.stunned \/ b.reacting

\* HandleIncomingDamage: who dies of it has no debuff left to show, who lives has health.
LEMMA DamageHandled ==
    ASSUME NEW b \in Body, NEW d \in Int, NEW reacts \in BOOLEAN
    PROVE  LET n == HandleIncomingDamage(b, d, reacts) IN
           /\ n \in Body
           /\ n.dead <=> b.dead \/ Fatal(b, d)
           /\ n.health <= b.health /\ n.maxHealth = b.maxHealth
           /\ Consistent(b) => Consistent(n)
           /\ WalksAgain(b) => WalksAgain(n)
<1> USE DEF Body, Consistent, WalksAgain
<1> DEFINE left == [b EXCEPT !.health = AtLeastZero(b.health - d)]
<1>1. CASE ~ Hurts(b, d)
  BY <1>1 DEF HandleIncomingDamage, Fatal
<1>2. CASE Fatal(b, d)
  <2>1. HandleIncomingDamage(b, d, reacts) = Die(left) /\ d > 0 /\ ~ b.dead
    BY <1>2 DEF HandleIncomingDamage, Fatal, Hurts
  <2>2. AtLeastZero(b.health - d) \in Nat /\ AtLeastZero(b.health - d) <= b.health
    BY <2>1 DEF AtLeastZero
  <2>. QED  BY <1>2, <2>1, <2>2 DEF Die
<1>3. CASE Hurts(b, d) /\ ~ Fatal(b, d)
  <2>1. d > 0 /\ ~ b.dead /\ b.health - d > 0 /\ AtLeastZero(b.health - d) = b.health - d
    BY <1>3 DEF Fatal, Hurts, AtLeastZero
  <2>2. HandleIncomingDamage(b, d, reacts) = IF reacts THEN HitReactTagChanged(left, TRUE) ELSE left
    BY <1>3 DEF HandleIncomingDamage
  <2>3. /\ left \in Body
        /\ left.dead = b.dead /\ left.health <= b.health /\ left.maxHealth = b.maxHealth /\ left.health > 0
        /\ left.rooted = b.rooted /\ left.stunned = b.stunned /\ left.reacting = b.reacting
    BY <2>1
  <2> HIDE DEF left
  <2>4. CASE reacts
    <3>1. HandleIncomingDamage(b, d, reacts) = [left EXCEPT !.reacting = TRUE, !.rooted = TRUE]
      BY <2>2, <2>4 DEF HitReactTagChanged
    <3>. QED  BY <1>3, <2>1, <2>3, <3>1
  <2>5. CASE ~ reacts
    BY <1>3, <2>1, <2>2, <2>3, <2>5
  <2>. QED  BY <2>4, <2>5
<1>. QED  BY <1>1, <1>2, <1>3 DEF Fatal

\* The callbacks of tags that come and go only touch what shows and what roots.
LEMMA DebuffsHandled ==
    ASSUME NEW b \in Body, NEW debuffs \in DebuffSets
    PROVE  LET n == WithDebuffs(b, debuffs) IN
           /\ n \in Body
           /\ n.dead = b.dead /\ n.health = b.health /\ n.maxHealth = b.maxHealth
           /\ Consistent(b) => Consistent(n)
           /\ WalksAgain(b) => WalksAgain(n)
<1> DEFINE new == TagsOf(debuffs) \ TagsOf(b.debuffs)
           old == TagsOf(b.debuffs) \ TagsOf(debuffs)
           fx  == DebuffTagChanged(b, new, old)
           c   == [b EXCEPT !.debuffs = debuffs, !.fx = fx]
<1>1. WithDebuffs(b, debuffs) = StunTagChanged(c, new, old)
  BY DEF WithDebuffs
<1>2. fx \in SUBSET Visible /\ (b.dead /\ b.fx = {} => fx = {})
  BY DEF DebuffTagChanged, Body
<1> HIDE DEF fx, new, old
<1>3. /\ c \in Body
      /\ c.dead = b.dead /\ c.health = b.health /\ c.maxHealth = b.maxHealth
      /\ c.fx = fx /\ c.rooted = b.rooted /\ c.stunned = b.stunned /\ c.reacting = b.reacting
  BY <1>2 DEF Body, DebuffSets
<1> DEFINE n == StunTagChanged(c, new, old)
<1> HIDE DEF c
<1>4. /\ n \in Body
      /\ n.dead = c.dead /\ n.health = c.health /\ n.maxHealth = c.maxHealth /\ n.fx = c.fx
      /\ WalksAgain(c) => WalksAgain(n)
  BY <1>3 DEF StunTagChanged, Body, WalksAgain
<1> HIDE DEF n
<1>5. Consistent(b) => Consistent(n)
  BY <1>2, <1>3, <1>4 DEF Consistent
<1>6. WalksAgain(b) => WalksAgain(n)
  BY <1>3, <1>4 DEF WalksAgain
<1>. QED  BY <1>1, <1>3, <1>4, <1>5, <1>6 DEF n

----------------------------------------------------------------------------
(* The experience of one player.                                           *)

\* FindLevelForXP finds the first level whose requirement the XP does not reach.
LEMMA LevelFound ==
    ASSUME NEW xp \in Nat
    PROVE  /\ FindLevelForXP(xp) \in 1..MaxLevel
           /\ FindLevelForXP(xp) = MaxLevel \/ xp < LevelUpInformation[FindLevelForXP(xp)].requirement
           /\ \A l \in 1..MaxLevel :
                  l = MaxLevel \/ xp < LevelUpInformation[l].requirement => FindLevelForXP(xp) <= l
<1> DEFINE Open == {l \in 1..MaxLevel : l = MaxLevel \/ xp < LevelUpInformation[l].requirement}
<1>1. MaxLevel \in Nat /\ MaxLevel > 0
  BY CombatAssumption DEF MaxLevel
<1>2. Open \subseteq Nat /\ MaxLevel \in Open
  BY <1>1
<1>3. FindLevelForXP(xp) = Min(Open)
  BY DEF FindLevelForXP
<1>4. Min(Open) \in Open /\ \A l \in Open : Min(Open) <= l
  <2> HIDE DEF Open
  <2>. QED  BY <1>2, MinIsLeast
<1>. QED  BY <1>3, <1>4

\* The level of a player's XP, and the points of every level passed.
Paid(h) ==
    /\ h.level = FindLevelForXP(h.xp)
    /\ h.points + h.spent = SumFunctionOnSet(AttributePointAward, 1..(h.level - 1))
    /\ h.spellPoints = SumFunctionOnSet(SpellPointAward, 1..(h.level - 1))

\* Every level has awards.
LEMMA AwardsAreNumbers ==
    /\ \A l \in 1..MaxLevel :
           AttributePointAward[l] \in Nat /\ SpellPointAward[l] \in Nat /\ LevelUpInformation[l].requirement \in Nat
    /\ MaxLevel \in Nat
<1> DEFINE Infos == [requirement : Nat, points : Nat, spellPoints : Nat]
<1>1. LevelUpInformation \in Seq(Infos)
  BY CombatAssumption
<1>2. MaxLevel \in Nat /\ \A l \in 1..MaxLevel : LevelUpInformation[l] \in Infos
  <2> HIDE DEF Infos
  <2>. QED  BY <1>1 DEF MaxLevel
<1>. QED  BY <1>2 DEF AttributePointAward, SpellPointAward

\* Those of any set of levels add up to a number.
LEMMA AwardsSummed ==
    ASSUME NEW m \in Nat \ {0}, NEW n \in Nat, n <= MaxLevel
    PROVE  /\ IsFiniteSet(m..n)
           /\ \A l \in m..n : AttributePointAward[l] \in Nat /\ SpellPointAward[l] \in Nat
           /\ SumFunctionOnSet(AttributePointAward, m..n) \in Nat
           /\ SumFunctionOnSet(SpellPointAward, m..n) \in Nat
<1>1. IsFiniteSet(m..n)
  BY FS_Interval
<1>2. \A l \in m..n : AttributePointAward[l] \in Nat /\ SpellPointAward[l] \in Nat
  BY AwardsAreNumbers
<1>. QED  BY <1>1, <1>2, SumIsNat

\* The levels up to one and those from there to another, together.
LEMMA AwardsAdd ==
    ASSUME NEW m \in 1..MaxLevel, NEW n \in 1..MaxLevel, m < n
    PROVE  /\ SumFunctionOnSet(AttributePointAward, 1..(n - 1)) =
                  SumFunctionOnSet(AttributePointAward, 1..(m - 1)) + SumFunctionOnSet(AttributePointAward, m..(n - 1))
           /\ SumFunctionOnSet(SpellPointAward, 1..(n - 1)) =
                  SumFunctionOnSet(SpellPointAward, 1..(m - 1)) + SumFunctionOnSet(SpellPointAward, m..(n - 1))
<1> DEFINE low == 1..(m - 1)
           high == m..(n - 1)
<1>1. low \cup high = 1..(n - 1) /\ low \cap high = {}
  BY AwardsAreNumbers
<1>2. /\ IsFiniteSet(low) /\ IsFiniteSet(high)
      /\ \A l \in low \cup high : AttributePointAward[l] \in Int /\ SpellPointAward[l] \in Int
  <2>1. IsFiniteSet(low) /\ IsFiniteSet(high)
    BY AwardsAreNumbers, FS_Interval
  <2>2. \A l \in low \cup high : l \in 1..MaxLevel
    BY AwardsAreNumbers
  <2> HIDE DEF low, high
  <2>. QED  BY <2>1, <2>2, AwardsAreNumbers
<1> HIDE DEF low, high
<1>3. /\ SumFunctionOnSet(AttributePointAward, low \cup high) =
             SumFunctionOnSet(AttributePointAward, low) + SumFunctionOnSet(AttributePointAward, high)
      /\ SumFunctionOnSet(SpellPointAward, low \cup high) =
             SumFunctionOnSet(SpellPointAward, low) + SumFunctionOnSet(SpellPointAward, high)
  BY <1>1, <1>2, SumOfBoth
<1>. QED  BY <1>1, <1>3 DEF low, high

\* The level for more XP is not lower.
LEMMA LevelGrows ==
    ASSUME NEW x \in Nat, NEW y \in Nat, x <= y
    PROVE  FindLevelForXP(x) <= FindLevelForXP(y)
<1> DEFINE k == FindLevelForXP(x)
           l == FindLevelForXP(y)
<1>1. l \in 1..MaxLevel /\ (l = MaxLevel \/ y < LevelUpInformation[l].requirement)
  BY LevelFound
<1>2. l # MaxLevel => x < LevelUpInformation[l].requirement
  <2>1. LevelUpInformation[l].requirement \in Nat
    BY <1>1, AwardsAreNumbers
  <2> HIDE DEF l
  <2>. QED  BY <1>1, <2>1
<1>. QED  BY <1>1, <1>2, LevelFound

\* HandleIncomingXP pays each level passed, once, however many one award passes.
LEMMA XPHandled ==
    ASSUME NEW h \in Hero, NEW xp \in Nat
    PROVE  LET n == HandleIncomingXP(h, xp) IN
           /\ n \in Hero /\ n.xp = h.xp + xp /\ n.lost = h.lost
           /\ Paid(h) => Paid(n)
<1> DEFINE new == FindLevelForXP(h.xp + xp)
           a   == SumFunctionOnSet(AttributePointAward, h.level..(new - 1))
           s   == SumFunctionOnSet(SpellPointAward, h.level..(new - 1))
           n   == HandleIncomingXP(h, xp)
<1>1. /\ h.xp \in Nat /\ h.xp + xp \in Nat /\ h.level \in 1..MaxLevel /\ h.points \in Int
      /\ h.spellPoints \in Nat /\ h.spent \in Nat
  BY DEF Hero
<1>2. new \in 1..MaxLevel /\ MaxLevel \in Nat
  BY <1>1, LevelFound, AwardsAreNumbers
<1>3. CASE new > h.level
  <2>1. n = [h EXCEPT !.xp = @ + xp, !.level = new, !.topOff = TRUE, !.points = @ + a, !.spellPoints = @ + s]
    BY <1>3 DEF HandleIncomingXP
  <2>2. a \in Nat /\ s \in Nat
    <3>1. h.level \in Nat \ {0} /\ new - 1 \in Nat /\ new - 1 <= MaxLevel
      BY <1>1, <1>2
    <3> HIDE DEF new
    <3>. QED  BY <3>1, AwardsSummed
  <2>3. /\ SumFunctionOnSet(AttributePointAward, 1..(new - 1)) =
               SumFunctionOnSet(AttributePointAward, 1..(h.level - 1)) + a
        /\ SumFunctionOnSet(SpellPointAward, 1..(new - 1)) =
               SumFunctionOnSet(SpellPointAward, 1..(h.level - 1)) + s
    <3>1. h.level < new
      BY <1>1, <1>2, <1>3
    <3> HIDE DEF new
    <3>. QED  BY <1>1, <1>2, <3>1, AwardsAdd
  <2> HIDE DEF a, s
  <2>4. n \in Hero /\ n.xp = h.xp + xp /\ n.lost = h.lost /\ n.level = new /\ n.spent = h.spent
        /\ n.points = h.points + a /\ n.spellPoints = h.spellPoints + s
    <3> HIDE DEF n, new
    <3>1. h.points + a \in Int /\ h.spellPoints + s \in Nat
      BY <1>1, <2>2
    <3>. QED  BY <1>1, <1>2, <2>1, <3>1 DEF Hero
  <2>5. ASSUME Paid(h) PROVE Paid(n)
    <3>1. n.level = FindLevelForXP(n.xp)
      BY <2>4
    <3> HIDE DEF n, new
    <3>2. /\ h.points + h.spent = SumFunctionOnSet(AttributePointAward, 1..(h.level - 1))
          /\ h.spellPoints = SumFunctionOnSet(SpellPointAward, 1..(h.level - 1))
      BY <2>5 DEF Paid
    <3>3. n.points + n.spent = (h.points + h.spent) + a
      BY <1>1, <2>2, <2>4
    <3>4. /\ n.points + n.spent = SumFunctionOnSet(AttributePointAward, 1..(n.level - 1))
          /\ n.spellPoints = SumFunctionOnSet(SpellPointAward, 1..(n.level - 1))
      BY <2>3, <2>4, <3>2, <3>3
    <3>. QED  BY <3>1, <3>4 DEF Paid
  <2>. QED  BY <2>4, <2>5
<1>4. CASE ~ (new > h.level)
  <2>1. n = [h EXCEPT !.xp = @ + xp]
    BY <1>4 DEF HandleIncomingXP
  <2>2. n \in Hero /\ n.xp = h.xp + xp /\ n.lost = h.lost /\ n.level = h.level /\ n.points = h.points
        /\ n.spent = h.spent /\ n.spellPoints = h.spellPoints
    <3> HIDE DEF n
    <3>. QED  BY <1>1, <2>1 DEF Hero
  <2>3. ASSUME Paid(h) PROVE Paid(n)
    <3>1. FindLevelForXP(h.xp) <= new
      <4>1. h.xp <= h.xp + xp
        BY <1>1
      <4>. QED  BY <1>1, <4>1, LevelGrows
    <3>2. h.level = new
      <4> HIDE DEF new
      <4>. QED  BY <1>1, <1>2, <1>4, <2>3, <3>1 DEF Paid
    <3>3. n.level = FindLevelForXP(n.xp)
      BY <2>2, <3>2
    <3> HIDE DEF n
    <3>. QED  BY <2>2, <2>3, <3>3 DEF Paid
  <2>. QED  BY <2>2, <2>3
<1>. QED  BY <1>3, <1>4
----------------------------------------------------------------------------
(* What a step does.                                                       *)

\* The damage of every outcome is a number, for the curves are defined at every level.
LEMMA DamageIsInt ==
    ASSUME TypeOK, NEW s \in Chars, NEW t \in Chars, NEW a \in Attacks, NEW r \in Execute(s, t, a)
    PROVE  r.damage \in Int
<1>1. /\ Params[a] \in DamageEffectParams
      /\ Attributes[s] \in AttributeSet /\ Attributes[t] \in AttributeSet
  BY CombatAssumption
<1>2. ASSUME NEW c \in Chars
      PROVE  ArmorPenetrationCurve[LevelOf(c)] \in Int /\ EffectiveArmorCurve[LevelOf(c)] \in Int
  <2>1. CASE c \in Players
    <3>1. LevelOf(c) \in 1..MaxLevel
      BY <2>1 DEF LevelOf, TypeOK, Hero
    <3>. QED  BY <3>1, CombatAssumption
  <2>2. CASE c \notin Players
    <3>1. LevelOf(c) = EnemyLevel[c] /\ c \in Enemies
      BY <2>2 DEF LevelOf, Chars
    <3>. QED  BY <3>1, CombatAssumption
  <2>. QED  BY <2>1, <2>2
<1>3. ASSUME NEW d \in Resisted(t, a) PROVE d \in Int
  <2>1. /\ Params[a].damage \in Nat
        /\ Attributes[t].resistance[Params[a].type] \in Int
    BY <1>1 DEF DamageEffectParams, AttributeSet
  <2>2. Percent(Attributes[t].resistance[Params[a].type]) \in Int
    BY <2>1 DEF Percent
  <2> DEFINE q == (Params[a].damage * (100 - Percent(Attributes[t].resistance[Params[a].type]))) \div 100
  <2>3. q \in Int
    BY <2>1, <2>2
  <2> HIDE DEF q
  <2>4. Resisted(t, a) = IF Params[a].radial THEN 0..q ELSE {q}
    BY DEF Resisted, q
  <2>. QED  BY <2>3, <2>4
<1>4. ASSUME NEW d \in Int PROVE Armored(s, t, d) \in Int
  <2> DEFINE penetration == AtLeastZero(Attributes[s].penetration) * ArmorPenetrationCurve[LevelOf(s)]
             effective   == (AtLeastZero(Attributes[t].armor) * (100 - penetration)) \div 100
  <2>1. AtLeastZero(Attributes[s].penetration) \in Int /\ AtLeastZero(Attributes[t].armor) \in Int
    BY <1>1 DEF AttributeSet, AtLeastZero
  <2>2. penetration \in Int
    BY <1>2, <2>1
  <2> HIDE DEF penetration
  <2>3. effective \in Int
    BY <2>1, <2>2
  <2> HIDE DEF effective
  <2>4. (d * (100 - effective * EffectiveArmorCurve[LevelOf(t)])) \div 100 \in Int
    BY <1>2, <2>3
  <2>. QED  BY <2>4 DEF Armored, penetration, effective
<1>5. PICK d \in Resisted(t, a), critical \in BOOLEAN :
          r.damage = IF critical THEN 2 * Armored(s, t, d) + AtLeastZero(Attributes[s].bonus) ELSE Armored(s, t, d)
  BY DEF Execute, Chance
<1>6. AtLeastZero(Attributes[s].bonus) \in Int /\ Armored(s, t, d) \in Int
  BY <1>1, <1>3, <1>4 DEF AttributeSet, AtLeastZero
<1>. QED  BY <1>5, <1>6

\* Every way to hurt somebody is damage from someone, who may be gone.
Harm == \E s \in Chars \cup {Nobody}, t \in Chars, d \in Int, debuffs \in DebuffSets : Damaged(s, t, d, debuffs)

\* The damage of an attack is of that kind.
LEMMA AttackHarms ==
    ASSUME TypeOK, NEW s \in Chars, NEW t \in Chars, NEW a \in Attacks, ApplyDamageEffect(s, t, a)
    PROVE  Harm
<1>1. PICK r \in Execute(s, t, a) :
          Damaged(s, t, r.damage, IF r.debuff /\ Hurts(body[t], r.damage)
                                  THEN body[t].debuffs \cup {<<Params[a].type, s>>} ELSE body[t].debuffs)
  BY DEF ApplyDamageEffect
<1>2. r.damage \in Int
  BY DamageIsInt
<1>3. Params[a].type \in DamageTypes /\ body[t].debuffs \in DebuffSets
  BY CombatAssumption DEF DamageEffectParams, TypeOK, Body, DebuffSets
<1>4. (IF r.debuff /\ Hurts(body[t], r.damage)
       THEN body[t].debuffs \cup {<<Params[a].type, s>>} ELSE body[t].debuffs) \in DebuffSets
  BY <1>3 DEF DebuffSets
<1>. QED  BY <1>1, <1>2, <1>4 DEF Harm

\* The other steps change nobody's body, experience or killer, or are spelled out.
Elsewhere == UNCHANGED <<body, hero, killer>>

LEMMA StepCases ==
    ASSUME TypeOK, Next
    PROVE  \/ Harm
           \/ \E t \in Chars : \E x \in body[t].debuffs : DebuffEnds(t, x)
           \/ \E e \in Enemies : HitReactEnds(e)
           \/ \E i \in items, p \in Players : OnPotionOverlap(i, p)
           \/ \E p \in Players : UpgradeAttribute(p) \/ \E v \in BOOLEAN : ServerUpgradeAttribute(p, v)
           \/ Elsewhere
<1>1. ASSUME NEW s \in Chars, NEW t \in Chars, NEW a \in Attacks, CauseDamage(s, t, a) PROVE Harm
  BY <1>1, AttackHarms DEF CauseDamage
<1>2. ASSUME NEW s \in Chars, NEW first \in Chars, NEW t \in Chars, Shock(s, first, t) PROVE Harm
  <2>1. "beam" \in Attacks
    BY <1>2, CombatAssumption DEF Shock
  <2>. QED  BY <1>2, <2>1, AttackHarms DEF Shock
<1>3. ASSUME NEW x \in bolts, NEW t \in Chars, OnSphereOverlap(x, t) PROVE Harm
  <2>1. x[1] \in Chars /\ x[2] \in Attacks
    BY DEF TypeOK
  <2>. QED  BY <1>3, <2>1, AttackHarms DEF OnSphereOverlap
<1>4. ASSUME NEW t \in Chars, NEW x \in body[t].debuffs, DebuffTick(t, x) PROVE Harm
  <2>1. body[t].debuffs \in DebuffSets /\ x[2] \in Chars
    BY DEF TypeOK, Body, DebuffSets
  <2>2. Damaged(IF x[2] \in gone THEN Nobody ELSE x[2], t, 1, body[t].debuffs)
    BY <1>4 DEF DebuffTick
  <2>3. (IF x[2] \in gone THEN Nobody ELSE x[2]) \in Chars \cup {Nobody}
    BY <2>1
  <2>. QED  BY <2>1, <2>2, <2>3 DEF Harm
<1>5. ASSUME NEW x \in inArea, AreaTick(x) PROVE Harm
  <2>1. x[2] \in Chars
    BY DEF TypeOK
  <2>2. body[x[2]].debuffs \in DebuffSets
    BY <2>1 DEF TypeOK, Body, DebuffSets
  <2>3. Damaged(x[2], x[2], 1, body[x[2]].debuffs)
    BY <1>5 DEF AreaTick
  <2>. QED  BY <2>1, <2>2, <2>3 DEF Harm
<1>. QED  BY <1>1, <1>2, <1>3, <1>4, <1>5
          DEF Next, Elsewhere, SpawnProjectile, Vanish, Destroyed, OnAreaOverlap, OnEndOverlap

\* What damage does, to the one it hits and to the one it comes from.
LEMMA HarmDone ==
    ASSUME TypeOK, NEW s \in Chars \cup {Nobody}, NEW t \in Chars, NEW d \in Int, NEW debuffs \in DebuffSets,
           Damaged(s, t, d, debuffs)
    PROVE  /\ body' \in [Chars -> Body] /\ hero' \in [Players -> Hero]
           /\ killer' \in [Chars -> Chars \cup {Nobody}]
           /\ \A c \in Chars :
                  /\ body'[c].dead <=> body[c].dead \/ (c = t /\ Fatal(body[t], d))
                  /\ body'[c].health <= body[c].health /\ body'[c].maxHealth = body[c].maxHealth
                  /\ Consistent(body[c]) => Consistent(body'[c])
                  /\ WalksAgain(body[c]) => WalksAgain(body'[c])
           /\ \A p \in Players :
                  /\ hero'[p].xp + hero'[p].lost =
                         (hero[p].xp + hero[p].lost) + (IF p = s /\ Fatal(body[t], d) THEN Reward[t] ELSE 0)
                  /\ Paid(hero[p]) => Paid(hero'[p])
           /\ killer' = IF Fatal(body[t], d) THEN [killer EXCEPT ![t] = IF @ = Nobody THEN s ELSE @] ELSE killer
<1>1. PICK reacts \in BOOLEAN : body' = [body EXCEPT ![t] = WithDebuffs(HandleIncomingDamage(@, d, reacts), debuffs)]
  BY DEF Damaged, Reactions
<1> DEFINE n == WithDebuffs(HandleIncomingDamage(body[t], d, reacts), debuffs)
<1>2. body \in [Chars -> Body] /\ body[t] \in Body
  BY DEF TypeOK
<1>3. /\ n \in Body
      /\ n.dead <=> body[t].dead \/ Fatal(body[t], d)
      /\ n.health <= body[t].health /\ n.maxHealth = body[t].maxHealth
      /\ Consistent(body[t]) => Consistent(n)
      /\ WalksAgain(body[t]) => WalksAgain(n)
  <2> DEFINE m == HandleIncomingDamage(body[t], d, reacts)
  <2>1. /\ m \in Body
        /\ m.dead <=> body[t].dead \/ Fatal(body[t], d)
        /\ m.health <= body[t].health /\ m.maxHealth = body[t].maxHealth
        /\ Consistent(body[t]) => Consistent(m)
        /\ WalksAgain(body[t]) => WalksAgain(m)
    BY <1>2, DamageHandled
  <2> HIDE DEF m
  <2>2. /\ n \in Body
        /\ n.dead = m.dead /\ n.health = m.health /\ n.maxHealth = m.maxHealth
        /\ Consistent(m) => Consistent(n)
        /\ WalksAgain(m) => WalksAgain(n)
    BY <2>1, DebuffsHandled DEF m
  <2> HIDE DEF n
  <2>. QED  BY <2>1, <2>2
<1>4. body' = [body EXCEPT ![t] = n]
  BY <1>1
<1> HIDE DEF n
<1>5. body' \in [Chars -> Body] /\ body'[t] = n /\ \A c \in Chars : c # t => body'[c] = body[c]
  BY <1>2, <1>3, <1>4
<1>6. ASSUME NEW c \in Chars
      PROVE  /\ body'[c].dead <=> body[c].dead \/ (c = t /\ Fatal(body[t], d))
             /\ body'[c].health <= body[c].health /\ body'[c].maxHealth = body[c].maxHealth
             /\ Consistent(body[c]) => Consistent(body'[c])
             /\ WalksAgain(body[c]) => WalksAgain(body'[c])
  <2>1. CASE c = t
    BY <1>3, <1>5, <2>1
  <2>2. CASE c # t
    <3>1. body'[c] = body[c] /\ body[c].health \in Nat
      BY <1>2, <1>5, <2>2 DEF Body
    <3>. QED  BY <2>2, <3>1
  <2>. QED  BY <2>1, <2>2
<1>7. killer' = IF Fatal(body[t], d) THEN [killer EXCEPT ![t] = IF @ = Nobody THEN s ELSE @] ELSE killer
  BY DEF Damaged
<1>8. killer' \in [Chars -> Chars \cup {Nobody}]
  BY <1>7 DEF TypeOK
<1>9. hero \in [Players -> Hero] /\ Reward[t] \in Nat
  BY CombatAssumption DEF TypeOK
<1>10. /\ hero' \in [Players -> Hero]
       /\ \A p \in Players :
              /\ hero'[p].xp + hero'[p].lost =
                     (hero[p].xp + hero[p].lost) + (IF p = s /\ Fatal(body[t], d) THEN Reward[t] ELSE 0)
              /\ Paid(hero[p]) => Paid(hero'[p])
  <2>1. CASE hero' = hero /\ ~ (s \in Players /\ Fatal(body[t], d))
    <3>1. \A p \in Players : hero[p].xp + hero[p].lost \in Int
      BY <1>9 DEF Hero
    <3>. QED  BY <1>9, <2>1, <3>1
  <2>2. CASE s \in Players /\ Fatal(body[t], d) /\ body'[s].dead
    <3>1. hero' = [hero EXCEPT ![s].lost = @ + Reward[t]]
      BY <2>2 DEF Damaged, SendXPEvent
    <3>2. /\ hero[s] \in Hero
          /\ hero'[s] = [hero[s] EXCEPT !.lost = @ + Reward[t]]
          /\ \A p \in Players : p # s => hero'[p] = hero[p]
      BY <1>9, <2>2, <3>1
    <3>3. /\ hero'[s] \in Hero
          /\ hero'[s].xp = hero[s].xp /\ hero'[s].lost = hero[s].lost + Reward[t]
          /\ Paid(hero[s]) => Paid(hero'[s])
      <4> DEFINE h == hero[s]
                 k == [h EXCEPT !.lost = @ + Reward[t]]
      <4>1. h \in Hero /\ hero'[s] = k
        BY <3>2
      <4> HIDE DEF h
      <4>2. /\ k \in Hero /\ k.xp = h.xp /\ k.lost = h.lost + Reward[t] /\ k.level = h.level
            /\ k.points = h.points /\ k.spent = h.spent /\ k.spellPoints = h.spellPoints
        BY <1>9, <4>1 DEF Hero
      <4> HIDE DEF k
      <4>3. Paid(h) => Paid(k)
        BY <4>2 DEF Paid
      <4>. QED  BY <4>1, <4>2, <4>3 DEF h
    <3>4. hero' \in [Players -> Hero]
      BY <1>9, <2>2, <3>1, <3>2, <3>3
    <3>5. \A p \in Players : hero[p].xp \in Nat /\ hero[p].lost \in Nat
      BY <1>9 DEF Hero
    <3>6. hero'[s].xp + hero'[s].lost = (hero[s].xp + hero[s].lost) + Reward[t]
      BY <1>9, <2>2, <3>3, <3>5
    <3>7. ASSUME NEW p \in Players
          PROVE  /\ hero'[p].xp + hero'[p].lost =
                        (hero[p].xp + hero[p].lost) + (IF p = s /\ Fatal(body[t], d) THEN Reward[t] ELSE 0)
                 /\ Paid(hero[p]) => Paid(hero'[p])
      <4>1. CASE p = s
        BY <2>2, <3>3, <3>6, <4>1
      <4>2. CASE p # s
        <5>1. hero'[p] = hero[p]
          BY <3>2, <4>2
        <5>. QED  BY <3>5, <4>2, <5>1
      <4>. QED  BY <4>1, <4>2
    <3>. QED  BY <3>4, <3>7
  <2>3. CASE s \in Players /\ Fatal(body[t], d) /\ ~ body'[s].dead
    <3> DEFINE g == HandleIncomingXP(hero[s], Reward[t])
    <3>1. hero' = [hero EXCEPT ![s] = g]
      BY <2>3 DEF Damaged, SendXPEvent
    <3>2. hero[s] \in Hero /\ hero[s].xp \in Nat /\ hero[s].lost \in Nat
      BY <1>9, <2>3 DEF Hero
    <3>3. g \in Hero /\ g.xp = hero[s].xp + Reward[t] /\ g.lost = hero[s].lost /\ (Paid(hero[s]) => Paid(g))
      BY <1>9, <3>2, XPHandled
    <3> HIDE DEF g
    <3>4. hero' \in [Players -> Hero] /\ hero'[s] = g /\ \A p \in Players : p # s => hero'[p] = hero[p]
      BY <1>9, <2>3, <3>1, <3>3
    <3>5. \A p \in Players : hero[p].xp \in Nat /\ hero[p].lost \in Nat
      BY <1>9 DEF Hero
    <3>. QED  BY <1>9, <2>3, <3>2, <3>3, <3>4, <3>5
  <2>. QED  BY <2>1, <2>2, <2>3 DEF Damaged, SendXPEvent
<1>. QED  BY <1>5, <1>6, <1>7, <1>8, <1>10
\* Maximal health is above zero at any level and vigor.
LEMMA MaxHealthGrows ==
    ASSUME NEW v \in Nat \ {0}, NEW l \in Nat \ {0}
    PROVE  MaxHealth(v, l) \in Nat /\ MaxHealth(v, l) > 0
<1>1. /\ MMC.base \in Nat /\ MMC.vigor \in Nat /\ MMC.level \in Nat
      /\ MMC.base + MMC.vigor * 1 + MMC.level * 1 > 0
  BY CombatAssumption DEF MaxHealth
<1>2. ASSUME NEW m \in Nat, NEW n \in Nat \ {0} PROVE m * n \in Nat /\ m * n >= m
  <2>1. n - 1 \in Nat /\ m * (n - 1) \in Nat /\ m * n = m * (n - 1) + m
    OBVIOUS
  <2>. QED  BY <2>1
<1> DEFINE x == MMC.vigor * v
           y == MMC.level * l
<1>3. x \in Nat /\ x >= MMC.vigor /\ y \in Nat /\ y >= MMC.level
  BY <1>1, <1>2
<1>4. MaxHealth(v, l) = MMC.base + x + y
  BY DEF MaxHealth
<1> HIDE DEF x, y
<1>. QED  BY <1>1, <1>3, <1>4

PlayersHaveHealth == \A p \in Players : body[p].maxHealth > 0
LivingWereNotKilled == \A c \in Chars : ~ body[c].dead => killer[c] = Nobody

\* What the other steps do: they kill nobody and pay nobody.
LEMMA NoHarmDone ==
    ASSUME TypeOK, PlayersHaveHealth,
           \/ \E t \in Chars : \E x \in body[t].debuffs : DebuffEnds(t, x)
           \/ \E e \in Enemies : HitReactEnds(e)
           \/ \E i \in items, p \in Players : OnPotionOverlap(i, p)
           \/ \E p \in Players : UpgradeAttribute(p) \/ \E v \in BOOLEAN : ServerUpgradeAttribute(p, v)
           \/ Elsewhere
    PROVE  /\ body' \in [Chars -> Body] /\ hero' \in [Players -> Hero] /\ killer' = killer
           /\ PlayersHaveHealth'
           /\ \A c \in Chars :
                  /\ body'[c].dead = body[c].dead
                  /\ c \in Enemies => body'[c].health <= body[c].health
                  /\ Consistent(body[c]) => Consistent(body'[c])
                  /\ WalksAgain(body[c]) => WalksAgain(body'[c])
           /\ \A p \in Players :
                  /\ hero'[p].xp = hero[p].xp /\ hero'[p].lost = hero[p].lost
                  /\ Paid(hero[p]) => Paid(hero'[p])
<1>1. /\ body \in [Chars -> Body] /\ hero \in [Players -> Hero]
      /\ Players \subseteq Chars /\ Enemies \subseteq Chars /\ Players \cap Enemies = {}
  BY CombatAssumption DEF TypeOK, Chars
<1> DEFINE SameBody(c, n) ==
               /\ n \in Body /\ n.dead = body[c].dead /\ (c \in Players => n.maxHealth > 0)
               /\ c \in Enemies => n.health <= body[c].health
               /\ Consistent(body[c]) => Consistent(n)
               /\ WalksAgain(body[c]) => WalksAgain(n)
           SameHero(p, n) ==
               /\ n \in Hero /\ n.xp = hero[p].xp /\ n.lost = hero[p].lost
               /\ Paid(hero[p]) => Paid(n)
<1>2. /\ \A c \in Chars : body[c] \in Body /\ SameBody(c, body[c])
      /\ \A p \in Players : hero[p] \in Hero /\ SameHero(p, hero[p])
  BY <1>1 DEF Body, PlayersHaveHealth
<1>3. ASSUME NEW c \in Chars, NEW n, SameBody(c, n), body' = [body EXCEPT ![c] = n]
      PROVE  body' \in [Chars -> Body] /\ \A k \in Chars : SameBody(k, body'[k])
  <2> HIDE DEF SameBody
  <2>1. \A k \in Chars : body'[k] = IF k = c THEN n ELSE body[k]
    BY <1>1, <1>3
  <2>2. n \in Body
    BY <1>3 DEF SameBody
  <2>. QED  BY <1>1, <1>2, <1>3, <2>1, <2>2
<1>4. ASSUME NEW p \in Players, NEW n, SameHero(p, n), hero' = [hero EXCEPT ![p] = n]
      PROVE  hero' \in [Players -> Hero] /\ \A k \in Players : SameHero(k, hero'[k])
  <2> HIDE DEF SameHero
  <2>1. \A k \in Players : hero'[k] = IF k = p THEN n ELSE hero[k]
    BY <1>1, <1>4
  <2>2. n \in Hero
    BY <1>4 DEF SameHero
  <2>. QED  BY <1>1, <1>2, <1>4, <2>1, <2>2
<1> DEFINE Goal ==
        /\ body' \in [Chars -> Body] /\ \A k \in Chars : SameBody(k, body'[k])
        /\ hero' \in [Players -> Hero] /\ \A k \in Players : SameHero(k, hero'[k])
        /\ killer' = killer
<1>5. ASSUME NEW t \in Chars, NEW x \in body[t].debuffs, DebuffEnds(t, x) PROVE Goal
  <2> DEFINE n == WithDebuffs(body[t], body[t].debuffs \ {x})
  <2>1. body' = [body EXCEPT ![t] = n] /\ hero' = hero /\ killer' = killer
    BY <1>5 DEF DebuffEnds
  <2>2. body[t].debuffs \ {x} \in DebuffSets
    BY <1>2 DEF Body, DebuffSets
  <2>3. /\ n \in Body /\ n.dead = body[t].dead /\ n.health = body[t].health /\ n.maxHealth = body[t].maxHealth
        /\ Consistent(body[t]) => Consistent(n)
        /\ WalksAgain(body[t]) => WalksAgain(n)
    BY <1>2, <2>2, DebuffsHandled
  <2> HIDE DEF n
  <2>4. SameBody(t, n)
    BY <1>2, <2>3 DEF PlayersHaveHealth, Body
  <2> HIDE DEF SameBody, SameHero
  <2>. QED  BY <1>1, <1>2, <1>3, <2>1, <2>4
<1>6. ASSUME NEW e \in Enemies, HitReactEnds(e) PROVE Goal
  <2> DEFINE n == HitReactTagChanged(body[e], FALSE)
  <2>1. body' = [body EXCEPT ![e] = n] /\ hero' = hero /\ killer' = killer /\ e \in Chars
    BY <1>1, <1>6 DEF HitReactEnds
  <2>2. SameBody(e, n)
    BY <1>1, <1>2, <2>1 DEF PlayersHaveHealth, Body, HitReactTagChanged, Consistent, WalksAgain
  <2> HIDE DEF SameBody, SameHero, n
  <2>. QED  BY <1>1, <1>2, <1>3, <2>1, <2>2
<1>7. ASSUME NEW i \in items, NEW p \in Players, OnPotionOverlap(i, p) PROVE Goal
  <2> DEFINE h == Min({body[p].health + 1, body[p].maxHealth})
             n == [body[p] EXCEPT !.health = h]
  <2>1. body' = [body EXCEPT ![p] = n] /\ hero' = hero /\ killer' = killer /\ p \in Chars
    BY <1>1, <1>7 DEF OnPotionOverlap
  <2>2. h \in {body[p].health + 1, body[p].maxHealth}
    <3>1. {body[p].health + 1, body[p].maxHealth} \subseteq Nat
      BY <1>2, <2>1 DEF Body
    <3>. QED  BY <3>1, MinIsLeast
  <2>3. h \in Nat /\ h > 0
    <3>1. body[p].health \in Nat /\ body[p].maxHealth \in Nat /\ body[p].maxHealth > 0
      BY <1>2, <2>1 DEF Body, PlayersHaveHealth
    <3> HIDE DEF h
    <3>. QED  BY <2>2, <3>1
  <2> HIDE DEF h
  <2>4. SameBody(p, n)
    BY <1>1, <1>2, <2>1, <2>3 DEF PlayersHaveHealth, Body, Consistent, WalksAgain
  <2> HIDE DEF SameBody, SameHero, n
  <2>. QED  BY <1>1, <1>2, <1>3, <2>1, <2>4
<1>8. ASSUME NEW p \in Players, UpgradeAttribute(p) PROVE Goal
  <2> DEFINE n == [hero[p] EXCEPT !.calls = @ + 1]
  <2>1. hero' = [hero EXCEPT ![p] = n] /\ body' = body /\ killer' = killer /\ hero[p].calls < MaxCalls
    BY <1>8 DEF UpgradeAttribute
  <2>2. n \in Hero /\ n.xp = hero[p].xp /\ n.lost = hero[p].lost /\ n.level = hero[p].level
        /\ n.points = hero[p].points /\ n.spent = hero[p].spent /\ n.spellPoints = hero[p].spellPoints
    <3>1. hero[p] \in Hero /\ MaxCalls \in Nat
      BY <1>2, CombatAssumption
    <3>2. hero[p].calls + 1 \in 0..MaxCalls
      BY <2>1, <3>1 DEF Hero
    <3>. QED  BY <3>1, <3>2 DEF Hero
  <2> HIDE DEF n
  <2>3. SameHero(p, n)
    BY <2>2 DEF Paid
  <2> HIDE DEF SameBody, SameHero
  <2>. QED  BY <1>1, <1>2, <1>4, <2>1, <2>3
<1>9. ASSUME NEW p \in Players, NEW vigor \in BOOLEAN, ServerUpgradeAttribute(p, vigor) PROVE Goal
  <2> DEFINE h   == [hero[p] EXCEPT !.calls = @ - 1, !.points = @ - 1, !.spent = @ + 1]
             k   == [h EXCEPT !.vigor = @ + 1, !.topOff = FALSE]
             max == MaxHealth(h.vigor + 1, h.level)
  <2>1. hero[p].calls > 0 /\ hero[p] \in Hero /\ p \in Chars
    BY <1>1, <1>2, <1>9 DEF ServerUpgradeAttribute
  <2>2. h \in Hero /\ h.xp = hero[p].xp /\ h.lost = hero[p].lost /\ h.level = hero[p].level
        /\ h.points = hero[p].points - 1 /\ h.spent = hero[p].spent + 1 /\ h.spellPoints = hero[p].spellPoints
    <3>1. MaxCalls \in Nat
      BY CombatAssumption
    <3>2. hero[p].calls - 1 \in 0..MaxCalls /\ hero[p].points - 1 \in Int /\ hero[p].spent + 1 \in Nat
      BY <2>1, <3>1 DEF Hero
    <3>. QED  BY <2>1, <3>2 DEF Hero
  <2>3. hero[p].points \in Int /\ hero[p].spent \in Nat
    BY <2>1 DEF Hero
  <2>4. IF vigor
        THEN /\ hero' = [hero EXCEPT ![p] = k]
             /\ body' = [body EXCEPT ![p].maxHealth = max, ![p].health = IF h.topOff THEN max ELSE @]
        ELSE hero' = [hero EXCEPT ![p] = h] /\ body' = body
    BY <1>9 DEF ServerUpgradeAttribute
  <2>5. killer' = killer
    BY <1>9 DEF ServerUpgradeAttribute
  <2> HIDE DEF h
  <2>6. SameHero(p, h)
    <3>1. h.points + h.spent = hero[p].points + hero[p].spent
      BY <2>2, <2>3
    <3>. QED  BY <2>2, <3>1 DEF Paid
  <2>7. k \in Hero /\ k.xp = h.xp /\ k.lost = h.lost /\ k.level = h.level
        /\ k.points = h.points /\ k.spent = h.spent /\ k.spellPoints = h.spellPoints
    <3>1. h \in Hero /\ h.vigor + 1 \in Nat \ {0}
      BY <2>2 DEF Hero
    <3>. QED  BY <3>1 DEF Hero
  <2> HIDE DEF k
  <2>8. SameHero(p, k)
    <3>1. Paid(h) => Paid(k)
      BY <2>7 DEF Paid
    <3>. QED  BY <2>6, <2>7, <3>1
  <2>9. max \in Nat /\ max > 0
    <3>1. h.vigor + 1 \in Nat \ {0} /\ h.level \in Nat \ {0}
      BY <2>2, AwardsAreNumbers DEF Hero
    <3>. QED  BY <3>1, MaxHealthGrows
  <2> DEFINE n == [body[p] EXCEPT !.maxHealth = max, !.health = IF h.topOff THEN max ELSE @]
  <2> HIDE DEF max
  <2>10. SameBody(p, n)
    BY <1>1, <1>2, <2>1, <2>9 DEF PlayersHaveHealth, Body, Consistent, WalksAgain
  <2>11. vigor => body' = [body EXCEPT ![p] = n]
    BY <1>1, <2>1, <2>4
  <2> HIDE DEF SameBody, SameHero, n
  <2>. QED  BY <1>1, <1>2, <1>3, <1>4, <2>1, <2>4, <2>5, <2>6, <2>8, <2>10, <2>11
<1>10. ASSUME Elsewhere PROVE Goal
  <2> HIDE DEF SameBody, SameHero
  <2>. QED  BY <1>1, <1>2, <1>10 DEF Elsewhere
<1>11. Goal
  <2> HIDE DEF Goal
  <2>. QED  BY <1>5, <1>6, <1>7, <1>8, <1>9, <1>10
<1>. QED  BY <1>1, <1>11 DEF PlayersHaveHealth
----------------------------------------------------------------------------
(* The invariants.                                                         *)

AllPaid == \A p \in Players : Paid(hero[p])

IInv ==
    /\ TypeOK /\ PlayersHaveHealth /\ LivingWereNotKilled
    /\ DeathsPaidOnce /\ AllPaid
    /\ \A c \in Chars : Consistent(body[c]) /\ WalksAgain(body[c])

\* A new player has the first level.
LEMMA LevelOfNoXP == FindLevelForXP(0) = 1
<1>1. 1 \in 1..MaxLevel /\ LevelUpInformation[1].requirement > 0
  BY CombatAssumption, AwardsAreNumbers
<1>. QED  BY <1>1, LevelFound

LEMMA InitIInv == Init => IInv
<1> SUFFICES ASSUME Init PROVE IInv
  OBVIOUS
<1>1. MaxHealth(1, 1) \in Nat /\ MaxHealth(1, 1) > 0
  BY MaxHealthGrows
<1>2. \A c \in Chars \ Players : EnemyHealth[c] \in Nat \ {0}
  BY CombatAssumption DEF Chars
<1> DEFINE full(c) == IF c \in Players THEN MaxHealth(1, 1) ELSE EnemyHealth[c]
<1>3. \A c \in Chars : full(c) \in Nat \ {0} /\ body[c] = Unhurt(full(c))
  BY <1>1, <1>2 DEF Init
<1>4. \A n \in Nat \ {0} : Unhurt(n) \in Body /\ Consistent(Unhurt(n)) /\ WalksAgain(Unhurt(n)) /\ Unhurt(n).maxHealth > 0
                       /\ ~ Unhurt(n).dead
  BY DEF Unhurt, Body, Consistent, WalksAgain
<1>5. \A c \in Chars : body[c] \in Body /\ Consistent(body[c]) /\ WalksAgain(body[c]) /\ body[c].maxHealth > 0
  <2> HIDE DEF full
  <2>. QED  BY <1>3, <1>4
<1>6. body \in [Chars -> Body]
  BY <1>5 DEF Init
<1> DEFINE new == [xp |-> 0, level |-> 1, points |-> 0, spellPoints |-> 0, vigor |-> 1,
                   topOff |-> FALSE, calls |-> 0, spent |-> 0, lost |-> 0]
<1>7. 1 \in 1..MaxLevel /\ MaxCalls \in Nat
  BY CombatAssumption, AwardsAreNumbers
<1>8. new \in Hero
  BY <1>7 DEF Hero
<1>9. Paid(new)
  <2>1. 1..(1 - 1) = {}
    OBVIOUS
  <2>. QED  BY <2>1, LevelOfNoXP, SumEmpty DEF Paid
<1>10. hero = [p \in Players |-> new]
  BY DEF Init
<1> HIDE DEF new
<1>11. hero \in [Players -> Hero] /\ AllPaid
  BY <1>8, <1>9, <1>10 DEF AllPaid
<1>12. DeathsPaidOnce
  <2>1. ASSUME NEW p \in Players PROVE {c \in Chars : killer[c] = p} = {}
    BY CombatAssumption DEF Init, Chars
  <2>2. \A p \in Players : hero[p].xp = 0 /\ hero[p].lost = 0
    BY DEF Init
  <2>. QED  BY <2>1, <2>2, SumEmpty DEF DeathsPaidOnce
<1>13. TypeOK
  BY <1>6, <1>11 DEF Init, TypeOK
<1>14. PlayersHaveHealth /\ LivingWereNotKilled
  BY <1>5 DEF PlayersHaveHealth, LivingWereNotKilled, Init, Chars
<1>. QED  BY <1>5, <1>11, <1>12, <1>13, <1>14 DEF IInv

\* The variables no damage reads keep their types.
LEMMA RestTyped ==
    ASSUME TypeOK, Next
    PROVE  /\ gone' \subseteq Enemies /\ bolts' \subseteq Chars \X Attacks
           /\ items' \subseteq Potions \cup Areas /\ inArea' \subseteq Areas \X Chars
<1> DEFINE Typed == /\ gone' \subseteq Enemies /\ bolts' \subseteq Chars \X Attacks
                    /\ items' \subseteq Potions \cup Areas /\ inArea' \subseteq Areas \X Chars
<1>1. /\ gone \subseteq Enemies /\ bolts \subseteq Chars \X Attacks
      /\ items \subseteq Potions \cup Areas /\ inArea \subseteq Areas \X Chars
  BY DEF TypeOK
<1>2. CASE UNCHANGED <<gone, bolts, items, inArea>>
  BY <1>1, <1>2
<1>3. ASSUME NEW s \in Chars, NEW a \in Attacks, SpawnProjectile(s, a) PROVE Typed
  BY <1>1, <1>3 DEF SpawnProjectile
<1>4. ASSUME NEW x \in bolts, Vanish(x) \/ \E t \in Chars : OnSphereOverlap(x, t) PROVE Typed
  BY <1>1, <1>4 DEF Vanish, OnSphereOverlap
<1>5. ASSUME NEW e \in Enemies, Destroyed(e) PROVE Typed
  BY <1>1, <1>5 DEF Destroyed
<1>6. ASSUME NEW i \in items, NEW c \in Chars, OnAreaOverlap(i, c) PROVE Typed
  BY <1>1, <1>6 DEF OnAreaOverlap
<1>7. ASSUME NEW i \in items, NEW p \in Players, OnPotionOverlap(i, p) PROVE Typed
  BY <1>1, <1>7 DEF OnPotionOverlap
<1>8. ASSUME NEW x \in inArea, OnEndOverlap(x) PROVE Typed
  BY <1>1, <1>8 DEF OnEndOverlap
<1> HIDE DEF Typed
<1>9. \/ UNCHANGED <<gone, bolts, items, inArea>>
      \/ \E s \in Chars, a \in Attacks : SpawnProjectile(s, a)
      \/ \E x \in bolts : Vanish(x) \/ \E t \in Chars : OnSphereOverlap(x, t)
      \/ \E e \in Enemies : Destroyed(e)
      \/ \E i \in items, c \in Chars : OnAreaOverlap(i, c)
      \/ \E i \in items, p \in Players : OnPotionOverlap(i, p)
      \/ \E x \in inArea : OnEndOverlap(x)
  BY DEF Next, CauseDamage, Shock, DebuffTick, DebuffEnds, HitReactEnds, AreaTick, UpgradeAttribute, ServerUpgradeAttribute
<1>10. Typed
  BY <1>2, <1>3, <1>4, <1>5, <1>6, <1>7, <1>8, <1>9 DEF Typed
<1>. QED  BY <1>10 DEF Typed

\* Damage keeps the invariant: the dead stay dead and unpaid for, a death is paid to its killer.
LEMMA HarmKeepsIInv ==
    ASSUME IInv, Next, Harm
    PROVE  IInv'
<1>1. PICK s \in Chars \cup {Nobody}, t \in Chars, d \in Int, debuffs \in DebuffSets : Damaged(s, t, d, debuffs)
  BY DEF Harm
<1> DEFINE fatal == Fatal(body[t], d)
<1>2. /\ body' \in [Chars -> Body] /\ hero' \in [Players -> Hero]
      /\ killer' \in [Chars -> Chars \cup {Nobody}]
      /\ \A c \in Chars :
             /\ body'[c].dead <=> body[c].dead \/ (c = t /\ fatal)
             /\ body'[c].maxHealth = body[c].maxHealth
             /\ Consistent(body[c]) => Consistent(body'[c])
             /\ WalksAgain(body[c]) => WalksAgain(body'[c])
      /\ \A p \in Players :
             /\ hero'[p].xp + hero'[p].lost =
                    (hero[p].xp + hero[p].lost) + (IF p = s /\ fatal THEN Reward[t] ELSE 0)
             /\ Paid(hero[p]) => Paid(hero'[p])
      /\ killer' = IF fatal THEN [killer EXCEPT ![t] = IF @ = Nobody THEN s ELSE @] ELSE killer
  BY <1>1, HarmDone DEF IInv
<1>3. fatal => ~ body[t].dead
  BY DEF Fatal, Hurts
<1> HIDE DEF fatal
<1>4. TypeOK'
  BY <1>2, RestTyped DEF IInv, TypeOK
<1>5. PlayersHaveHealth' /\ AllPaid' /\ \A c \in Chars : Consistent(body'[c]) /\ WalksAgain(body'[c])
  BY <1>2 DEF IInv, PlayersHaveHealth, AllPaid, Chars
<1>6. fatal => killer[t] = Nobody /\ killer' = [killer EXCEPT ![t] = s]
  BY <1>2, <1>3 DEF IInv, LivingWereNotKilled
<1>7. LivingWereNotKilled'
  <2>1. ASSUME NEW c \in Chars, ~ body'[c].dead PROVE killer'[c] = Nobody
    <3>1. ~ body[c].dead /\ ~ (c = t /\ fatal)
      BY <1>2, <2>1
    <3>2. killer[c] = Nobody
      BY <3>1 DEF IInv, LivingWereNotKilled
    <3>. QED  BY <1>2, <1>6, <3>1, <3>2 DEF IInv, TypeOK
  <2>. QED  BY <2>1 DEF LivingWereNotKilled
<1>8. DeathsPaidOnce'
  <2> SUFFICES ASSUME NEW p \in Players
               PROVE  hero'[p].xp + hero'[p].lost = SumFunctionOnSet(Reward, {c \in Chars : killer'[c] = p})
    BY DEF DeathsPaidOnce
  <2> DEFINE killed == {c \in Chars : killer[c] = p}
  <2>1. hero[p].xp + hero[p].lost = SumFunctionOnSet(Reward, killed)
    BY DEF IInv, DeathsPaidOnce
  <2>2. p # Nobody /\ \A c \in Chars : Reward[c] \in Nat
    BY CombatAssumption DEF Chars
  <2>3. IsFiniteSet(killed)
    BY CombatAssumption, FS_Subset
  <2>4. SumFunctionOnSet(Reward, killed) \in Int
    BY <2>2, <2>3, SumIsInt
  <2>5. CASE p = s /\ fatal
    <3>1. {c \in Chars : killer'[c] = p} = killed \cup {t} /\ t \notin killed
      BY <1>6, <2>2, <2>5 DEF IInv, TypeOK
    <3>2. SumFunctionOnSet(Reward, killed \cup {t}) = SumFunctionOnSet(Reward, killed) + Reward[t]
      <4>1. t \notin killed /\ \A c \in killed \cup {t} : Reward[c] \in Int
        BY <2>2, <3>1
      <4> HIDE DEF killed
      <4>. QED  BY <2>3, <4>1, SumWith
    <3>3. hero'[p].xp + hero'[p].lost = (hero[p].xp + hero[p].lost) + Reward[t]
      BY <1>2, <2>5
    <3> HIDE DEF killed
    <3>. QED  BY <2>1, <3>1, <3>2, <3>3
  <2>6. CASE ~ (p = s /\ fatal)
    <3>1. {c \in Chars : killer'[c] = p} = killed
      BY <1>2, <1>6, <2>2, <2>6 DEF IInv, TypeOK
    <3>2. hero'[p].xp + hero'[p].lost = (hero[p].xp + hero[p].lost) + 0
      BY <1>2, <2>6
    <3> HIDE DEF killed
    <3>3. hero'[p].xp + hero'[p].lost = SumFunctionOnSet(Reward, killed)
      BY <2>1, <2>4, <3>2
    <3>. QED  BY <3>1, <3>3
  <2>. QED  BY <2>5, <2>6
<1>. QED  BY <1>4, <1>5, <1>7, <1>8 DEF IInv

LEMMA NextIInv == IInv /\ [Next]_vars => IInv'
<1> SUFFICES ASSUME IInv, [Next]_vars PROVE IInv'
  OBVIOUS
<1>1. CASE UNCHANGED vars
  BY <1>1 DEF vars, IInv, TypeOK, PlayersHaveHealth, LivingWereNotKilled, DeathsPaidOnce, AllPaid
<1>2. CASE Next /\ Harm
  BY <1>2, HarmKeepsIInv
<1>3. CASE Next /\ ~ Harm
  <2>1. /\ body' \in [Chars -> Body] /\ hero' \in [Players -> Hero] /\ killer' = killer
        /\ PlayersHaveHealth'
        /\ \A c \in Chars :
               /\ body'[c].dead = body[c].dead
               /\ Consistent(body[c]) => Consistent(body'[c])
               /\ WalksAgain(body[c]) => WalksAgain(body'[c])
        /\ \A p \in Players :
               /\ hero'[p].xp = hero[p].xp /\ hero'[p].lost = hero[p].lost
               /\ Paid(hero[p]) => Paid(hero'[p])
    BY <1>3, StepCases, NoHarmDone DEF IInv
  <2>2. TypeOK'
    BY <1>3, <2>1, RestTyped DEF IInv, TypeOK
  <2>3. LivingWereNotKilled' /\ AllPaid' /\ \A c \in Chars : Consistent(body'[c]) /\ WalksAgain(body'[c])
    BY <2>1 DEF IInv, LivingWereNotKilled, AllPaid
  <2>4. DeathsPaidOnce'
    BY <2>1 DEF IInv, DeathsPaidOnce
  <2>. QED  BY <2>1, <2>2, <2>3, <2>4 DEF IInv
<1>. QED  BY <1>1, <1>2, <1>3

(* The inductive invariant: bodies, player states and killers fit each     *)
(* other in every state.                                                   *)
THEOREM AlwaysIInv == Spec => []IInv
BY InitIInv, NextIInv, PTL DEF Spec

(* Bodies and player states keep their types through damage, debuffs,      *)
(* experience, potions, areas and upgrades: health never gets below zero,  *)
(* a level always has an entry in LevelUpInformation.                      *)
THEOREM CombatTyped == Spec => []TypeOK
<1>1. IInv => TypeOK
  BY DEF IInv
<1>. QED  BY <1>1, AlwaysIInv, PTL

(* HandleIncomingDamage sends the XP event of each death once, to the      *)
(* player whose damage it was, whatever goes on hitting the dead.          *)
THEOREM EveryDeathPaidOnce == Spec => []DeathsPaidOnce
<1>1. IInv => DeathsPaidOnce
  BY DEF IInv
<1>. QED  BY <1>1, AlwaysIInv, PTL

(* A player has the level FindLevelForXP finds for the XP, and             *)
(* HandleIncomingXP has paid the awards of each level passed.              *)
THEOREM EveryLevelPaid == Spec => []LevelsPaid
<1>1. IInv => LevelsPaid
  BY DEF IInv, AllPaid, Paid, LevelsPaid
<1>. QED  BY <1>1, AlwaysIInv, PTL

(* Who lives has health, and the dead show no debuff, although a fatal hit *)
(* still applies its own (Die, DebuffTagChanged).                          *)
THEOREM AllDeadOrAlive == Spec => []DeadOrAlive
<1>1. IInv => DeadOrAlive
  BY DEF IInv, Consistent, DeadOrAlive
<1>. QED  BY <1>1, AlwaysIInv, PTL

(* StunTagChanged and HitReactTagChanged both set the walk speed, in any   *)
(* order: nobody is rooted when neither a stun nor a reaction goes on.     *)
THEOREM AllWalkAgain == Spec => []NobodyStaysRooted
<1>1. IInv => NobodyStaysRooted
  BY DEF IInv, WalksAgain, NobodyStaysRooted
<1>. QED  BY <1>1, AlwaysIInv, PTL

(* No step gives an enemy health, for damage that armor made negative is   *)
(* not applied (PostGameplayEffectExecute).                                *)
THEOREM NoHitHeals == Spec => HitsNeverHeal
<1>1. IInv /\ [Next]_vars => [\A e \in Enemies : body'[e].health <= body[e].health]_vars
  <2> SUFFICES ASSUME IInv, Next PROVE \A e \in Enemies : body'[e].health <= body[e].health
    OBVIOUS
  <2>1. CASE Harm
    BY <2>1, HarmDone DEF Harm, IInv, Chars
  <2>2. CASE ~ Harm
    BY <2>2, StepCases, NoHarmDone DEF IInv, Chars
  <2>. QED  BY <2>1, <2>2
<1>. QED  BY <1>1, AlwaysIInv, PTL DEF Spec, HitsNeverHeal
----------------------------------------------------------------------------
(* What a client reads of a hit.                                           *)

Origin == "RadialDamageOrigin"

\* The origin is the last field, and only it.
LEMMA OriginIsLast ==
    /\ DOMAIN Fields = 1..20
    /\ \A i \in 1..20 : Fields[i] = Origin <=> i = 20
<1>1. DOMAIN Fields = 1..20
  BY DEF Fields
<1>2. \A i \in 1..20 : \/ i = 1 \/ i = 2 \/ i = 3 \/ i = 4 \/ i = 5 \/ i = 6 \/ i = 7 \/ i = 8 \/ i = 9 \/ i = 10
                         \/ i = 11 \/ i = 12 \/ i = 13 \/ i = 14 \/ i = 15 \/ i = 16 \/ i = 17 \/ i = 18
                         \/ i = 19 \/ i = 20
  OBVIOUS
<1>. QED  BY <1>1, <1>2 DEF Fields, Origin

\* Each field has one index.
LEMMA IndexOfField ==
    ASSUME NEW f \in ToSet(Fields)
    PROVE  /\ Index[f] \in 1..20 /\ Fields[Index[f]] = f
           /\ f # Origin => Index[f] < 20
           /\ f = Origin => Index[f] = 20
<1>1. \E i \in DOMAIN Fields : Fields[i] = f
  BY DEF ToSet
<1>2. Index[f] \in DOMAIN Fields /\ Fields[Index[f]] = f
  BY <1>1 DEF Index
<1>3. Index[f] \in 1..20
  BY <1>2, OriginIsLast
<1> HIDE DEF Index
<1>. QED  BY <1>2, <1>3, OriginIsLast

\* What is sent of the bits are all but the origin's.
LEMMA AllButOriginSent ==
    ASSUME NEW bits \in SUBSET ToSet(Fields)
    PROVE  SentBits(bits) = bits \ {Origin}
<1>1. Len(Fields) = 20 /\ Fields \in Seq(ToSet(Fields))
  BY DEF Fields, ToSet
<1> DEFINE sent == SubSeq(Fields, 1, 19)
<1>2. DOMAIN sent = 1..19 /\ \A i \in 1..19 : sent[i] = Fields[i]
  <2> HIDE DEF Fields
  <2>. QED  BY <1>1
<1> HIDE DEF sent
<1>3. ASSUME NEW f \in bits PROVE f \in ToSet(sent) <=> f # Origin
  <2>1. CASE f # Origin
    <3>1. Index[f] \in 1..19 /\ Fields[Index[f]] = f
      BY <2>1, IndexOfField
    <3>. QED  BY <2>1, <3>1, <1>2 DEF ToSet
  <2>2. CASE f = Origin
    <3>1. \A i \in 1..19 : sent[i] # Origin
      BY <1>2, OriginIsLast
    <3>. QED  BY <2>2, <3>1, <1>2 DEF ToSet
  <2>. QED  BY <2>1, <2>2
<1>. QED  BY <1>3 DEF SentBits, sent

\* The fields of a message can be counted.
LEMMA FieldsFinite ==
    ASSUME NEW S \in SUBSET ToSet(Fields)
    PROVE  IsFiniteSet(S) /\ Cardinality(S) \in Nat
<1>1. IsFiniteSet(1..20)
  <2> DEFINE n == 20
  <2>1. n \in Int
    OBVIOUS
  <2> HIDE DEF n
  <2>2. IsFiniteSet(1..n)
    BY <2>1, FS_Interval
  <2>. QED  BY <2>2 DEF n
<1> DEFINE At == [i \in 1..20 |-> Fields[i]]
<1>2. At \in Surjection(1..20, ToSet(Fields))
  BY OriginIsLast DEF Surjection, ToSet
<1>3. IsFiniteSet(ToSet(Fields))
  BY <1>1, <1>2, FS_Surjection
<1>4. IsFiniteSet(S)
  BY <1>3, FS_Subset
<1>. QED  BY <1>4, FS_CardinalityType

\* The places of the fields of a set are numbers up to their number, one for each.
LEMMA PlacesDiffer ==
    ASSUME NEW S \in SUBSET ToSet(Fields), NEW f \in S
    PROVE  /\ Place(f, S) \in 1..Cardinality(S)
           /\ \A g \in S : Place(g, S) = Place(f, S) => g = f
<1> DEFINE upTo(g) == {h \in S : Index[h] <= Index[g]}
<1>1. ASSUME NEW g \in S
      PROVE  /\ upTo(g) \in SUBSET ToSet(Fields) /\ upTo(g) \subseteq S /\ Index[g] \in Int
             /\ g \in upTo(g) /\ Place(g, S) = Cardinality(upTo(g)) /\ IsFiniteSet(upTo(g))
             /\ Place(g, S) \in Nat
  <2>1. Index[g] \in Int
    BY IndexOfField
  <2>2. upTo(g) \in SUBSET ToSet(Fields) /\ upTo(g) \subseteq S /\ g \in upTo(g)
    BY <2>1
  <2>3. Place(g, S) = Cardinality(upTo(g))
    BY DEF Place
  <2> HIDE DEF upTo
  <2>. QED  BY <2>1, <2>2, <2>3, FieldsFinite
<1>2. ASSUME NEW g \in S, NEW h \in S, Index[g] < Index[h]
      PROVE  Place(g, S) < Place(h, S)
  <2>1. upTo(g) \subseteq upTo(h) /\ h \notin upTo(g) /\ h \in upTo(h)
    <3>1. \A k \in S : Index[k] \in Int
      BY <1>1
    <3>. QED  BY <1>2, <3>1
  <2>2. Place(g, S) = Cardinality(upTo(g)) /\ Place(h, S) = Cardinality(upTo(h)) /\ IsFiniteSet(upTo(h))
        /\ Place(g, S) \in Nat /\ Place(h, S) \in Nat
    BY <1>1
  <2> HIDE DEF upTo
  <2>3. Cardinality(upTo(g)) <= Cardinality(upTo(h)) /\ Cardinality(upTo(g)) # Cardinality(upTo(h))
    BY <2>1, <2>2, FS_Subset
  <2>. QED  BY <2>2, <2>3
<1>3. Place(f, S) \in 1..Cardinality(S)
  <2>1. IsFiniteSet(S) /\ Cardinality(S) \in Nat
    BY FieldsFinite
  <2>2. upTo(f) \subseteq S /\ f \in upTo(f) /\ IsFiniteSet(upTo(f)) /\ Place(f, S) = Cardinality(upTo(f))
        /\ Place(f, S) \in Nat
    BY <1>1
  <2> HIDE DEF upTo
  <2>3. Cardinality(upTo(f)) <= Cardinality(S)
    BY <2>1, <2>2, FS_Subset
  <2>4. Cardinality(upTo(f)) # 0
    BY <2>2, FS_EmptySet
  <2>. QED  BY <2>1, <2>2, <2>3, <2>4
<1>4. ASSUME NEW g \in S, Place(g, S) = Place(f, S) PROVE g = f
  <2>1. Index[g] \in Int /\ Index[f] \in Int /\ Place(g, S) \in Nat /\ Place(f, S) \in Nat
    BY <1>1
  <2>2. ~ (Index[g] < Index[f]) /\ ~ (Index[f] < Index[g])
    BY <1>2, <1>4, <2>1
  <2>3. Index[g] = Index[f]
    BY <2>1, <2>2
  <2>. QED  BY <2>3, IndexOfField
<1>. QED  BY <1>3, <1>4

\* Without the origin's bit, the places before it are the same.
LEMMA PlaceWithoutOrigin ==
    ASSUME NEW S \in SUBSET ToSet(Fields), NEW f \in S \ {Origin}
    PROVE  Place(f, S \ {Origin}) = Place(f, S)
<1>1. Index[f] < 20 /\ Index[f] \in Int
  BY IndexOfField
<1>2. \A g \in S : g = Origin => Index[g] = 20
  BY IndexOfField
<1>3. {g \in S \ {Origin} : Index[g] <= Index[f]} = {g \in S : Index[g] <= Index[f]}
  BY <1>1, <1>2
<1>. QED  BY <1>3 DEF Place

\* Any context arrives, but for the origin.
LEMMA ContextsArrive ==
    ASSUME NEW ctx \in [ToSet(Fields) -> Nat]
    PROVE  /\ \A f \in ToSet(Fields) :
                  (f \in RadialFields => ctx["bIsRadialDamage"] > 0) /\ f # Origin
                  => Get(Read(Written(ctx)), f) = ctx[f]
           /\ Get(ctx, Origin) = 0 => Unread(Written(ctx)) = 0
<1> DEFINE bits == RepBits(ctx)
           msg  == Written(ctx)
<1>1. bits \in SUBSET ToSet(Fields)
  BY DEF RepBits
<1>2. msg.bits = bits \ {Origin}
  BY <1>1, AllButOriginSent DEF Written
<1>3. msg.values = [i \in 1..Cardinality(bits) |-> ctx[CHOOSE f \in bits : Place(f, bits) = i]]
  BY DEF Written
<1>4. \A f \in ToSet(Fields) : Read(msg)[f] = IF f \in msg.bits THEN msg.values[Place(f, msg.bits)] ELSE 0
  BY DEF Read
<1>5. ASSUME NEW f \in ToSet(Fields), f \in RadialFields => ctx["bIsRadialDamage"] > 0, f # Origin
      PROVE  Get(Read(msg), f) = ctx[f]
  <2> HIDE DEF msg
  <2>1. CASE f \in bits
    <3> HIDE DEF bits
    <3>1. Place(f, msg.bits) = Place(f, bits)
      BY <1>1, <1>2, <1>5, <2>1, PlaceWithoutOrigin
    <3>2. Place(f, bits) \in 1..Cardinality(bits) /\ \A g \in bits : Place(g, bits) = Place(f, bits) => g = f
      BY <1>1, <2>1, PlacesDiffer
    <3>3. (CHOOSE g \in bits : Place(g, bits) = Place(f, bits)) = f
      BY <2>1, <3>2
    <3>4. msg.values[Place(f, bits)] = ctx[f]
      BY <1>3, <3>2, <3>3
    <3>. QED  BY <1>2, <1>4, <1>5, <2>1, <3>1, <3>4 DEF Get
  <2>2. CASE f \notin bits
    <3>1. ctx[f] = 0
      BY <1>5, <2>2 DEF RepBits
    <3> HIDE DEF bits
    <3>. QED  BY <1>2, <1>4, <2>2, <3>1 DEF Get
  <2>. QED  BY <2>1, <2>2
<1>6. ASSUME Get(ctx, Origin) = 0 PROVE Unread(msg) = 0
  <2>1. Origin \notin bits
    BY <1>6 DEF RepBits, Get
  <2>2. msg.bits = bits
    BY <1>2, <2>1
  <2>3. Cardinality(bits) \in Nat
    BY <1>1, FieldsFinite
  <2> HIDE DEF msg, bits
  <2>4. Len(msg.values) = Cardinality(bits)
    BY <1>3, <2>3
  <2>. QED  BY <2>2, <2>3, <2>4 DEF Unread
<1>. QED  BY <1>5, <1>6

\* An attack with the rolls of a hit.
Cues == Attacks \X BOOLEAN \X BOOLEAN \X BOOLEAN \X BOOLEAN

\* The contexts of ApplyDamageEffect arrive.
LEMMA CuesArrive == Cues \subseteq Arriving
<1> SUFFICES ASSUME NEW a \in Attacks, NEW blocked \in BOOLEAN, NEW critical \in BOOLEAN,
                    NEW debuff \in BOOLEAN, NEW knockback \in BOOLEAN
             PROVE  <<a, blocked, critical, debuff, knockback>> \in Arriving
  BY DEF Cues
<1> DEFINE sent == Context(a, blocked, critical, debuff, knockback)
<1>1. Params[a] \in DamageEffectParams
  BY CombatAssumption
<1>2. \A b \in BOOLEAN : Flag(b) \in Nat
  BY DEF Flag
<1>3. sent \in [ToSet(Fields) -> Nat]
  BY <1>1, <1>2 DEF Context, NewContext, DamageEffectParams
<1> HIDE DEF sent
<1>4. /\ \A f \in ToSet(Fields) :
             (f \in RadialFields => sent["bIsRadialDamage"] > 0) /\ f # "RadialDamageOrigin"
             => Get(Read(Written(sent)), f) = sent[f]
      /\ Get(sent, "RadialDamageOrigin") = 0 => Unread(Written(sent)) = 0
  BY <1>3, ContextsArrive DEF Origin
<1>. QED  BY <1>4 DEF Arriving, sent

\* What a step leaves to tell clients is one of these, or nothing.
LEMMA NextCue ==
    ASSUME TypeOK, Next
    PROVE  cue' = NoCue \/ cue' \in Cues
<1>1. ASSUME NEW s \in Chars, NEW t \in Chars, NEW a \in Attacks, ApplyDamageEffect(s, t, a)
      PROVE  cue' \in Cues
  <2>1. PICK r \in Execute(s, t, a), knockback \in Knockback(a) : cue' = <<a, r.blocked, r.critical, r.debuff, knockback>>
    BY <1>1 DEF ApplyDamageEffect
  <2>2. r.blocked \in BOOLEAN /\ r.critical \in BOOLEAN /\ r.debuff \in BOOLEAN
    <3>1. \E blocked \in Chance(100 * AtLeastZero(Attributes[t].block)),
             critical \in Chance(100 * AtLeastZero(Attributes[s].critical)), debuff \in DetermineDebuff(t, a) :
                 r.blocked = blocked /\ r.critical = critical /\ r.debuff = debuff
      BY DEF Execute
    <3>2. (\A n : Chance(n) \subseteq BOOLEAN) /\ DetermineDebuff(t, a) \subseteq BOOLEAN
      BY DEF Chance, DetermineDebuff
    <3>. QED  BY <3>1, <3>2
  <2>3. knockback \in BOOLEAN
    <3>1. Chance(100 * Params[a].knockback) \subseteq BOOLEAN /\ {Params[a].knockback > 0} \subseteq BOOLEAN
      BY DEF Chance
    <3>. QED  BY <3>1 DEF Knockback
  <2>. QED  BY <2>1, <2>2, <2>3 DEF Cues
<1>2. ASSUME NEW s \in Chars, NEW t \in Chars, NEW a \in Attacks, CauseDamage(s, t, a) PROVE cue' \in Cues
  BY <1>1, <1>2 DEF CauseDamage
<1>3. ASSUME NEW s \in Chars, NEW first \in Chars, NEW t \in Chars, Shock(s, first, t) PROVE cue' \in Cues
  <2>1. "beam" \in Attacks
    BY <1>3, CombatAssumption DEF Shock
  <2>. QED  BY <1>1, <1>3, <2>1 DEF Shock
<1>4. ASSUME NEW x \in bolts, NEW t \in Chars, OnSphereOverlap(x, t) PROVE cue' \in Cues
  <2>1. x[1] \in Chars /\ x[2] \in Attacks
    BY DEF TypeOK
  <2>. QED  BY <1>1, <1>4, <2>1 DEF OnSphereOverlap
<1>. QED  BY <1>2, <1>3, <1>4
          DEF Next, SpawnProjectile, Vanish, DebuffTick, DebuffEnds, HitReactEnds, Destroyed, OnAreaOverlap,
              OnPotionOverlap, OnEndOverlap, AreaTick, UpgradeAttribute, ServerUpgradeAttribute

(* Whatever attack hits and whatever is rolled, NetSerialize on the client *)
(* reads each field as the server wrote it, except for the origin of       *)
(* radial damage, the last of 20 bits of which 19 are sent.                *)
THEOREM EveryContextArrives == Spec => []ContextArrives
<1> DEFINE CInv == cue = NoCue \/ cue \in Cues
<1>1. Init => CInv
  BY DEF Init
<1>2. IInv /\ CInv /\ [Next]_vars => CInv'
  BY NextCue DEF IInv, vars
<1>3. CInv => ContextArrives
  BY CuesArrive DEF ContextArrives
<1> HIDE DEF CInv
<1>. QED  BY <1>1, <1>2, <1>3, AlwaysIInv, PTL DEF Spec
=============================================================================
