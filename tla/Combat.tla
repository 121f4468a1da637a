------------------------------- MODULE Combat -------------------------------
(***************************************************************************)
(* Damage, debuffs, death and experience on the server: ApplyDamageEffect  *)
(* and UExecCalc_Damage, the handlers of UAuraAttributeSet, the death of a *)
(* character, the callbacks of its tags, projectiles, the beam, and effect *)
(* actors.  The engine's parts are taken as follows: effects are applied   *)
(* and events sent synchronously; a debuff of one type from one source is  *)
(* one stack, which ticks and ends at any time; GA_ListenForEvents adds    *)
(* the magnitude of an XP event to IncomingXP of a player; the hit react   *)
(* ability runs once at a time and may be refused, as it is under shock.   *)
(* Floats are integers, rounded down where the calculation divides; one    *)
(* period of a debuff or an area takes one unit of health.                 *)
(***************************************************************************)
EXTENDS Integers, FiniteSets, Sequences, FiniteSetsExt, EffectContext, Spells

CONSTANTS
    Players, Enemies, Nobody,
    Attacks,    \* the damage abilities: their FDamageEffectParams
    Params,
    Uses,       \* the attacks of each character
    Attributes, \* of each character, but for health and vigor
    Reward,     \* the XP for the class and level of each character
    EnemyLevel, EnemyHealth,
    AbilityLevel,           \* of the beam
    Near,       \* the pairs of characters within the beam's radius
    Distance,   \* of each pair of characters
    LevelUpInformation,     \* from index 1
    MMC,        \* the coefficients of UMMC_MaxHealth
    ArmorPenetrationCurve, EffectiveArmorCurve,     \* by level
    Potions, Areas,         \* effect actors: an instant heal, an infinite damage
    ApplyEffectsToEnemies,  \* the areas that do
    MaxCalls    \* bound on the calls of ServerUpgradeAttribute under way

Chars == Players \cup Enemies
DamageTypes == {"Fire", "Lightning", "Arcane", "Physical"}
DamageTypesToDebuffs == [Fire |-> "Burn", Lightning |-> "Stun", Arcane |-> "Arcane", Physical |-> "Physical"]
Visible == {"Burn", "Stun"}     \* the debuffs with a UDebuffNiagaraComponent
MaxLevel == Len(LevelUpInformation)
AttributePointAward == [l \in 1..MaxLevel |-> LevelUpInformation[l].points]
SpellPointAward     == [l \in 1..MaxLevel |-> LevelUpInformation[l].spellPoints]

DamageEffectParams ==
    [type : DamageTypes, damage : Nat, chance : 0..100, debuff : Nat, bolt : BOOLEAN, knockback : 0..100,
     impulse : Nat, radial : BOOLEAN, inner : Nat, outer : Nat, origin : Nat]
AttributeSet ==
    [resistance : [DamageTypes -> Int], armor : Int, penetration : Int, block : Int, critical : Int, bonus : Int]

MaxHealth(vigor, level) == MMC.base + MMC.vigor * vigor + MMC.level * level

\* A new player has health, and the first level.
ASSUME CombatAssumption ==
    /\ Params \in [Attacks -> DamageEffectParams] /\ Attributes \in [Chars -> AttributeSet]
    /\ Uses \in [Chars -> SUBSET Attacks] /\ ApplyEffectsToEnemies \subseteq Areas
    /\ Players \cap Enemies = {} /\ Nobody \notin Chars /\ Potions \cap Areas = {}
    /\ IsFiniteSet(Chars)
    /\ Reward \in [Chars -> Nat \ {0}] /\ EnemyHealth \in [Enemies -> Nat \ {0}]
    /\ MMC \in [base : Nat, vigor : Nat, level : Nat] /\ MaxHealth(1, 1) > 0
    /\ EnemyLevel \in [Enemies -> Nat]
    /\ \A l \in 1..MaxLevel \cup {EnemyLevel[e] : e \in Enemies} :
           ArmorPenetrationCurve[l] \in Int /\ EffectiveArmorCurve[l] \in Int
    /\ LevelUpInformation \in Seq([requirement : Nat, points : Nat, spellPoints : Nat])
    /\ MaxLevel > 0 /\ LevelUpInformation[1].requirement > 0
    /\ MaxCalls \in Nat

VARIABLES
    body,       \* of each character: health, tags and what hangs on them
    hero,       \* the player state of each player, with its two top-off flags as one
    gone,       \* enemies destroyed after their life span
    bolts,      \* projectiles in flight: <<source, attack>>
    items,      \* effect actors that are there
    inArea,     \* ActiveEffectHandles: <<area, character>>
    cue,        \* history: the attack and the rolls of the last step, if that was a hit
    killer      \* history: whose damage killed each character

vars == <<body, hero, gone, bolts, items, inArea, cue, killer>>

NoCue == <<>>

Unhurt(h) == [health |-> h, maxHealth |-> h, dead |-> FALSE, debuffs |-> {}, fx |-> {},
              stunned |-> FALSE, reacting |-> FALSE, rooted |-> FALSE]

Init ==
    /\ body = [c \in Chars |-> Unhurt(IF c \in Players THEN MaxHealth(1, 1) ELSE EnemyHealth[c])]
    /\ hero = [p \in Players |-> [xp |-> 0, level |-> 1, points |-> 0, spellPoints |-> 0, vigor |-> 1,
                                  topOff |-> FALSE, calls |-> 0, spent |-> 0, lost |-> 0]]
    /\ gone = {} /\ bolts = {} /\ items = Potions \cup Areas /\ inArea = {}
    /\ cue = NoCue
    /\ killer = [c \in Chars |-> Nobody]

LevelOf(c) == IF c \in Players THEN hero[c].level ELSE EnemyLevel[c]
AtLeastZero(n) == IF n < 0 THEN 0 ELSE n
Percent(n) == IF n < 0 THEN 0 ELSE IF n > 100 THEN 100 ELSE n

----------------------------------------------------------------------------
(* UExecCalc_Damage.                                                       *)

\* The outcomes of RandRange(1, 100) < n / 100.
Chance(n) == {b \in BOOLEAN : IF b THEN 100 < n ELSE n <= 10000}

DetermineDebuff(t, a) ==
    Chance(Params[a].chance * (100 - AtLeastZero(Attributes[t].resistance[Params[a].type])))

\* With radial damage the value is what TakeDamage broadcasts: full at the
\* inner radius, less outside, the value itself if nothing was broadcast.
Resisted(t, a) ==
    LET d == (Params[a].damage * (100 - Percent(Attributes[t].resistance[Params[a].type]))) \div 100
    IN  IF Params[a].radial THEN 0..d ELSE {d}

\* Nothing keeps the factor from getting below zero.
Armored(s, t, d) ==
    LET penetration == AtLeastZero(Attributes[s].penetration) * ArmorPenetrationCurve[LevelOf(s)]
        effective   == (AtLeastZero(Attributes[t].armor) * (100 - penetration)) \div 100
    IN  (d * (100 - effective * EffectiveArmorCurve[LevelOf(t)])) \div 100

Execute(s, t, a) ==
    {[damage   |-> IF critical THEN 2 * Armored(s, t, d) + AtLeastZero(Attributes[s].bonus)
                               ELSE Armored(s, t, d),
      blocked  |-> blocked, critical |-> critical, debuff |-> debuff] :
        d \in Resisted(t, a),
        blocked  \in Chance(100 * AtLeastZero(Attributes[t].block)),
        critical \in Chance(100 * AtLeastZero(Attributes[s].critical)),
        debuff   \in DetermineDebuff(t, a)}

Flag(b) == IF b THEN 1 ELSE 0

\* Whether the knockback force is set: projectiles roll dice, other abilities always set theirs.
Knockback(a) == IF Params[a].bolt THEN Chance(100 * Params[a].knockback) ELSE {Params[a].knockback > 0}

\* The context of ApplyDamageEffect after the execution.
Context(a, blocked, critical, debuff, knockback) ==
    [NewContext EXCEPT
        !["Instigator"] = 1, !["SourceObject"] = 1,
        !["DeathImpulse"] = Params[a].impulse, !["KnockbackForce"] = Flag(knockback),
        !["bIsRadialDamage"] = Flag(Params[a].radial),
        !["RadialDamageInnerRadius"] = Params[a].inner,
        !["RadialDamageOuterRadius"] = Params[a].outer,
        !["RadialDamageOrigin"] = Params[a].origin,
        !["bIsBlockedHit"] = Flag(blocked), !["bIsCriticalHit"] = Flag(critical),
        !["bIsSuccessfulDebuff"] = Flag(debuff), !["DamageType"] = Flag(debuff),
        !["DebuffDamage"] = IF debuff THEN Params[a].debuff ELSE 0]

----------------------------------------------------------------------------
(* A character's health, tags and death.                                   *)

Stun == "Stun"
TagsOf(debuffs) == {DamageTypesToDebuffs[x[1]] : x \in debuffs}

\* Of the two Niagara components, those shown after tags came and went.
ShownWhenDead(b, new, old) == (b.fx \cup (new \cap Visible)) \ old
DebuffTagChanged(b, new, old) ==
    IF b.dead THEN b.fx \ (new \cup old) ELSE (b.fx \cup (new \cap Visible)) \ old

\* bIsStunned, and the walk speed: zero or the base speed.
StunKeepsRooted(b, new, old) ==
    IF Stun \in new THEN [b EXCEPT !.stunned = TRUE, !.rooted = TRUE]
    ELSE IF Stun \in old THEN [b EXCEPT !.stunned = FALSE]
    ELSE b
StunTagChanged(b, new, old) ==
    IF Stun \in new THEN [b EXCEPT !.stunned = TRUE, !.rooted = TRUE]
    ELSE IF Stun \in old THEN [b EXCEPT !.stunned = FALSE, !.rooted = FALSE]
    ELSE b

\* The active debuffs change: the callbacks come for tags that are new or removed.
WithDebuffs(b, debuffs) ==
    LET new == TagsOf(debuffs) \ TagsOf(b.debuffs)
        old == TagsOf(b.debuffs) \ TagsOf(debuffs)
    IN  StunTagChanged([b EXCEPT !.debuffs = debuffs, !.fx = DebuffTagChanged(b, new, old)], new, old)

HitReactTagChanged(b, on) == [b EXCEPT !.reacting = on, !.rooted = on]

Die(b) == [b EXCEPT !.dead = TRUE, !.fx = {}]

\* A dead target is left early, and damage that is not positive does nothing.
HurtsOrHeals(b, d) == ~b.dead /\ d # 0
Hurts(b, d) == ~b.dead /\ d > 0
FatalAgain(b, d) == d > 0 /\ b.health - d <= 0
Fatal(b, d) == Hurts(b, d) /\ b.health - d <= 0

HandleIncomingDamage(b, d, reacts) ==
    IF ~Hurts(b, d) THEN b
    ELSE LET left == [b EXCEPT !.health = AtLeastZero(b.health - d)] IN
         IF Fatal(b, d) THEN Die(left)
         ELSE IF reacts THEN HitReactTagChanged(left, TRUE) ELSE left

\* Whether the hit react ability may start; players have no callback for its tag.
Reactions(t) == IF t \in Enemies /\ ~body[t].reacting THEN BOOLEAN ELSE {FALSE}

----------------------------------------------------------------------------
(* Experience.                                                             *)

FindLevelForXP(xp) ==
    Min({l \in 1..MaxLevel : l = MaxLevel \/ xp < LevelUpInformation[l].requirement})

\* Variant: a level passed on the way is not paid.
AwardForOne(h, xp) ==
    LET new == FindLevelForXP(h.xp + xp) IN
    IF new > h.level
    THEN [h EXCEPT !.xp = @ + xp, !.level = new, !.topOff = TRUE,
                   !.points = @ + LevelUpInformation[h.level].points,
                   !.spellPoints = @ + LevelUpInformation[h.level].spellPoints]
    ELSE [h EXCEPT !.xp = @ + xp]

HandleIncomingXP(h, xp) ==
    LET new    == FindLevelForXP(h.xp + xp)
        passed == h.level..(new - 1) IN
    IF new > h.level
    THEN [h EXCEPT !.xp = @ + xp, !.level = new, !.topOff = TRUE,
                   !.points = @ + SumFunctionOnSet(AttributePointAward, passed),
                   !.spellPoints = @ + SumFunctionOnSet(SpellPointAward, passed)]
    ELSE [h EXCEPT !.xp = @ + xp]

\* The XP event for t goes to s.  A dead player's IncomingXP is not looked at.
SendXPEvent(s, t) ==
    hero' = IF s \notin Players THEN hero
            ELSE IF body'[s].dead THEN [hero EXCEPT ![s].lost = @ + Reward[t]]
            ELSE [hero EXCEPT ![s] = HandleIncomingXP(@, Reward[t])]

\* Character t takes damage d from s and then has the debuffs.
Damaged(s, t, d, debuffs) ==
    /\ \E reacts \in Reactions(t) :
           body' = [body EXCEPT ![t] = WithDebuffs(HandleIncomingDamage(@, d, reacts), debuffs)]
    /\ IF Fatal(body[t], d)
       THEN /\ SendXPEvent(s, t)
            /\ killer' = [killer EXCEPT ![t] = IF @ = Nobody THEN s ELSE @]
       ELSE UNCHANGED <<hero, killer>>

----------------------------------------------------------------------------
(* Attacks.                                                                *)

IsNotFriend(c, d) == ~(c \in Players /\ d \in Players) /\ ~(c \in Enemies /\ d \in Enemies)

ApplyDamageEffect(s, t, a) ==
    \E r \in Execute(s, t, a), knockback \in Knockback(a) :
        /\ Damaged(s, t, r.damage,
                   IF r.debuff /\ Hurts(body[t], r.damage)
                   THEN body[t].debuffs \cup {<<Params[a].type, s>>} ELSE body[t].debuffs)
        /\ cue' = <<a, r.blocked, r.critical, r.debuff, knockback>>

\* Melee attacks, shards and explosions: the Blueprints hit whoever is not a friend.
CauseDamage(s, t, a) ==
    /\ s \notin gone /\ t \notin gone /\ IsNotFriend(s, t) /\ ~body[s].dead
    /\ a \in Uses[s] \ {"beam"} /\ ~Params[a].bolt
    /\ ApplyDamageEffect(s, t, a)
    /\ UNCHANGED <<gone, bolts, items, inArea>>

\* StoreAdditionalTargets: the closest of the living about the first target,
\* friend or not.
AdditionalTargets(s, first) ==
    GetClosestTargets(NumAdditionalTargets(AbilityLevel),
        {c \in Chars \ ({s, first} \cup gone) : <<first, c>> \in Near /\ ~body[c].dead},
        [c \in Chars |-> Distance[first, c]])

\* The beam, which hits its first target and those it jumps to; the Blueprint
\* repeats this while the button is held.
Shock(s, first, t) ==
    /\ "beam" \in Uses[s] /\ s \notin gone /\ ~body[s].dead
    /\ first # s /\ first \notin gone
    /\ t \in {first} \cup AdditionalTargets(s, first)
    /\ ApplyDamageEffect(s, t, "beam")
    /\ UNCHANGED <<gone, bolts, items, inArea>>

SpawnProjectile(s, a) ==
    /\ s \notin gone /\ ~body[s].dead /\ a \in Uses[s] /\ Params[a].bolt
    /\ <<s, a>> \notin bolts
    /\ bolts' = bolts \cup {<<s, a>>}
    /\ cue' = NoCue
    /\ UNCHANGED <<body, hero, gone, items, inArea, killer>>

\* A bolt outlives its source; then it hits nobody.
OnSphereOverlap(x, t) ==
    /\ x \in bolts /\ t \notin gone
    /\ x[1] \notin gone /\ x[1] # t /\ IsNotFriend(x[1], t)
    /\ ApplyDamageEffect(x[1], t, x[2])
    /\ bolts' = bolts \ {x}
    /\ UNCHANGED <<gone, items, inArea>>

\* The life span, or a wall.
Vanish(x) ==
    /\ x \in bolts
    /\ bolts' = bolts \ {x}
    /\ cue' = NoCue
    /\ UNCHANGED <<body, hero, gone, items, inArea, killer>>

\* A period of a debuff.  Its source may be gone: nobody gets the XP then.
DebuffTick(t, x) ==
    /\ t \notin gone /\ x \in body[t].debuffs
    /\ Damaged(IF x[2] \in gone THEN Nobody ELSE x[2], t, 1, body[t].debuffs)
    /\ cue' = NoCue
    /\ UNCHANGED <<gone, bolts, items, inArea>>

DebuffEnds(t, x) ==
    /\ t \notin gone /\ x \in body[t].debuffs
    /\ body' = [body EXCEPT ![t] = WithDebuffs(@, @.debuffs \ {x})]
    /\ cue' = NoCue
    /\ UNCHANGED <<hero, gone, bolts, items, inArea, killer>>

HitReactEnds(e) ==
    /\ e \notin gone /\ body[e].reacting
    /\ body' = [body EXCEPT ![e] = HitReactTagChanged(@, FALSE)]
    /\ cue' = NoCue
    /\ UNCHANGED <<hero, gone, bolts, items, inArea, killer>>

\* The life span of a dead enemy is over.
Destroyed(e) ==
    /\ body[e].dead /\ e \notin gone
    /\ gone' = gone \cup {e}
    /\ inArea' = {x \in inArea : x[2] # e}
    /\ cue' = NoCue
    /\ UNCHANGED <<body, hero, bolts, items, killer>>

----------------------------------------------------------------------------
(* Effect actors and attribute points.                                     *)

\* Potions are not for enemies, and are used up by whoever gets them.
OnPotionOverlap(i, p) ==
    /\ i \in items \cap Potions /\ ~body[p].dead
    /\ items' = items \ {i}
    /\ body' = [body EXCEPT ![p].health = Min({@ + 1, body[p].maxHealth})]
    /\ cue' = NoCue
    /\ UNCHANGED <<hero, gone, bolts, inArea, killer>>

OnAreaOverlap(i, c) ==
    /\ i \in items \cap Areas /\ (c \in Enemies => i \in ApplyEffectsToEnemies) /\ c \notin gone /\ ~body[c].dead /\ <<i, c>> \notin inArea
    /\ inArea' = inArea \cup {<<i, c>>}
    /\ cue' = NoCue
    /\ UNCHANGED <<body, hero, gone, bolts, items, killer>>

OnEndOverlap(x) ==
    /\ x \in inArea
    /\ inArea' = inArea \ {x}
    /\ cue' = NoCue
    /\ UNCHANGED <<body, hero, gone, bolts, items, killer>>

\* A period of an area's effect.  The target itself is the source.
AreaTick(x) ==
    /\ x \in inArea
    /\ Damaged(x[2], x[2], 1, body[x[2]].debuffs)
    /\ cue' = NoCue
    /\ UNCHANGED <<gone, bolts, items, inArea>>

\* The button asks for points, the server does not.
UpgradeAttribute(p) ==
    /\ hero[p].points > 0 /\ hero[p].calls < MaxCalls
    /\ hero' = [hero EXCEPT ![p].calls = @ + 1]
    /\ cue' = NoCue
    /\ UNCHANGED <<body, gone, bolts, items, inArea, killer>>

\* Vigor changes the maximum of health, and the change fills it up once after a new level.
ServerUpgradeAttribute(p, vigor) ==
    /\ hero[p].calls > 0
    /\ LET h   == [hero[p] EXCEPT !.calls = @ - 1, !.points = @ - 1, !.spent = @ + 1]
           max == MaxHealth(h.vigor + 1, h.level) IN
       IF vigor
       THEN /\ hero' = [hero EXCEPT ![p] = [h EXCEPT !.vigor = @ + 1, !.topOff = FALSE]]
            /\ body' = [body EXCEPT ![p].maxHealth = max, ![p].health = IF h.topOff THEN max ELSE @]
       ELSE hero' = [hero EXCEPT ![p] = h] /\ UNCHANGED body
    /\ cue' = NoCue
    /\ UNCHANGED <<gone, bolts, items, inArea, killer>>

Next ==
    \/ \E s, t \in Chars, a \in Attacks : CauseDamage(s, t, a)
    \/ \E s, first, t \in Chars : Shock(s, first, t)
    \/ \E s \in Chars, a \in Attacks : SpawnProjectile(s, a)
    \/ \E x \in bolts : Vanish(x) \/ \E t \in Chars : OnSphereOverlap(x, t)
    \/ \E t \in Chars : \E x \in body[t].debuffs : DebuffTick(t, x) \/ DebuffEnds(t, x)
    \/ \E e \in Enemies : HitReactEnds(e) \/ Destroyed(e)
    \/ \E i \in items, c \in Chars : OnAreaOverlap(i, c)
    \/ \E i \in items, p \in Players : OnPotionOverlap(i, p)
    \/ \E x \in inArea : OnEndOverlap(x) \/ AreaTick(x)
    \/ \E p \in Players : UpgradeAttribute(p) \/ \E v \in BOOLEAN : ServerUpgradeAttribute(p, v)

Spec == Init /\ [][Next]_vars

----------------------------------------------------------------------------
Body == [health : Nat, maxHealth : Nat, dead : BOOLEAN,
         debuffs : SUBSET (DamageTypes \X Chars), fx : SUBSET Visible,
         stunned : BOOLEAN, reacting : BOOLEAN, rooted : BOOLEAN]
Hero == [xp : Nat, level : 1..MaxLevel, points : Int, spellPoints : Nat, vigor : Nat \ {0},
         topOff : BOOLEAN, calls : 0..MaxCalls, spent : Nat, lost : Nat]

TypeOK ==
    /\ body \in [Chars -> Body] /\ hero \in [Players -> Hero]
    /\ gone \subseteq Enemies /\ bolts \subseteq Chars \X Attacks
    /\ items \subseteq Potions \cup Areas /\ inArea \subseteq Areas \X Chars
    /\ killer \in [Chars -> Chars \cup {Nobody}]

(* Every death is paid once, to the player whose damage it was, whether by *)
(* a hit, a bolt in flight or a debuff that goes on, and whatever hits the *)
(* dead afterwards: what a player has, with what arrived after the         *)
(* player's own death, is the sum of the rewards of those killed.          *)
DeathsPaidOnce ==
    \A p \in Players :
        hero[p].xp + hero[p].lost = SumFunctionOnSet(Reward, {c \in Chars : killer[c] = p})

(* A player has the level of the XP, and the points of each level passed,  *)
(* also when one award passes several; points spent are accounted for,     *)
(* though two calls for the last point make the rest negative.             *)
LevelsPaid ==
    \A p \in Players :
        /\ hero[p].level = FindLevelForXP(hero[p].xp)
        /\ hero[p].points + hero[p].spent =
               SumFunctionOnSet(AttributePointAward, 1..(hero[p].level - 1))
        /\ hero[p].spellPoints =
               SumFunctionOnSet(SpellPointAward, 1..(hero[p].level - 1))

(* A character is alive with health or dead without signs of a debuff: the *)
(* step that takes the last health is a death, whichever way the damage    *)
(* comes, and the debuff of the very hit that kills, or the end of an      *)
(* earlier one, shows nothing on the dead.                                 *)
DeadOrAlive ==
    \A c \in Chars : IF body[c].dead THEN body[c].fx = {} ELSE body[c].health > 0

(* Stun and hit reaction both set the walk speed, in any order and over    *)
(* each other.  No enemy stays rooted when both are over.                  *)
NobodyStaysRooted == \A c \in Chars : body[c].rooted => body[c].stunned \/ body[c].reacting

(* A hit never heals, although armor can make the damage negative.  (Only  *)
(* players are healed at all.)                                             *)
HitsNeverHeal == [][\A e \in Enemies : body'[e].health <= body[e].health]_vars

\* The rolls whose context a client reads as the server has it.
Arriving ==
    {x \in Attacks \X BOOLEAN \X BOOLEAN \X BOOLEAN \X BOOLEAN :
        LET sent == Context(x[1], x[2], x[3], x[4], x[5])
            read == Read(Written(sent)) IN
        /\ \A f \in ToSet(Fields) :
               (f \in RadialFields => sent["bIsRadialDamage"] > 0) /\ f # "RadialDamageOrigin"
               => Get(read, f) = sent[f]
        /\ Get(sent, "RadialDamageOrigin") = 0 => Unread(Written(sent)) = 0}

(* A client reads the context of a hit as it was sent, except for the      *)
(* origin of radial damage, whose bit is not sent; then the value stays in *)
(* the stream.                                                             *)
ContextArrives == cue # NoCue => cue \in Arriving
=============================================================================
