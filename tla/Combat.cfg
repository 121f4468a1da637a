CONSTANTS
    p = p
    e = e
    g = g
    Players = {p}
    Enemies = {e, g}
    Nobody = Nobody
    Attacks = {"bolt", "beam", "shards", "arrow", "claws"}
    Params <- TheParams
    Uses <- TheUses
    Attributes <- TheAttributes
    Reward <- TheReward
    EnemyLevel <- LevelOne
    AbilityLevel = 2
    Near <- Everybody
    Distance <- OneApart
    EnemyHealth <- SomeHealth
    LevelUpInformation <- TheLevels
    MMC <- TheMMC
    ArmorPenetrationCurve <- Flat
    EffectiveArmorCurve <- Flat
    Potions = {"potion"}
    Areas = {"fire"}
    ApplyEffectsToEnemies = {}
    MaxCalls = 2
SPECIFICATION Spec
INVARIANTS
    DeathsPaidOnce
    LevelsPaid
    DeadOrAlive
    NobodyStaysRooted
    ContextArrives
PROPERTIES
    HitsNeverHeal
\* Everybody may be dead and gone.
CHECK_DEADLOCK FALSE
