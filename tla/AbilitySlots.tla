---------------------------- MODULE AbilitySlots ----------------------------
(***************************************************************************)
(* The abilities of one player as the game server keeps them: the part of  *)
(* UAuraAbilitySystemComponent that gives, upgrades and equips abilities,  *)
(* and saves and restores them with AAuraCharacter.                        *)
(*                                                                         *)
(* A spec holds a level and a container of tags, in which the status of    *)
(* the ability and the slot (input tag) it is equipped in are found by     *)
(* search.  Nothing but the code below keeps them to one of each, or a     *)
(* slot to one ability.  A passive ability runs from its equipping until   *)
(* it is displaced, and a Niagara component shows that it runs.            *)
(*                                                                         *)
(* The game thread runs one handler at a time; a handler is one step.      *)
(* toClient holds the calls to the owning client that are under way.       *)
(*                                                                         *)
(* GiveAbilityAndActivateOnce, used for passives of a saved game, makes    *)
(* the engine remove the spec from its array when the ability ends, also   *)
(* while ServerEquipAbility holds pointers into that array.  Where they    *)
(* point afterwards is left open: to any spec, or to none.                 *)
(***************************************************************************)
EXTENDS Integers, SequencesExt

CONSTANTS
    Abilities,      \* abilities of the AbilityInfo asset, and their types:
    Passives,       \* passive, or else offensive
    Slots,          \* input tags
    NoTag,          \* no slot, no status
    StartSlot,      \* StartupAbilities and their StartupInputTag
    Requirement,    \* LevelRequirement of an ability
    Awarded,        \* the SpellPointAwards up to a level, in all
    MaxPlayerLevel, \* length of LevelUpInformation
    NoSave,         \* no progress has been saved
    MaxDebt,        \* bound on the points spent beyond those there are
    MaxPending      \* bound on the calls under way when another one is made

Startup  == DOMAIN StartSlot
Statuses == {"Eligible", "Unlocked", "Equipped"}

ASSUME AbilityAssumption ==
    /\ IsFiniteSet(Abilities) /\ Passives \subseteq Abilities
    /\ Startup \subseteq Abilities \ Passives
    /\ StartSlot \in [Startup -> Slots]
    /\ \A a, b \in Startup : a # b => StartSlot[a] # StartSlot[b]
    /\ Slots \cap Statuses = {} /\ NoTag \notin Slots \cup Statuses \cup Abilities
    /\ MaxPlayerLevel \in Nat \ {0} /\ MaxDebt \in Nat /\ MaxPending \in Nat
    /\ Requirement \in [Abilities -> Nat] /\ Awarded \in [1..MaxPlayerLevel -> Nat]

VARIABLES
    level,      \* level of each ability's spec, 0 where there is no spec
    tags,       \* DynamicAbilityTags
    active,     \* passives that run
    once,       \* those whose spec is removed when they end
    shown,      \* passives whose Niagara component is active
    points,     \* spell points, which the server lets become negative
    plevel,     \* player level
    saved,      \* the saved game
    era,        \* "first" game, "loaded" game, or "removed" a spec under a pointer
    toClient    \* reliable calls to the client

serverVars == <<level, tags, active, once, shown, points, plevel, saved, era, toClient>>

ServerInit ==
    /\ level = [a \in Abilities |-> IF a \in Startup THEN 1 ELSE 0]
    /\ tags = [a \in Abilities |-> IF a \in Startup THEN {StartSlot[a], "Equipped"} ELSE {}]
    /\ active = {} /\ once = {} /\ shown = {}
    /\ points = 0 /\ plevel = 1
    /\ saved = NoSave /\ era = "first" /\ toClient = << >>

----------------------------------------------------------------------------
(* Searches.                                                               *)

\* GetSpecFromAbilityTag finds a spec.
Given == {a \in Abilities : level[a] > 0}

\* The first tag of a kind in a container; which one is first is not known.
TagOf(container, kind) ==
    IF container \cap kind = {} THEN NoTag ELSE CHOOSE t \in container \cap kind : TRUE

StatusOf(a) == TagOf(tags[a], Statuses)     \* GetStatusFromSpec
SlotOf(a)   == TagOf(tags[a], Slots)        \* GetInputTagFromSpec

\* Specs that GetSpecWithSlot may return.
Holders(s) == {a \in Given : s \in tags[a]}

\* The calls to the client.
StatusChanged(a, st)  == [call |-> "ClientUpdateAbilityStatus", ability |-> a, status |-> st]
Equipped(a, s, prev)  == [call |-> "ClientEquipAbility", ability |-> a, slot |-> s, prev |-> prev]

----------------------------------------------------------------------------
(* Giving and upgrading.                                                   *)

Equippable(a) == StatusOf(a) \in {"Equipped", "Unlocked"}

\* HandleIncomingXP for XP worth n levels: AddToPlayerLevel, which has
\* UpdateAbilityStatuses give the abilities within reach, then the points.
LevelUp(n) ==
    LET new == {a \in Abilities \ Given : Requirement[a] <= plevel + n} IN
    /\ plevel + n <= MaxPlayerLevel /\ Len(toClient) < MaxPending
    /\ plevel' = plevel + n
    /\ level' = [a \in Abilities |-> IF a \in new THEN 1 ELSE level[a]]
    /\ tags' = [a \in Abilities |-> IF a \in new THEN {"Eligible"} ELSE tags[a]]
    /\ points' = points + Awarded[plevel + n] - Awarded[plevel]
    /\ \E order \in SetToSeqs(new) :
           toClient' = toClient \o [i \in DOMAIN order |-> StatusChanged(order[i], "Eligible")]
    /\ UNCHANGED <<active, once, shown, saved, era>>

\* Variant: the point that unlocks an ability raises its level too.
SpendAndRaise(a) ==
    /\ a \in Given /\ points + MaxDebt > 0 /\ Len(toClient) < MaxPending
    /\ points' = points - 1
    /\ tags' = [tags EXCEPT ![a] = IF StatusOf(a) = "Eligible"
                                   THEN (@ \ {"Eligible"}) \cup {"Unlocked"} ELSE @]
    /\ level' = [level EXCEPT ![a] = @ + 1]
    /\ toClient' = Append(toClient, StatusChanged(a, StatusOf(a)))
    /\ UNCHANGED <<active, once, shown, plevel, saved, era>>

\* Whether a point is left is not looked at.
ServerSpendSpellPoint(a) ==
    /\ a \in Given /\ points + MaxDebt > 0 /\ Len(toClient) < MaxPending
    /\ points' = points - 1
    /\ IF StatusOf(a) = "Eligible"
       THEN /\ tags' = [tags EXCEPT ![a] = (@ \ {"Eligible"}) \cup {"Unlocked"}]
            /\ UNCHANGED level
            /\ toClient' = Append(toClient, StatusChanged(a, "Unlocked"))
       ELSE /\ level' = IF Equippable(a) THEN [level EXCEPT ![a] = @ + 1] ELSE level
            /\ UNCHANGED tags
            /\ toClient' = Append(toClient, StatusChanged(a, StatusOf(a)))
    /\ UNCHANGED <<active, once, shown, plevel, saved, era>>

----------------------------------------------------------------------------
(* Equipping.                                                              *)

\* UPassiveNiagaraComponent::OnPassiveActivate: a call for a passive that is
\* shown already hides it.
Effect(S, a, on) == IF on /\ a \notin S THEN S \cup ({a} \cap Passives) ELSE S \ {a}

\* ClearSlot and AssignSlotToAbility for a's container c.
Cleared(c)     == c \ {TagOf(c, Slots)}
Assigned(c, s) == Cleared(c) \cup {s}

\* Variant: what has been Equipped before is taken to run already.
AssignToNew(x, a, s, T, runs, effects) ==
    LET isNew == T[x] \cap Slots = {} /\ "Equipped" \notin T[x] IN
    /\ tags' = [T EXCEPT ![x] = Assigned(IF isNew THEN (@ \ {TagOf(@, Statuses)}) \cup {"Equipped"}
                                         ELSE @, s)]
    /\ active' = IF isNew /\ x \in Passives THEN runs \cup {x} ELSE runs
    /\ shown' = IF isNew /\ x \in Passives THEN Effect(effects, a, TRUE) ELSE effects

\* The second half of ServerEquipAbility(a, s), when AbilitySpec points to x:
\* an ability without a slot is activated if passive, and is Equipped now.
AssignTo(x, a, s, T, runs, effects) ==
    IF T[x] \cap Slots = {}
    THEN /\ tags' = [T EXCEPT ![x] = Assigned((@ \ {TagOf(@, Statuses)}) \cup {"Equipped"}, s)]
         /\ active' = IF x \in Passives THEN runs \cup {x} ELSE runs
         /\ shown' = IF x \in Passives THEN Effect(effects, a, TRUE) ELSE effects
    ELSE /\ tags' = [T EXCEPT ![x] = Assigned(@, s)]
         /\ active' = runs /\ shown' = effects

\* The ability cannot be equipped or is in the slot: only the client is told.
EquipUnchanged(a, s) ==
    /\ ~Equippable(a) \/ a \in Holders(s)
    /\ UNCHANGED <<level, tags, active, once, shown, era>>

EquipEmpty(a, s) ==
    /\ Equippable(a) /\ Holders(s) = {}
    /\ AssignTo(a, a, s, tags, active, shown)
    /\ UNCHANGED <<level, once, era>>

\* Variant: the displaced ability keeps its slot.
EquipSharing(a, s, b) ==
    /\ Equippable(a) /\ b \in Holders(s) \ {a} /\ b \notin once
    /\ AssignTo(a, a, s, tags, active \ {b}, Effect(shown, b, FALSE))
    /\ UNCHANGED <<level, once, era>>

\* The ability b in the slot is displaced: a passive ends, its slot is cleared,
\* and its status stays as it is.
EquipDisplacing(a, s, b) ==
    /\ Equippable(a) /\ b \in Holders(s) \ {a} /\ b \notin once
    /\ AssignTo(a, a, s, [tags EXCEPT ![b] = Cleared(@)], active \ {b},
                Effect(shown, b, FALSE))
    /\ UNCHANGED <<level, once, era>>

\* Ending b removes its spec.  y and x are what SpecWithSlot and AbilitySpec
\* point to from here on.
EquipRemoving(a, s, b) ==
    LET rest == Given \ {b}
        left == [tags EXCEPT ![b] = {}]
    IN
    /\ Equippable(a) /\ b \in Holders(s) \ {a} /\ b \in once
    /\ level' = [level EXCEPT ![b] = 0] /\ once' = once \ {b}
    /\ era' = "removed"
    /\ \E y \in rest \cup {NoTag}, x \in rest \cup {NoTag} :
           LET T == IF y = NoTag THEN left ELSE [left EXCEPT ![y] = Cleared(@)]
               effects == Effect(shown, b, FALSE)
           IN IF x = NoTag
              THEN tags' = T /\ active' = active \ {b} /\ shown' = effects
              ELSE AssignTo(x, a, s, T, active \ {b}, effects)

ServerEquipAbility(a, s) ==
    /\ a \in Given /\ Len(toClient) < MaxPending
    /\ \/ EquipUnchanged(a, s) \/ EquipEmpty(a, s)
       \/ \E b \in Abilities : EquipDisplacing(a, s, b) \/ EquipRemoving(a, s, b)
    /\ toClient' = Append(toClient, Equipped(a, s, SlotOf(a)))
    /\ UNCHANGED <<points, plevel, saved>>

\* A call for an ability without a spec does nothing.
IgnoreCall(a) ==
    /\ a \notin Given
    /\ UNCHANGED serverVars

\* The client receives the oldest call.
ClientReceives ==
    /\ toClient # << >>
    /\ toClient' = Tail(toClient)
    /\ UNCHANGED <<level, tags, active, once, shown, points, plevel, saved, era>>

----------------------------------------------------------------------------
(* Saving and loading.                                                     *)

\* AAuraCharacter::SaveProgress: one status and one slot per ability.
SaveProgress ==
    /\ saved' = [level |-> level, status |-> [a \in Abilities |-> StatusOf(a)],
                 slot |-> [a \in Abilities |-> SlotOf(a)], points |-> points, plevel |-> plevel,
                 removed |-> era = "removed"]
    /\ UNCHANGED <<level, tags, active, once, shown, points, plevel, era, toClient>>

\* AAuraCharacter::LoadProgress in a new world, from the saved abilities: a
\* passive that was Equipped is activated, whether or not it has a slot.
LoadProgress ==
    LET running == {a \in Passives : saved.level[a] > 0 /\ saved.status[a] = "Equipped"} IN
    /\ saved # NoSave
    /\ level' = saved.level
    /\ tags' = [a \in Abilities |-> {saved.slot[a], saved.status[a]} \ {NoTag}]
    /\ active' = running /\ once' = running /\ shown' = running
    /\ points' = saved.points /\ plevel' = saved.plevel
    /\ era' = IF saved.removed THEN "removed" ELSE "loaded"
    /\ toClient' = << >>
    /\ UNCHANGED saved

----------------------------------------------------------------------------
ServerNext ==
    \/ SaveProgress \/ LoadProgress \/ ClientReceives
    \/ \E n \in 1..MaxPlayerLevel : LevelUp(n)
    \/ \E a \in Abilities : ServerSpendSpellPoint(a) \/ IgnoreCall(a)
    \/ \E a \in Abilities, s \in Slots : ServerEquipAbility(a, s)

ServerSpec == ServerInit /\ [][ServerNext]_serverVars

----------------------------------------------------------------------------
SavedGames ==
    [level : [Abilities -> Nat], status : [Abilities -> Statuses \cup {NoTag}],
     slot : [Abilities -> Slots \cup {NoTag}], points : Int, plevel : 1..MaxPlayerLevel,
     removed : BOOLEAN]

ClientCalls ==
    [call : {"ClientUpdateAbilityStatus"}, ability : Abilities, status : Statuses \cup {NoTag}]
    \cup
    [call : {"ClientEquipAbility"}, ability : Abilities, slot : Slots,
     prev : Slots \cup {NoTag}]

TypeOK ==
    /\ level \in [Abilities -> Nat]
    /\ tags \in [Abilities -> SUBSET (Statuses \cup Slots)]
    /\ active \subseteq Passives /\ once \subseteq active /\ shown \subseteq Passives
    /\ \A a \in active : level[a] > 0
    /\ points \in Int /\ plevel \in 1..MaxPlayerLevel
    /\ saved \in SavedGames \cup {NoSave}
    /\ era \in {"first", "loaded", "removed"}
    /\ toClient \in Seq(ClientCalls)

(* Every ability has one status and at most one slot, and no two abilities *)
(* have the same slot, whatever is displaced, saved, loaded or removed.    *)
SlotsExclusive ==
    /\ \A a \in Given : \E st \in Statuses : tags[a] \cap Statuses = {st}
    /\ \A a \in Abilities : \A s, t \in tags[a] \cap Slots : s = t
    /\ \A s \in Slots : \A a, b \in Abilities : s \in tags[a] \cap tags[b] => a = b

(* A passive in a slot runs, also when a spec was removed under a pointer; *)
(* in a game that was not loaded, exactly those in a slot run, and the     *)
(* effects show exactly them.                                              *)
PassivesRunInSlots ==
    LET slotted == {a \in Passives : tags[a] \cap Slots # {}} IN
    /\ slotted \subseteq active
    /\ era = "first" => active = slotted /\ shown = slotted

\* What abilities of levels L in containers T have cost.
Cost(L, T) ==
    [a \in Abilities |-> IF L[a] = 0 \/ "Eligible" \in T[a] THEN 0
                         ELSE IF a \in Startup THEN L[a] - 1 ELSE L[a]]

(* Spell points are neither lost nor made, also across saving and loading: *)
(* what is left and what was spent is what the levels awarded.             *)
PointsConserved ==
    era # "removed" =>
        points + SumFunctionOnSet(Cost(level, tags), Abilities) = Awarded[plevel] - Awarded[1]
=============================================================================
