----------------------------- MODULE SpellMenu -----------------------------
(***************************************************************************)
(* A player's spell menu, USpellMenuWidgetController, against the server's *)
(* AbilitySlots.  Client and server are joined by three streams, each in   *)
(* order and without loss, but with no order among them:                   *)
(*                                                                         *)
(*   toServer   reliable calls of the client, ServerSpendSpellPoint and    *)
(*              ServerEquipAbility                                         *)
(*   toClient   reliable calls of the server, ClientUpdateAbilityStatus    *)
(*              and ClientEquipAbility                                     *)
(*   view, shownPoints   the replicated specs and spell points, which      *)
(*              follow the server's at any later time                      *)
(*                                                                         *)
(* The widgets are Blueprint assets: a button can be pressed while it is   *)
(* enabled, and the spell row shows in each slot the ability it was last   *)
(* sent for that slot.  The menu is made when the first specs and points   *)
(* have arrived, and here it lives in one world: LoadProgress would make   *)
(* another one, and SaveProgress does not touch it.                        *)
(***************************************************************************)
EXTENDS AbilitySlots

CONSTANTS
    PassiveSlots    \* slots of the spell row whose globes have the passive type

ASSUME MenuAssumption ==
    /\ PassiveSlots \subseteq Slots
    /\ \A a \in Startup : StartSlot[a] \notin PassiveSlots

VARIABLES
    view,               \* the tags of the specs, as replicated
    shownPoints,        \* AAuraPlayerState::SpellPoints, as replicated
    CurrentSpellPoints, \* the points of the last change, 0 before
    ability, status,    \* SelectedAbility
    spendOn, equipOn,   \* the buttons
    waiting,            \* bWaitingForEquipSelection
    row,                \* what the spell row shows
    toServer

globe      == <<ability, status, spendOn, equipOn, waiting>>
replicated == <<view, shownPoints>>
vars       == <<level, tags, active, once, shown, points, plevel, saved, era, toClient,
                view, shownPoints, CurrentSpellPoints, ability, status, spendOn, equipOn,
                waiting, row, toServer>>

\* BroadcastAbilityInfo for the specs in container map T.
RowOf(T) == [s \in Slots |-> IF \E a \in Abilities : s \in T[a]
                             THEN CHOOSE a \in Abilities : s \in T[a] ELSE NoTag]

Init ==
    /\ ServerInit
    /\ view = tags /\ shownPoints = points /\ CurrentSpellPoints = 0
    /\ ability = NoTag /\ status = "Locked"
    /\ spendOn = FALSE /\ equipOn = FALSE /\ waiting = FALSE
    /\ row = RowOf(tags)
    /\ toServer = << >>

----------------------------------------------------------------------------
(* The menu.                                                               *)

\* Variant: whatever is not locked can be equipped.
EnableUnlocked(st, n) ==
    /\ spendOn' = (st \in Statuses /\ n > 0)
    /\ equipOn' = (st \in Statuses)

\* ShouldEnableButtons.
EnableButtons(st, n) ==
    /\ spendOn' = (st \in Statuses /\ n > 0)
    /\ equipOn' = (st \in {"Unlocked", "Equipped"})

\* Variant: whether there is a spec is not looked at.
SelectedUnchecked(a) ==
    LET st == TagOf(view[a], Statuses) IN
    /\ ability' = a /\ status' = st /\ waiting' = FALSE
    /\ EnableButtons(st, shownPoints)
    /\ UNCHANGED <<serverVars, replicated, CurrentSpellPoints, row, toServer>>

SpellGlobeSelected(a) ==
    LET st == IF view[a] = {} THEN "Locked" ELSE TagOf(view[a], Statuses) IN
    /\ ability' = a /\ status' = st /\ waiting' = FALSE
    /\ EnableButtons(st, shownPoints)
    /\ UNCHANGED <<serverVars, replicated, CurrentSpellPoints, row, toServer>>

\* The selection and the buttons after GlobeDeselect.
Deselected ==
    /\ ability' = NoTag /\ status' = "Locked" /\ waiting' = FALSE
    /\ spendOn' = FALSE /\ equipOn' = FALSE

GlobeDeselect ==
    /\ ability # NoTag
    /\ Deselected
    /\ UNCHANGED <<serverVars, replicated, CurrentSpellPoints, row, toServer>>

CallServer(m) ==
    /\ Len(toServer) + Len(toClient) < MaxPending
    /\ toServer' = Append(toServer, m)
    /\ UNCHANGED <<serverVars, replicated, CurrentSpellPoints, globe, row>>

SpendPointButtonPressed ==
    /\ spendOn /\ points + MaxDebt > Len(toServer)
    /\ CallServer([call |-> "ServerSpendSpellPoint", ability |-> ability])

\* SelectedSlot, set here, is read nowhere.
EquipButtonPressed ==
    /\ equipOn /\ ~waiting
    /\ waiting' = TRUE
    /\ UNCHANGED <<serverVars, replicated, CurrentSpellPoints, ability, status, spendOn, equipOn,
                   row, toServer>>

\* Variant: the type of the slot is not looked at.
PressedAnySlot(s) ==
    /\ waiting
    /\ CallServer([call |-> "ServerEquipAbility", ability |-> ability, slot |-> s])

\* The menu goes on waiting, for the server's answer.
SpellRowGlobePressed(s) ==
    /\ waiting /\ (ability \in Passives <=> s \in PassiveSlots)
    /\ CallServer([call |-> "ServerEquipAbility", ability |-> ability, slot |-> s])

\* The lambda of AbilityStatusChanged.
OnAbilityStatusChanged(m) ==
    /\ IF m.ability = ability
       THEN status' = m.status /\ EnableButtons(m.status, CurrentSpellPoints)
       ELSE UNCHANGED <<status, spendOn, equipOn>>
    /\ UNCHANGED <<ability, waiting, row>>

\* Variants: only the new slot is shown; the selection is kept.
EquippedKeepingRow(m) ==
    /\ row' = [row EXCEPT ![m.slot] = m.ability]
    /\ Deselected

EquippedKeepingSelection(m) ==
    /\ row' = [s \in Slots |-> IF s = m.slot THEN m.ability
                               ELSE IF s = m.prev THEN NoTag ELSE row[s]]
    /\ UNCHANGED globe

\* The previous slot is shown empty, then the new one with the ability.
OnAbilityEquipped(m) ==
    /\ row' = [s \in Slots |-> IF s = m.slot THEN m.ability
                               ELSE IF s = m.prev THEN NoTag ELSE row[s]]
    /\ Deselected

ReceiveClientCall ==
    /\ ClientReceives
    /\ LET m == Head(toClient) IN
       IF m.call = "ClientEquipAbility" THEN OnAbilityEquipped(m) ELSE OnAbilityStatusChanged(m)
    /\ UNCHANGED <<replicated, CurrentSpellPoints, toServer>>

----------------------------------------------------------------------------
(* Replication.                                                            *)
ReplicateSpecs ==
    /\ view # tags
    /\ view' = tags
    /\ UNCHANGED <<serverVars, shownPoints, CurrentSpellPoints, globe, row, toServer>>

\* OnRep_SpellPoints, and the lambda of OnSpellPointsChangedDelegate.
OnSpellPointsChanged ==
    /\ shownPoints # points
    /\ shownPoints' = points /\ CurrentSpellPoints' = points
    /\ EnableButtons(status, points)
    /\ UNCHANGED <<serverVars, view, ability, status, waiting, row, toServer>>

----------------------------------------------------------------------------
(* The server.                                                             *)
client == <<view, shownPoints, CurrentSpellPoints, globe, row>>

ReceiveServerCall ==
    /\ toServer # << >>
    /\ toServer' = Tail(toServer)
    /\ LET m == Head(toServer) IN
       \/ m.call = "ServerSpendSpellPoint" /\ ServerSpendSpellPoint(m.ability)
       \/ m.call = "ServerEquipAbility" /\ ServerEquipAbility(m.ability, m.slot)
    /\ UNCHANGED client

GainLevels(n) ==
    /\ LevelUp(n)
    /\ UNCHANGED <<client, toServer>>

----------------------------------------------------------------------------
Client ==
    \/ \E a \in Abilities : SpellGlobeSelected(a)
    \/ GlobeDeselect \/ SpendPointButtonPressed \/ EquipButtonPressed
    \/ \E s \in Slots : SpellRowGlobePressed(s)

Next ==
    \/ Client \/ ReceiveClientCall \/ ReplicateSpecs \/ OnSpellPointsChanged
    \/ ReceiveServerCall
    \/ \E n \in 1..MaxPlayerLevel : GainLevels(n)

Spec == Init /\ [][Next]_vars

\* Reliable calls arrive, and both game threads go on.
FairSpec == Spec /\ WF_vars(ReceiveServerCall) /\ WF_vars(ReceiveClientCall)

----------------------------------------------------------------------------
ServerCalls ==
    [call : {"ServerSpendSpellPoint"}, ability : Abilities]
    \cup [call : {"ServerEquipAbility"}, ability : Abilities, slot : Slots]

MenuTypeOK ==
    /\ view \in [Abilities -> SUBSET (Statuses \cup Slots)] /\ shownPoints \in Int
    /\ CurrentSpellPoints \in Int
    /\ ability \in Abilities \cup {NoTag} /\ status \in Statuses \cup {"Locked"}
    /\ spendOn \in BOOLEAN /\ equipOn \in BOOLEAN /\ waiting \in BOOLEAN
    /\ row \in [Slots -> Abilities \cup {NoTag}]
    /\ toServer \in Seq(ServerCalls)

(* A slot never holds an ability of the other type, although only the menu *)
(* looks at types and the server takes any call.                           *)
TypesMatch ==
    \A a \in Abilities, s \in Slots :
        s \in tags[a] => (a \in Passives <=> s \in PassiveSlots)

(* Whatever the order in which calls and replicated specs arrive, the menu *)
(* asks the server to equip only what the server can equip; the server     *)
(* confirms also what it refused.                                          *)
EquipsOnlyUsable ==
    \A i \in 1..Len(toServer) :
        toServer[i].call = "ServerEquipAbility" => Equippable(toServer[i].ability)

(* When no call is under way the spell row shows every slot as the server  *)
(* has it, although the menu is told of equipping only, not of displacing. *)
RowShowsSlots ==
    toServer = << >> /\ toClient = << >> => row = RowOf(tags)

(* A menu that waits for the server to equip an ability stops waiting.     *)
EquipAnswered ==
    (waiting /\ \E i \in 1..Len(toServer) : toServer[i].call = "ServerEquipAbility")
    ~> ~waiting
=============================================================================
