---------------------------- MODULE Player_proofs ----------------------------
(***************************************************************************)
(* Proofs about what one player has and does: AbilitySlots, SpellMenu over *)
(* it, and PlayerInput, for any abilities, slots, levels, awards, calls    *)
(* under way, actors, places and keys.                                     *)
(*                                                                         *)
(* AbilitySlots.  SlotsExclusive and PassivesRunInSlots are not inductive: *)
(* a slot is given by looking at containers, so each container must be in  *)
(* order (Container), a container without a spec must be empty, and the    *)
(* saved game must be as orderly as the game it was saved from             *)
(* (SavedInOrder).  An ability with a slot is Equipped, also after another *)
(* one's spec was removed; this makes a loaded passive with a slot run.    *)
(* All ways of equipping end in AssignTo, for containers T in which nobody *)
(* else has the slot: AssignKeepsOrder and AssignRuns are about it alone.  *)
(* PointsConserved needs that an ability waiting for its first point has   *)
(* level 1, is never one the player starts with, and that the same balance *)
(* holds in the saved game (BalanceInv, relative to IndInv).                *)
(*                                                                         *)
(* SpellMenu.  Every step of the menu's world is a step of AbilitySlots or *)
(* leaves it alone, so all that is proved of it holds here.  In this world *)
(* nothing was loaded: no spec is ever removed, and an ability that can be *)
(* equipped stays so (ReadyStays).  Everything the menu knows of an        *)
(* ability, its selection, a replicated container or a status call, then   *)
(* remains true however late it is used: Known.  The spell row is behind   *)
(* the server by the calls under way, and no more: the last of them for a  *)
(* slot says what the slot has (RowComing).                                *)
(*                                                                         *)
(* PlayerInput.  A run and a held mouse button meet only after a press     *)
(* that did not stop the run: HeldRunIsOld.                                *)
(***************************************************************************)
EXTENDS SpellMenu, PlayerInput, Sums, SequenceTheorems

(***************************************************************************)
(* The server's abilities.                                                 *)
(***************************************************************************)

Containers == SUBSET (Statuses \cup Slots)

Container(c) ==
    /\ c \in Containers
    /\ \E st \in Statuses : c \cap Statuses = {st}
    /\ \A s, t \in c \cap Slots : s = t
    /\ c \cap Slots # {} => "Equipped" \in c

\* Containers T for abilities of levels L.
InOrder(T, L) ==
    /\ T \in [Abilities -> Containers]
    /\ \A a \in Abilities : IF L[a] = 0 THEN T[a] = {} ELSE Container(T[a])

Exclusive(T) == \A s \in Slots : \A a, b \in Abilities : s \in T[a] \cap T[b] => a = b

Slotted(T) == {a \in Passives : T[a] \cap Slots # {}}

Types ==
    /\ level \in [Abilities -> Nat]
    /\ points \in Int /\ plevel \in 1..MaxPlayerLevel
    /\ era \in {"first", "loaded", "removed"}

RunTypes ==
    /\ active \subseteq Passives /\ once \subseteq active /\ shown \subseteq Passives
    /\ \A a \in active : level[a] > 0

Running ==
    /\ Slotted(tags) \subseteq active
    /\ era = "first" => once = {} /\ active = Slotted(tags) /\ shown = Slotted(tags)

SavedInOrder == saved # NoSave =>
    \A a \in Abilities :
        /\ saved.level[a] = 0 => saved.status[a] = NoTag /\ saved.slot[a] = NoTag
        /\ saved.level[a] > 0 => saved.status[a] \in Statuses
        /\ saved.slot[a] # NoTag => saved.status[a] = "Equipped"
        /\ \A b \in Abilities :
               saved.slot[a] = saved.slot[b] /\ saved.slot[a] # NoTag => a = b

SavedOK == saved \in SavedGames \cup {NoSave} /\ SavedInOrder

CallsOK == toClient \in Seq(ClientCalls)

IndInv ==
    /\ Types /\ RunTypes /\ SavedOK /\ CallsOK
    /\ InOrder(tags, level) /\ Exclusive(tags) /\ Running

----------------------------------------------------------------------------
(* The operators on containers.                                            *)

(* A search returns a member of the kind, or NoTag when there is none.     *)
LEMMA Search ==
    ASSUME NEW c, NEW kind
    PROVE  /\ c \cap kind = {} => TagOf(c, kind) = NoTag
           /\ c \cap kind # {} => TagOf(c, kind) \in c \cap kind
  BY DEF TagOf

(* The kinds of tags are apart.                                            *)
LEMMA Kinds ==
    /\ \A s \in Slots : s \notin Statuses /\ s # NoTag
    /\ NoTag \notin Statuses
  BY AbilityAssumption

(* Clearing the slot of a container leaves its status alone.               *)
LEMMA ClearedFacts ==
    ASSUME NEW c \in Containers, \A s, t \in c \cap Slots : s = t
    PROVE  /\ Cleared(c) \in Containers
           /\ Cleared(c) \cap Slots = {}
           /\ Cleared(c) \cap Statuses = c \cap Statuses
  <1>1. CASE c \cap Slots = {}
    <2>1. TagOf(c, Slots) = NoTag
      BY <1>1, Search
    <2>2. Cleared(c) = c
      BY <2>1, Kinds DEF Cleared, Containers
    <2> QED
      BY <2>2, <1>1
  <1>2. CASE c \cap Slots # {}
    <2>1. TagOf(c, Slots) \in c \cap Slots
      BY <1>2, Search
    <2>2. \A t \in c \cap Slots : t = TagOf(c, Slots)
      BY <2>1
    <2>3. TagOf(c, Slots) \notin Statuses
      BY <2>1, Kinds
    <2> HIDE DEF TagOf
    <2> QED
      BY <2>2, <2>3 DEF Cleared, Containers
  <1> QED
    BY <1>1, <1>2

LEMMA AssignedFacts ==
    ASSUME NEW c \in Containers, NEW s \in Slots, \A u, t \in c \cap Slots : u = t
    PROVE  /\ Assigned(c, s) \in Containers
           /\ Assigned(c, s) \cap Slots = {s}
           /\ Assigned(c, s) \cap Statuses = c \cap Statuses
  <1>1. /\ Cleared(c) \in Containers
        /\ Cleared(c) \cap Slots = {}
        /\ Cleared(c) \cap Statuses = c \cap Statuses
    BY ClearedFacts
  <1>2. s \notin Statuses
    BY Kinds
  <1> QED
    BY <1>1, <1>2 DEF Assigned, Containers

(* An ordered container in which the slot is cleared or assigned, or the   *)
(* status replaced by Equipped first, is in order.                         *)
LEMMA ContainerCleared ==
    ASSUME NEW c, Container(c)
    PROVE  Container(Cleared(c)) /\ Cleared(c) \cap Slots = {}
  <1>1. /\ c \in Containers
        /\ \A s, t \in c \cap Slots : s = t
    BY DEF Container
  <1>2. /\ Cleared(c) \in Containers
        /\ Cleared(c) \cap Slots = {}
        /\ Cleared(c) \cap Statuses = c \cap Statuses
    BY <1>1, ClearedFacts
  <1> QED
    BY <1>2 DEF Container

LEMMA ContainerAssigned ==
    ASSUME NEW c, Container(c), NEW s \in Slots, c \cap Slots # {}
    PROVE  Container(Assigned(c, s)) /\ Assigned(c, s) \cap Slots = {s}
  <1>1. /\ c \in Containers
        /\ \A u, t \in c \cap Slots : u = t
        /\ "Equipped" \in c
    BY DEF Container
  <1>2. /\ Assigned(c, s) \in Containers
        /\ Assigned(c, s) \cap Slots = {s}
        /\ Assigned(c, s) \cap Statuses = c \cap Statuses
    BY <1>1, AssignedFacts
  <1>3. "Equipped" \in Assigned(c, s)
    BY <1>1, <1>2 DEF Statuses
  <1> QED
    BY <1>2, <1>3 DEF Container

\* What an ability without a slot gets.
Activated(c, s) == Assigned((c \ {TagOf(c, Statuses)}) \cup {"Equipped"}, s)

LEMMA ContainerActivated ==
    ASSUME NEW c, Container(c), NEW s \in Slots, c \cap Slots = {}
    PROVE  Container(Activated(c, s)) /\ Activated(c, s) \cap Slots = {s}
  <1> DEFINE d == (c \ {TagOf(c, Statuses)}) \cup {"Equipped"}
  <1>1. PICK st \in Statuses : c \cap Statuses = {st}
    BY DEF Container
  <1>2. TagOf(c, Statuses) = st
    BY <1>1, Search
  <1>3. "Equipped" \in Statuses /\ "Equipped" \notin Slots
    BY Kinds DEF Statuses
  <1>4. c \in Containers
    BY DEF Container
  <1>5. d = (c \ {st}) \cup {"Equipped"}
    BY <1>2
  <1>6. d \in Containers /\ d \cap Slots = {} /\ d \cap Statuses = {"Equipped"}
    BY <1>1, <1>3, <1>4, <1>5 DEF Containers
  <1>7. \A u, t \in d \cap Slots : u = t
    BY <1>6
  <1> HIDE DEF d
  <1>8. /\ Assigned(d, s) \in Containers
        /\ Assigned(d, s) \cap Slots = {s}
        /\ Assigned(d, s) \cap Statuses = d \cap Statuses
    BY <1>6, <1>7, AssignedFacts
  <1>9. "Equipped" \in Assigned(d, s)
    BY <1>6, <1>8
  <1>10. Container(Assigned(d, s))
    BY <1>3, <1>6, <1>8, <1>9 DEF Container
  <1> QED
    BY <1>8, <1>10 DEF Activated, d

----------------------------------------------------------------------------
(* AssignTo, for an ability x with a spec, a slot s nobody else has, and   *)
(* containers T.                                                           *)

(* Slots stay exclusive, x has the slot now, and the others keep theirs.   *)
LEMMA AssignKeepsOrder ==
    ASSUME NEW T, NEW L, NEW x \in Abilities, NEW a, NEW s \in Slots, NEW runs, NEW effects,
           InOrder(T, L), Exclusive(T), L[x] # 0,
           \A b \in Abilities \ {x} : s \notin T[b],
           AssignTo(x, a, s, T, runs, effects)
    PROVE  /\ InOrder(tags', L) /\ Exclusive(tags')
           /\ tags'[x] \cap Slots = {s}
           /\ \A b \in Abilities \ {x} : tags'[b] = T[b]
  <1>1. T \in [Abilities -> Containers]
    BY DEF InOrder
  <1>2. Container(T[x])
    BY DEF InOrder
  <1>3. PICK c : /\ tags' = [T EXCEPT ![x] = c]
                 /\ Container(c) /\ c \cap Slots = {s}
    <2>1. CASE T[x] \cap Slots = {}
      <3>1. tags' = [T EXCEPT ![x] = Activated(T[x], s)]
        BY <2>1, <1>1 DEF AssignTo, Activated
      <3>2. Container(Activated(T[x], s)) /\ Activated(T[x], s) \cap Slots = {s}
        BY <1>2, <2>1, ContainerActivated
      <3> QED
        BY <3>1, <3>2
    <2>2. CASE T[x] \cap Slots # {}
      <3>1. tags' = [T EXCEPT ![x] = Assigned(T[x], s)]
        BY <2>2, <1>1 DEF AssignTo
      <3>2. Container(Assigned(T[x], s)) /\ Assigned(T[x], s) \cap Slots = {s}
        BY <1>2, <2>2, ContainerAssigned
      <3> QED
        BY <3>1, <3>2
    <2> QED
      BY <2>1, <2>2
  <1>4. c \in Containers
    BY <1>3 DEF Container
  <1>5. tags'[x] = c /\ \A b \in Abilities \ {x} : tags'[b] = T[b]
    BY <1>1, <1>3
  <1>6. tags' \in [Abilities -> Containers]
    BY <1>1, <1>3, <1>4
  <1>7. InOrder(tags', L)
    BY <1>3, <1>5, <1>6 DEF InOrder
  <1>8. Exclusive(tags')
    <2> SUFFICES ASSUME NEW t \in Slots, NEW u \in Abilities, NEW v \in Abilities,
                        t \in tags'[u], t \in tags'[v]
                 PROVE  u = v
      BY DEF Exclusive
    <2>1. CASE t = s
      <3>1. \A b \in Abilities \ {x} : t \notin tags'[b]
        BY <1>5, <2>1
      <3> QED
        BY <3>1
    <2>2. CASE t # s
      <3>1. t \notin tags'[x]
        BY <1>3, <1>5, <2>2
      <3>2. t \in T[u] /\ t \in T[v]
        BY <1>5, <3>1
      <3> QED
        BY <3>2 DEF Exclusive
    <2> QED
      BY <2>1, <2>2
  <1> QED
    BY <1>3, <1>5, <1>7, <1>8

(* Exactly x may begin to run; and if those with a slot ran, they run.     *)
LEMMA AssignRuns ==
    ASSUME NEW T, NEW x \in Abilities, NEW a, NEW s \in Slots, NEW runs, NEW effects,
           runs \subseteq Passives, effects \subseteq Passives,
           Slotted(T) \subseteq runs,
           \A b \in Abilities \ {x} : tags'[b] = T[b],
           AssignTo(x, a, s, T, runs, effects)
    PROVE  /\ active' \subseteq Passives /\ shown' \subseteq Passives
           /\ runs \subseteq active' /\ active' \subseteq runs \cup {x}
           /\ Slotted(tags') \subseteq active'
  <1>1. shown' \in {effects, Effect(effects, a, TRUE)}
    BY DEF AssignTo
  <1>2. Effect(effects, a, TRUE) \subseteq Passives
    BY DEF Effect
  <1>3. active' = IF T[x] \cap Slots = {} /\ x \in Passives THEN runs \cup {x} ELSE runs
    BY DEF AssignTo
  <1>4. x \in Passives => x \in active'
    BY <1>3 DEF Slotted
  <1>5. \A b \in Passives \ {x} : b \in Slotted(tags') => b \in runs
    BY AbilityAssumption DEF Slotted
  <1>6. Slotted(tags') \subseteq active'
    BY <1>3, <1>4, <1>5 DEF Slotted
  <1> QED
    BY <1>1, <1>2, <1>3, <1>6

(* If exactly those with a slot ran and were shown, it is so afterwards.   *)
LEMMA AssignShows ==
    ASSUME NEW T, NEW x \in Abilities, NEW s \in Slots,
           tags'[x] \cap Slots = {s},
           \A b \in Abilities \ {x} : tags'[b] = T[b],
           AssignTo(x, x, s, T, Slotted(T), Slotted(T))
    PROVE  active' = Slotted(tags') /\ shown' = Slotted(tags')
  <1>1. Slotted(tags') = Slotted(T) \cup ({x} \cap Passives)
    BY AbilityAssumption DEF Slotted
  <1>2. CASE T[x] \cap Slots = {}
    <2>1. x \notin Slotted(T)
      BY <1>2 DEF Slotted
    <2>2. active' = Slotted(T) \cup ({x} \cap Passives)
      BY <1>2 DEF AssignTo
    <2>3. shown' = Slotted(T) \cup ({x} \cap Passives)
      BY <1>2, <2>1 DEF AssignTo, Effect
    <2> QED
      BY <1>1, <2>2, <2>3
  <1>3. CASE T[x] \cap Slots # {}
    <2>1. active' = Slotted(T) /\ shown' = Slotted(T)
      BY <1>3 DEF AssignTo
    <2>2. x \in Passives => x \in Slotted(T)
      BY <1>3 DEF Slotted
    <2> QED
      BY <1>1, <2>1, <2>2
  <1> QED
    BY <1>2, <1>3

----------------------------------------------------------------------------
(* The steps, one lemma each.                                              *)

LEMMA StatusSlotTypes ==
    \A a \in Abilities : StatusOf(a) \in Statuses \cup {NoTag} /\ SlotOf(a) \in Slots \cup {NoTag}
  BY Search DEF StatusOf, SlotOf

(* An ability with a spec has the status found in its container.           *)
LEMMA StatusFound ==
    ASSUME IndInv, NEW a \in Abilities, level[a] # 0
    PROVE  StatusOf(a) \in Statuses /\ tags[a] \cap Statuses = {StatusOf(a)}
  <1>1. Container(tags[a])
    BY DEF IndInv, InOrder
  <1>2. PICK st \in Statuses : tags[a] \cap Statuses = {st}
    BY <1>1 DEF Container
  <1> QED
    BY <1>2, Search DEF StatusOf

LEMMA GivenHaveLevel == IndInv => Given = {a \in Abilities : level[a] # 0}
  BY DEF IndInv, Types, Given

LEMMA InitInv == ServerInit => IndInv
  <1> SUFFICES ASSUME ServerInit
               PROVE  IndInv
    OBVIOUS
  <1> USE DEF ServerInit
  <1>1. Types /\ RunTypes /\ SavedOK /\ CallsOK
    BY AbilityAssumption DEF Types, RunTypes, SavedOK, SavedInOrder, CallsOK
  <1>2. \A a \in Startup : /\ StartSlot[a] \in Slots /\ StartSlot[a] \notin Statuses
                           /\ "Equipped" \notin Slots
    BY AbilityAssumption, Kinds DEF Statuses
  <1>3. \A a \in Startup : Container({StartSlot[a], "Equipped"})
    BY <1>2 DEF Container, Containers, Statuses
  <1>4. InOrder(tags, level)
    <2>1. tags \in [Abilities -> Containers]
      BY <1>3 DEF Container, Containers
    <2>2. \A a \in Abilities : IF level[a] = 0 THEN tags[a] = {} ELSE Container(tags[a])
      BY <1>3
    <2> QED
      BY <2>1, <2>2 DEF InOrder
  <1>5. Exclusive(tags)
    <2> SUFFICES ASSUME NEW s \in Slots, NEW a \in Abilities, NEW b \in Abilities,
                        s \in tags[a], s \in tags[b]
                 PROVE  a = b
      BY DEF Exclusive
    <2>1. a \in Startup /\ b \in Startup
      OBVIOUS
    <2>2. s = StartSlot[a] /\ s = StartSlot[b]
      BY <2>1, <1>2
    <2> QED
      BY <2>1, <2>2, AbilityAssumption
  <1>6. Slotted(tags) = {}
    BY AbilityAssumption DEF Slotted
  <1>7. Running
    BY <1>6 DEF Running
  <1> QED
    BY <1>1, <1>4, <1>5, <1>7 DEF IndInv

LEMMA LevelUpInv ==
    ASSUME IndInv, NEW n \in 1..MaxPlayerLevel, LevelUp(n)
    PROVE  IndInv'
  <1> DEFINE new == {a \in Abilities \ Given : Requirement[a] <= plevel + n}
  <1>1. /\ plevel + n <= MaxPlayerLevel
        /\ plevel' = plevel + n
        /\ level' = [a \in Abilities |-> IF a \in new THEN 1 ELSE level[a]]
        /\ tags' = [a \in Abilities |-> IF a \in new THEN {"Eligible"} ELSE tags[a]]
        /\ points' = points + Awarded[plevel + n] - Awarded[plevel]
        /\ UNCHANGED <<active, once, shown, saved, era>>
    BY DEF LevelUp
  <1>2. PICK order \in SetToSeqs(new) :
            toClient' = toClient \o [i \in DOMAIN order |-> StatusChanged(order[i], "Eligible")]
    BY DEF LevelUp
  <1>3. new \subseteq Abilities /\ \A a \in new : level[a] = 0
    BY GivenHaveLevel
  <1>4. "Eligible" \in Statuses /\ "Eligible" \notin Slots
    BY Kinds DEF Statuses
  <1>5. Types'
    <2>1. plevel \in 1..MaxPlayerLevel /\ level \in [Abilities -> Nat] /\ points \in Int
      BY DEF IndInv, Types
    <2>2. MaxPlayerLevel \in Nat /\ Awarded \in [1..MaxPlayerLevel -> Nat]
      BY AbilityAssumption
    <2>3. plevel' \in 1..MaxPlayerLevel
      BY <1>1, <2>1, <2>2
    <2>4. points' \in Int
      BY <1>1, <2>1, <2>2, <2>3
    <2>5. level' \in [Abilities -> Nat]
      BY <1>1, <2>1
    <2> QED
      BY <1>1, <2>3, <2>4, <2>5 DEF IndInv, Types
  <1>6. CallsOK'
    <2>1. Cardinality(new) \in Nat
      BY <1>3, AbilityAssumption, FS_Subset, FS_CardinalityType
    <2>2. order \in [1..Cardinality(new) -> new]
      BY DEF SetToSeqs
    <2>3. DOMAIN order = 1..Cardinality(new) /\ \A i \in DOMAIN order : order[i] \in Abilities
      BY <2>2, <1>3
    <2>4. \A i \in DOMAIN order : StatusChanged(order[i], "Eligible") \in ClientCalls
      BY <2>3, <1>4 DEF StatusChanged, ClientCalls
    <2> HIDE DEF new
    <2> DEFINE said == [i \in DOMAIN order |-> StatusChanged(order[i], "Eligible")]
    <2>5. said \in [1..Cardinality(new) -> ClientCalls]
      BY <2>3, <2>4
    <2>6. said \in Seq(ClientCalls)
      BY <2>1, <2>5
    <2> HIDE DEF said
    <2>7. toClient \in Seq(ClientCalls)
      BY DEF IndInv, CallsOK
    <2>8. toClient \o said \in Seq(ClientCalls)
      BY <2>6, <2>7, ConcatProperties
    <2> QED
      BY <1>2, <2>8 DEF CallsOK, said
  <1>7. Container({"Eligible"}) /\ {"Eligible"} \cap Slots = {}
    BY <1>4 DEF Container, Containers
  <1>8. InOrder(tags', level')
    <2>1. InOrder(tags, level)
      BY DEF IndInv
    <2>2. tags' \in [Abilities -> Containers]
      BY <1>1, <1>7, <2>1 DEF InOrder, Container
    <2>3. \A a \in Abilities : IF level'[a] = 0 THEN tags'[a] = {} ELSE Container(tags'[a])
      BY <1>1, <1>7, <2>1 DEF InOrder
    <2> QED
      BY <2>2, <2>3 DEF InOrder
  <1>9. \A a \in Abilities : tags'[a] \cap Slots = tags[a] \cap Slots
    <2>1. \A a \in new : tags[a] = {}
      BY <1>3 DEF IndInv, InOrder
    <2> QED
      BY <1>1, <1>7, <2>1
  <1>10. Exclusive(tags')
    BY <1>9 DEF IndInv, Exclusive
  <1>11. Slotted(tags') = Slotted(tags)
    BY <1>9, AbilityAssumption DEF Slotted
  <1>12. Running'
    BY <1>1, <1>11 DEF IndInv, Running
  <1>13. RunTypes'
    <2>1. RunTypes /\ \A a \in active : a \in Abilities
      BY AbilityAssumption DEF IndInv, RunTypes
    <2>2. \A a \in active : level'[a] > 0
      BY <1>1, <2>1 DEF RunTypes
    <2> QED
      BY <1>1, <2>1, <2>2 DEF RunTypes
  <1>14. SavedOK'
    BY <1>1 DEF IndInv, SavedOK, SavedInOrder
  <1> QED
    BY <1>5, <1>6, <1>8, <1>10, <1>12, <1>13, <1>14 DEF IndInv

(* Calls to the client are well formed.                                    *)
LEMMA CallAppended ==
    ASSUME IndInv, NEW m \in ClientCalls, toClient' = Append(toClient, m)
    PROVE  CallsOK'
  BY DEF IndInv, CallsOK

LEMMA SpendInv ==
    ASSUME IndInv, NEW a \in Abilities, ServerSpendSpellPoint(a)
    PROVE  IndInv'
  <1>1. /\ points' = points - 1
        /\ UNCHANGED <<active, once, shown, plevel, saved, era>>
    BY DEF ServerSpendSpellPoint
  <1>2. level[a] # 0 /\ StatusOf(a) \in Statuses /\ tags[a] \cap Statuses = {StatusOf(a)}
    BY GivenHaveLevel, StatusFound DEF ServerSpendSpellPoint
  <1>3. Container(tags[a]) /\ tags \in [Abilities -> Containers] /\ level \in [Abilities -> Nat]
    BY <1>2 DEF IndInv, InOrder, Types
  <1>4. PICK st \in Statuses : toClient' = Append(toClient, StatusChanged(a, st))
    <2>1. "Unlocked" \in Statuses
      BY DEF Statuses
    <2>2. CASE StatusOf(a) = "Eligible"
      BY <2>1, <2>2 DEF ServerSpendSpellPoint
    <2>3. CASE StatusOf(a) # "Eligible"
      BY <1>2, <2>3 DEF ServerSpendSpellPoint
    <2> QED
      BY <2>2, <2>3
  <1>5. CallsOK'
    <2>1. StatusChanged(a, st) \in ClientCalls
      BY DEF StatusChanged, ClientCalls
    <2> QED
      BY <1>4, <2>1, CallAppended
  <1>6. /\ level' \in [Abilities -> Nat]
        /\ \A b \in Abilities : (level'[b] = 0) <=> (level[b] = 0)
    <2>1. CASE StatusOf(a) = "Eligible"
      BY <2>1, <1>3 DEF ServerSpendSpellPoint
    <2>2. CASE StatusOf(a) # "Eligible"
      <3>1. level' = [level EXCEPT ![a] = @ + 1] \/ level' = level
        BY <2>2 DEF ServerSpendSpellPoint
      <3>2. CASE level' = [level EXCEPT ![a] = @ + 1]
        BY <1>2, <1>3, <3>2
      <3> QED
        BY <1>3, <3>1, <3>2
    <2> QED
      BY <2>1, <2>2
  <1>7. PICK c : /\ tags' = [tags EXCEPT ![a] = c]
                 /\ Container(c) /\ c \cap Slots = tags[a] \cap Slots
    <2>1. CASE StatusOf(a) = "Eligible"
      <3> DEFINE d == (tags[a] \ {"Eligible"}) \cup {"Unlocked"}
      <3>1. tags' = [tags EXCEPT ![a] = d]
        BY <1>3, <2>1 DEF ServerSpendSpellPoint
      <3>2. /\ "Unlocked" \in Statuses /\ "Unlocked" \notin Slots /\ "Eligible" \notin Slots
            /\ "Equipped" \in Statuses
        BY Kinds DEF Statuses
      <3>3. "Equipped" \notin tags[a]
        BY <1>2, <2>1, <3>2
      <3>4. tags[a] \cap Slots = {}
        BY <1>3, <3>3 DEF Container
      <3>5. d \cap Slots = {} /\ d \cap Statuses = {"Unlocked"} /\ d \in Containers
        BY <1>2, <1>3, <2>1, <3>2, <3>4 DEF Containers
      <3> HIDE DEF d
      <3>6. Container(d)
        BY <3>2, <3>5 DEF Container
      <3> QED
        BY <3>1, <3>4, <3>5, <3>6
    <2>2. CASE StatusOf(a) # "Eligible"
      <3>1. tags' = tags
        BY <2>2 DEF ServerSpendSpellPoint
      <3>2. tags' = [tags EXCEPT ![a] = tags[a]]
        BY <1>3, <3>1
      <3> QED
        BY <1>3, <3>2
    <2> QED
      BY <2>1, <2>2
  <1>8. \A b \in Abilities : tags'[b] \cap Slots = tags[b] \cap Slots
    BY <1>3, <1>7
  <1>9. InOrder(tags', level')
    <2>1. c \in Containers
      BY <1>7 DEF Container
    <2>2. tags' \in [Abilities -> Containers]
      BY <1>3, <1>7, <2>1
    <2>3. \A b \in Abilities : IF level[b] = 0 THEN tags[b] = {} ELSE Container(tags[b])
      BY DEF IndInv, InOrder
    <2>4. \A b \in Abilities : IF level'[b] = 0 THEN tags'[b] = {} ELSE Container(tags'[b])
      BY <1>2, <1>3, <1>6, <1>7, <2>3
    <2> QED
      BY <2>2, <2>4 DEF InOrder
  <1>10. Exclusive(tags') /\ Slotted(tags') = Slotted(tags)
    <2>1. Exclusive(tags)
      BY DEF IndInv
    <2>2. Exclusive(tags')
      BY <1>8, <2>1 DEF Exclusive
    <2>3. Slotted(tags') = Slotted(tags)
      BY <1>8, AbilityAssumption DEF Slotted
    <2> QED
      BY <2>2, <2>3
  <1>11. Types'
    BY <1>1, <1>6 DEF IndInv, Types
  <1>12. RunTypes'
    <2>1. RunTypes /\ \A b \in active : b \in Abilities
      BY AbilityAssumption DEF IndInv, RunTypes
    <2>2. \A b \in active : level'[b] > 0
      BY <1>3, <1>6, <2>1 DEF RunTypes
    <2> QED
      BY <1>1, <2>1, <2>2 DEF RunTypes
  <1>13. Running' /\ SavedOK'
    BY <1>1, <1>10 DEF IndInv, Running, SavedOK, SavedInOrder
  <1> QED
    BY <1>5, <1>9, <1>10, <1>11, <1>12, <1>13 DEF IndInv

(* What every way of equipping leaves to show.                             *)
LEMMA EquipRest ==
    ASSUME IndInv, NEW a \in Abilities, NEW s \in Slots, ServerEquipAbility(a, s)
    PROVE  /\ level[a] # 0 /\ CallsOK' /\ SavedOK'
           /\ UNCHANGED <<points, plevel, saved>>
  <1>1. /\ toClient' = Append(toClient, Equipped(a, s, SlotOf(a)))
        /\ UNCHANGED <<points, plevel, saved>> /\ a \in Given
    BY DEF ServerEquipAbility
  <1>2. Equipped(a, s, SlotOf(a)) \in ClientCalls
    BY StatusSlotTypes DEF Equipped, ClientCalls
  <1>3. CallsOK'
    BY <1>1, <1>2, CallAppended
  <1> QED
    BY <1>1, <1>3, GivenHaveLevel DEF IndInv, SavedOK, SavedInOrder

(* Equipping changes these alone.                                          *)
EquipInv ==
    /\ level \in [Abilities -> Nat] /\ era \in {"first", "loaded", "removed"}
    /\ RunTypes /\ InOrder(tags, level) /\ Exclusive(tags) /\ Running

LEMMA EquipUnchangedInv ==
    ASSUME IndInv, NEW a \in Abilities, NEW s \in Slots, EquipUnchanged(a, s)
    PROVE  EquipInv'
  BY DEF EquipUnchanged, IndInv, Types, EquipInv, RunTypes, Running, Slotted, InOrder, Exclusive

LEMMA EquipEmptyInv ==
    ASSUME IndInv, NEW a \in Abilities, NEW s \in Slots, level[a] # 0, EquipEmpty(a, s)
    PROVE  EquipInv'
  <1>1. /\ Holders(s) = {}
        /\ AssignTo(a, a, s, tags, active, shown)
        /\ UNCHANGED <<level, once, era>>
    BY DEF EquipEmpty
  <1>2. /\ InOrder(tags, level) /\ Exclusive(tags)
        /\ Slotted(tags) \subseteq active
        /\ active \subseteq Passives /\ shown \subseteq Passives /\ once \subseteq active
        /\ level \in [Abilities -> Nat] /\ era \in {"first", "loaded", "removed"}
    BY DEF IndInv, Running, RunTypes, Types
  <1>3. \A b \in Abilities : s \notin tags[b]
    <2>1. \A b \in Abilities : level[b] # 0 => s \notin tags[b]
      BY <1>1, GivenHaveLevel DEF Holders
    <2>2. \A b \in Abilities : level[b] = 0 => tags[b] = {}
      BY <1>2 DEF InOrder
    <2> QED
      BY <2>1, <2>2
  <1>4. /\ InOrder(tags', level) /\ Exclusive(tags')
        /\ tags'[a] \cap Slots = {s}
        /\ \A b \in Abilities \ {a} : tags'[b] = tags[b]
    BY <1>1, <1>2, <1>3, AssignKeepsOrder
  <1>5. /\ active' \subseteq Passives /\ shown' \subseteq Passives
        /\ active \subseteq active' /\ active' \subseteq active \cup {a}
        /\ Slotted(tags') \subseteq active'
    BY <1>1, <1>2, <1>4, AssignRuns
  <1>6. era = "first" => once = {} /\ active' = Slotted(tags') /\ shown' = Slotted(tags')
    <2> SUFFICES ASSUME era = "first"
                 PROVE  once = {} /\ active' = Slotted(tags') /\ shown' = Slotted(tags')
      OBVIOUS
    <2>1. once = {} /\ active = Slotted(tags) /\ shown = Slotted(tags)
      BY DEF IndInv, Running
    <2>2. AssignTo(a, a, s, tags, Slotted(tags), Slotted(tags))
      BY <1>1, <2>1
    <2> QED
      BY <1>4, <2>1, <2>2, AssignShows
  <1>7. RunTypes'
    <2>1. \A b \in active : level[b] > 0
      BY DEF IndInv, RunTypes
    <2>2. \A b \in active' : level[b] > 0
      BY <1>2, <1>5, <2>1
    <2> QED
      BY <1>1, <1>2, <1>5, <2>2 DEF RunTypes
  <1>8. InOrder(tags', level') /\ Running'
    BY <1>1, <1>4, <1>5, <1>6 DEF Running
  <1> QED
    BY <1>1, <1>2, <1>4, <1>7, <1>8 DEF EquipInv

(* Clearing the slot of b, or all of b's tags, leaves the rest in order,   *)
(* and a slot that b had with nobody.                                      *)
LEMMA ClearedContainers ==
    ASSUME NEW T, NEW L, InOrder(T, L), Exclusive(T), NEW b \in Abilities
    PROVE  /\ InOrder([T EXCEPT ![b] = Cleared(@)], L)
           /\ Exclusive([T EXCEPT ![b] = Cleared(@)])
           /\ Slotted([T EXCEPT ![b] = Cleared(@)]) = Slotted(T) \ {b}
  <1> DEFINE U == [T EXCEPT ![b] = Cleared(@)]
  <1>1. T \in [Abilities -> Containers]
    BY DEF InOrder
  <1>2. U[b] = Cleared(T[b]) /\ \A c \in Abilities \ {b} : U[c] = T[c]
    BY <1>1
  <1>3. /\ U[b] \cap Slots = {}
        /\ IF L[b] = 0 THEN U[b] = {} ELSE Container(U[b])
    <2>1. CASE L[b] = 0
      <3>1. T[b] = {}
        BY <2>1 DEF InOrder
      <3>2. Cleared(T[b]) = {}
        BY <3>1 DEF Cleared
      <3> QED
        BY <1>2, <2>1, <3>2
    <2>2. CASE L[b] # 0
      <3>1. Container(T[b])
        BY <2>2 DEF InOrder
      <3>2. Container(Cleared(T[b])) /\ Cleared(T[b]) \cap Slots = {}
        BY <3>1, ContainerCleared
      <3> QED
        BY <1>2, <2>2, <3>2
    <2> QED
      BY <2>1, <2>2
  <1>4. U[b] \in Containers
    BY <1>3 DEF Container, Containers
  <1>5. U \in [Abilities -> Containers]
    <2>1. DOMAIN U = Abilities /\ \A c \in Abilities : U[c] \in Containers
      BY <1>1, <1>2, <1>4
    <2>2. U = [c \in Abilities |-> U[c]]
      BY <1>1
    <2> QED
      BY <2>1, <2>2
  <1> HIDE DEF U
  <1>6. InOrder(U, L)
    <2>1. \A c \in Abilities : IF L[c] = 0 THEN U[c] = {} ELSE Container(U[c])
      BY <1>2, <1>3 DEF InOrder
    <2> QED
      BY <1>5, <2>1 DEF InOrder
  <1>7. Exclusive(U)
    <2>1. \A c \in Abilities : U[c] \cap Slots \subseteq T[c]
      BY <1>2, <1>3
    <2> QED
      BY <2>1 DEF Exclusive
  <1>8. Slotted(U) = Slotted(T) \ {b}
    BY <1>2, <1>3, AbilityAssumption DEF Slotted
  <1> QED
    BY <1>6, <1>7, <1>8 DEF U

LEMMA EquipDisplacingInv ==
    ASSUME IndInv, NEW a \in Abilities, NEW s \in Slots, NEW b \in Abilities, level[a] # 0,
           EquipDisplacing(a, s, b)
    PROVE  EquipInv'
  <1> DEFINE T == [tags EXCEPT ![b] = Cleared(@)]
             runs == active \ {b}
             effects == Effect(shown, b, FALSE)
  <1>1. /\ b \in Holders(s) /\ b # a /\ b \notin once
        /\ AssignTo(a, a, s, T, runs, effects)
        /\ UNCHANGED <<level, once, era>>
    BY DEF EquipDisplacing
  <1>2. /\ InOrder(tags, level) /\ Exclusive(tags)
        /\ Slotted(tags) \subseteq active
        /\ active \subseteq Passives /\ shown \subseteq Passives /\ once \subseteq active
        /\ level \in [Abilities -> Nat] /\ era \in {"first", "loaded", "removed"}
    BY DEF IndInv, Running, RunTypes, Types
  <1>3. InOrder(T, level) /\ Exclusive(T) /\ Slotted(T) = Slotted(tags) \ {b}
    BY <1>2, ClearedContainers
  <1>4. T[b] \cap Slots = {} /\ \A c \in Abilities \ {b} : T[c] = tags[c]
    <2>1. tags \in [Abilities -> Containers] /\ Container(tags[b])
      BY <1>1, <1>2, GivenHaveLevel DEF InOrder, Holders
    <2>2. Cleared(tags[b]) \cap Slots = {}
      BY <2>1, ContainerCleared
    <2> QED
      BY <2>1, <2>2
  <1>5. effects = shown \ {b}
    BY DEF Effect
  <1> HIDE DEF T
  <1>6. \A c \in Abilities \ {a} : s \notin T[c]
    <2>1. s \in tags[b]
      BY <1>1 DEF Holders
    <2>2. \A c \in Abilities \ {b} : s \notin tags[c]
      BY <1>2, <2>1 DEF Exclusive
    <2> QED
      BY <1>4, <2>2
  <1>7. /\ InOrder(tags', level) /\ Exclusive(tags')
        /\ tags'[a] \cap Slots = {s}
        /\ \A c \in Abilities \ {a} : tags'[c] = T[c]
    BY <1>1, <1>3, <1>6, AssignKeepsOrder
  <1>8. runs \subseteq Passives /\ effects \subseteq Passives /\ Slotted(T) \subseteq runs
    BY <1>2, <1>3, <1>5
  <1>9. /\ active' \subseteq Passives /\ shown' \subseteq Passives
        /\ runs \subseteq active' /\ active' \subseteq runs \cup {a}
        /\ Slotted(tags') \subseteq active'
    <2> HIDE DEF runs, effects
    <2> QED
      BY <1>1, <1>7, <1>8, AssignRuns
  <1>10. era = "first" => once = {} /\ active' = Slotted(tags') /\ shown' = Slotted(tags')
    <2> SUFFICES ASSUME era = "first"
                 PROVE  once = {} /\ active' = Slotted(tags') /\ shown' = Slotted(tags')
      OBVIOUS
    <2>1. once = {} /\ active = Slotted(tags) /\ shown = Slotted(tags)
      BY DEF IndInv, Running
    <2>2. runs = Slotted(T) /\ effects = Slotted(T)
      BY <1>3, <1>5, <2>1
    <2>3. AssignTo(a, a, s, T, Slotted(T), Slotted(T))
      BY <1>1, <2>2
    <2> QED
      BY <1>7, <2>1, <2>3, AssignShows
  <1>11. RunTypes'
    <2>1. \A c \in active : level[c] > 0
      BY DEF IndInv, RunTypes
    <2>2. \A c \in active' : level[c] > 0
      BY <1>2, <1>9, <2>1
    <2>3. once \subseteq active'
      BY <1>1, <1>2, <1>9
    <2> QED
      BY <1>1, <1>9, <2>2, <2>3 DEF RunTypes
  <1>12. InOrder(tags', level') /\ Running'
    BY <1>1, <1>7, <1>9, <1>10 DEF Running
  <1> QED
    BY <1>1, <1>2, <1>7, <1>11, <1>12 DEF EquipInv

LEMMA EquipRemovingInv ==
    ASSUME IndInv, NEW a \in Abilities, NEW s \in Slots, NEW b \in Abilities,
           EquipRemoving(a, s, b)
    PROVE  EquipInv'
  <1> DEFINE rest == Given \ {b}
             left == [tags EXCEPT ![b] = {}]
             runs == active \ {b}
             effects == Effect(shown, b, FALSE)
             Target(y) == IF y = NoTag THEN left ELSE [left EXCEPT ![y] = Cleared(@)]
  <1>1. /\ b \in Holders(s) /\ b \in once
        /\ level' = [level EXCEPT ![b] = 0] /\ once' = once \ {b} /\ era' = "removed"
    BY DEF EquipRemoving
  <1>2. PICK y \in rest \cup {NoTag}, x \in rest \cup {NoTag} :
            IF x = NoTag
            THEN tags' = Target(y) /\ active' = runs /\ shown' = effects
            ELSE AssignTo(x, a, s, Target(y), runs, effects)
    BY DEF EquipRemoving
  <1>3. /\ InOrder(tags, level) /\ Exclusive(tags)
        /\ Slotted(tags) \subseteq active
        /\ active \subseteq Passives /\ shown \subseteq Passives /\ once \subseteq active
        /\ level \in [Abilities -> Nat]
        /\ \A c \in active : level[c] > 0
    BY DEF IndInv, Running, RunTypes, Types
  <1>4. /\ level' \in [Abilities -> Nat]
        /\ level'[b] = 0 /\ \A c \in Abilities \ {b} : level'[c] = level[c]
    BY <1>1, <1>3
  <1>5. \A c \in rest : c \in Abilities /\ c # b /\ c # NoTag /\ level'[c] # 0
    BY <1>4, GivenHaveLevel, AbilityAssumption
  <1>6. effects = shown \ {b}
    BY DEF Effect
  <1>7. /\ tags \in [Abilities -> Containers]
        /\ left[b] = {} /\ \A c \in Abilities \ {b} : left[c] = tags[c]
    BY <1>3 DEF InOrder
  <1>8. left \in [Abilities -> Containers]
    BY <1>7 DEF Containers
  <1> HIDE DEF left
  <1>9. InOrder(left, level')
    <2>1. \A c \in Abilities : IF level'[c] = 0 THEN left[c] = {} ELSE Container(left[c])
      BY <1>3, <1>4, <1>7 DEF InOrder
    <2> QED
      BY <1>8, <2>1 DEF InOrder
  <1>10. Exclusive(left) /\ Slotted(left) \subseteq runs
    <2>1. \A c \in Abilities : left[c] \subseteq tags[c]
      BY <1>7
    <2>2. Exclusive(left)
      BY <1>3, <2>1 DEF Exclusive
    <2>3. Slotted(left) \subseteq Slotted(tags) \ {b}
      BY <1>7, <2>1, AbilityAssumption DEF Slotted
    <2> QED
      BY <1>3, <2>2, <2>3
  <1>11. \A c \in Abilities : s \notin left[c]
    <2>1. s \in tags[b]
      BY <1>1 DEF Holders
    <2>2. \A c \in Abilities \ {b} : s \notin tags[c]
      BY <1>3, <2>1 DEF Exclusive
    <2> QED
      BY <1>7, <2>2
  <1>12. PICK T : /\ T = Target(y)
                  /\ InOrder(T, level') /\ Exclusive(T) /\ Slotted(T) \subseteq runs
                  /\ \A c \in Abilities : s \notin T[c]
    <2>1. CASE y = NoTag
      BY <1>9, <1>10, <1>11, <2>1
    <2>2. CASE y # NoTag
      <3>1. y \in Abilities /\ Target(y) = [left EXCEPT ![y] = Cleared(@)]
        BY <1>5, <2>2
      <3>2. /\ InOrder(Target(y), level') /\ Exclusive(Target(y))
            /\ Slotted(Target(y)) = Slotted(left) \ {y}
        BY <1>9, <1>10, <3>1, ClearedContainers
      <3>3. \A c \in Abilities : Target(y)[c] \subseteq left[c]
        BY <1>8, <3>1 DEF Cleared
      <3>4. /\ Slotted(Target(y)) \subseteq runs
            /\ \A c \in Abilities : s \notin Target(y)[c]
        BY <1>10, <1>11, <3>2, <3>3
      <3> QED
        BY <3>2, <3>4
    <2> QED
      BY <2>1, <2>2
  <1> HIDE DEF Target
  <1>13. runs \subseteq Passives /\ effects \subseteq Passives
    BY <1>3, <1>6
  <1>14. /\ InOrder(tags', level') /\ Exclusive(tags')
         /\ active' \subseteq Passives /\ shown' \subseteq Passives
         /\ runs \subseteq active' /\ Slotted(tags') \subseteq active'
         /\ \A c \in active' : level'[c] # 0
    <2>1. \A c \in runs : c \in Abilities /\ level'[c] # 0
      BY <1>3, <1>4, AbilityAssumption
    <2>2. CASE x = NoTag
      <3>1. tags' = T /\ active' = runs /\ shown' = effects
        BY <1>2, <1>12, <2>2
      <3> QED
        BY <1>12, <1>13, <2>1, <3>1 DEF InOrder, Exclusive, Slotted
    <2>3. CASE x # NoTag
      <3>1. x \in Abilities /\ level'[x] # 0
        BY <1>5, <2>3
      <3>2. AssignTo(x, a, s, T, runs, effects)
        BY <1>2, <1>12, <2>3
      <3> HIDE DEF runs, effects
      <3>3. /\ InOrder(tags', level') /\ Exclusive(tags')
            /\ \A c \in Abilities \ {x} : tags'[c] = T[c]
        BY <1>12, <3>1, <3>2, AssignKeepsOrder
      <3>4. /\ active' \subseteq Passives /\ shown' \subseteq Passives
            /\ runs \subseteq active' /\ active' \subseteq runs \cup {x}
            /\ Slotted(tags') \subseteq active'
        BY <1>12, <1>13, <3>1, <3>2, <3>3, AssignRuns
      <3> QED
        BY <2>1, <3>1, <3>3, <3>4
    <2> QED
      BY <2>2, <2>3
  <1>15. RunTypes'
    <2>1. once' \subseteq active'
      BY <1>1, <1>3, <1>14
    <2>2. \A c \in active' : level'[c] > 0
      BY <1>4, <1>14, AbilityAssumption
    <2> QED
      BY <1>14, <2>1, <2>2 DEF RunTypes
  <1>16. Running'
    BY <1>1, <1>14 DEF Running
  <1> QED
    BY <1>1, <1>4, <1>14, <1>15, <1>16 DEF EquipInv

LEMMA EquipStepInv ==
    ASSUME IndInv, NEW a \in Abilities, NEW s \in Slots, ServerEquipAbility(a, s)
    PROVE  IndInv'
  <1>1. /\ level[a] # 0 /\ CallsOK' /\ SavedOK'
        /\ UNCHANGED <<points, plevel, saved>>
    BY EquipRest
  <1>2. EquipInv'
    <2>1. CASE EquipUnchanged(a, s)
      BY <2>1, EquipUnchangedInv
    <2>2. CASE EquipEmpty(a, s)
      BY <1>1, <2>2, EquipEmptyInv
    <2>3. ASSUME NEW b \in Abilities, EquipDisplacing(a, s, b)
          PROVE  EquipInv'
      BY <1>1, <2>3, EquipDisplacingInv
    <2>4. ASSUME NEW b \in Abilities, EquipRemoving(a, s, b)
          PROVE  EquipInv'
      BY <2>4, EquipRemovingInv
    <2> QED
      BY <2>1, <2>2, <2>3, <2>4 DEF ServerEquipAbility
  <1> QED
    BY <1>1, <1>2 DEF EquipInv, IndInv, Types

(* The saved game is as orderly as the abilities are.                      *)
LEMMA SaveInv ==
    ASSUME IndInv, SaveProgress
    PROVE  IndInv'
  <1> DEFINE game == [level |-> level, status |-> [a \in Abilities |-> StatusOf(a)],
                      slot |-> [a \in Abilities |-> SlotOf(a)], points |-> points,
                      plevel |-> plevel, removed |-> era = "removed"]
  <1>1. saved' = game /\ UNCHANGED <<level, tags, active, once, shown, points, plevel, era, toClient>>
    BY DEF SaveProgress
  <1>2. game \in SavedGames
    <2>1. [a \in Abilities |-> StatusOf(a)] \in [Abilities -> Statuses \cup {NoTag}]
      BY StatusSlotTypes
    <2>2. [a \in Abilities |-> SlotOf(a)] \in [Abilities -> Slots \cup {NoTag}]
      BY StatusSlotTypes
    <2>3. level \in [Abilities -> Nat] /\ points \in Int /\ plevel \in 1..MaxPlayerLevel
      BY DEF IndInv, Types
    <2> QED
      BY <2>1, <2>2, <2>3 DEF SavedGames
  <1>3. \A a \in Abilities : /\ game.level[a] = level[a]
                             /\ game.status[a] = StatusOf(a) /\ game.slot[a] = SlotOf(a)
    OBVIOUS
  <1> HIDE DEF game
  <1>4. ASSUME NEW a \in Abilities
        PROVE  /\ level[a] = 0 => StatusOf(a) = NoTag /\ SlotOf(a) = NoTag
               /\ level[a] > 0 => StatusOf(a) \in Statuses
               /\ SlotOf(a) # NoTag => SlotOf(a) \in tags[a] /\ SlotOf(a) \in Slots
               /\ SlotOf(a) # NoTag => StatusOf(a) = "Equipped"
    <2>1. CASE level[a] = 0
      <3>1. tags[a] = {}
        BY <2>1 DEF IndInv, InOrder
      <3> QED
        BY <2>1, <3>1, Search DEF StatusOf, SlotOf
    <2>2. CASE level[a] # 0
      <3>1. Container(tags[a])
        BY <2>2 DEF IndInv, InOrder
      <3>2. StatusOf(a) \in Statuses /\ tags[a] \cap Statuses = {StatusOf(a)}
        BY <2>2, StatusFound
      <3>3. SlotOf(a) # NoTag => SlotOf(a) \in tags[a] \cap Slots
        BY Search DEF SlotOf
      <3>4. SlotOf(a) # NoTag => "Equipped" \in tags[a]
        BY <3>1, <3>3 DEF Container
      <3>5. SlotOf(a) # NoTag => StatusOf(a) = "Equipped"
        BY <3>2, <3>4 DEF Statuses
      <3> QED
        BY <2>2, <3>2, <3>3, <3>5
    <2> QED
      BY <2>1, <2>2
  <1>5. \A a, b \in Abilities : SlotOf(a) = SlotOf(b) /\ SlotOf(a) # NoTag => a = b
    BY <1>4 DEF IndInv, Exclusive
  <1>6. SavedInOrder'
    BY <1>1, <1>3, <1>4, <1>5 DEF SavedInOrder
  <1>7. SavedOK'
    BY <1>1, <1>2, <1>6 DEF SavedOK
  <1> QED
    BY <1>1, <1>7 DEF IndInv, Types, RunTypes, Running, Slotted, CallsOK, InOrder, Exclusive

(* An orderly saved game is loaded as orderly abilities.                   *)
LEMMA LoadInv ==
    ASSUME IndInv, LoadProgress
    PROVE  IndInv'
  <1> DEFINE running == {a \in Passives : saved.level[a] > 0 /\ saved.status[a] = "Equipped"}
  <1>1. /\ saved # NoSave
        /\ level' = saved.level
        /\ tags' = [a \in Abilities |-> {saved.slot[a], saved.status[a]} \ {NoTag}]
        /\ active' = running /\ once' = running /\ shown' = running
        /\ points' = saved.points /\ plevel' = saved.plevel
        /\ era' \in {"loaded", "removed"}
        /\ toClient' = << >>
        /\ UNCHANGED saved
    BY DEF LoadProgress
  <1>2. saved \in SavedGames
    BY <1>1 DEF IndInv, SavedOK
  <1>3. /\ saved.level \in [Abilities -> Nat]
        /\ saved.status \in [Abilities -> Statuses \cup {NoTag}]
        /\ saved.slot \in [Abilities -> Slots \cup {NoTag}]
        /\ saved.points \in Int /\ saved.plevel \in 1..MaxPlayerLevel
    BY <1>2 DEF SavedGames
  <1>4. \A a \in Abilities :
            /\ saved.level[a] = 0 => saved.status[a] = NoTag /\ saved.slot[a] = NoTag
            /\ saved.level[a] > 0 => saved.status[a] \in Statuses
            /\ saved.slot[a] # NoTag => saved.status[a] = "Equipped"
            /\ \A b \in Abilities :
                   saved.slot[a] = saved.slot[b] /\ saved.slot[a] # NoTag => a = b
    BY <1>1 DEF IndInv, SavedOK, SavedInOrder
  <1>5. Types'
    BY <1>1, <1>3 DEF Types
  <1>6. CallsOK' /\ SavedOK'
    BY <1>1 DEF CallsOK, IndInv, SavedOK, SavedInOrder
  <1>7. ASSUME NEW a \in Abilities
        PROVE  /\ tags'[a] \cap Slots = {saved.slot[a]} \ {NoTag}
               /\ IF saved.level[a] = 0 THEN tags'[a] = {} ELSE Container(tags'[a])
    <2>1. tags'[a] = {saved.slot[a], saved.status[a]} \ {NoTag}
      BY <1>1
    <2>2. saved.slot[a] \in Slots \cup {NoTag} /\ saved.status[a] \in Statuses \cup {NoTag}
      BY <1>3
    <2>3. tags'[a] \cap Slots = {saved.slot[a]} \ {NoTag}
      BY <2>1, <2>2, Kinds
    <2>4. CASE saved.level[a] = 0
      BY <1>4, <2>1, <2>3, <2>4
    <2>5. CASE saved.level[a] # 0
      <3>1. saved.status[a] \in Statuses
        BY <1>3, <1>4, <2>5
      <3>2. tags'[a] \cap Statuses = {saved.status[a]} /\ tags'[a] \in Containers
        BY <2>1, <2>2, <3>1, Kinds DEF Containers
      <3>3. tags'[a] \cap Slots # {} => "Equipped" \in tags'[a]
        BY <1>4, <2>3, <3>2
      <3>4. Container(tags'[a])
        BY <2>3, <3>1, <3>2, <3>3 DEF Container
      <3> QED
        BY <2>3, <2>5, <3>4
    <2> QED
      BY <2>4, <2>5
  <1>8. InOrder(tags', level')
    <2>1. \A a \in Abilities : tags'[a] \in Containers
      BY <1>7 DEF Container, Containers
    <2>2. tags' \in [Abilities -> Containers]
      BY <1>1, <2>1
    <2> QED
      BY <1>1, <1>7, <2>2 DEF InOrder
  <1>9. Exclusive(tags')
    BY <1>4, <1>7 DEF Exclusive
  <1>10. Slotted(tags') \subseteq running
    <2> SUFFICES ASSUME NEW a \in Slotted(tags')
                 PROVE  a \in running
      OBVIOUS
    <2>1. a \in Passives /\ a \in Abilities /\ saved.slot[a] # NoTag
      BY <1>7, AbilityAssumption DEF Slotted
    <2>2. saved.status[a] = "Equipped"
      BY <1>4, <2>1
    <2>3. "Equipped" # NoTag
      BY Kinds DEF Statuses
    <2>4. saved.level[a] # 0
      BY <1>4, <2>1, <2>2, <2>3
    <2> QED
      BY <1>3, <2>1, <2>2, <2>4
  <1>11. RunTypes' /\ Running'
    <2>1. \A a \in running : a \in Abilities /\ saved.level[a] > 0
      BY AbilityAssumption
    <2>2. running \subseteq Passives
      OBVIOUS
    <2> HIDE DEF running
    <2>3. RunTypes'
      BY <1>1, <2>1, <2>2 DEF RunTypes
    <2>4. Running'
      BY <1>1, <1>10 DEF Running
    <2> QED
      BY <2>3, <2>4
  <1> QED
    BY <1>5, <1>6, <1>8, <1>9, <1>11 DEF IndInv

LEMMA ClientReceivesInv ==
    ASSUME IndInv, ClientReceives
    PROVE  IndInv'
  <1>1. /\ toClient # << >> /\ toClient' = Tail(toClient)
        /\ UNCHANGED <<level, tags, active, once, shown, points, plevel, saved, era>>
    BY DEF ClientReceives
  <1>2. CallsOK'
    BY <1>1 DEF IndInv, CallsOK
  <1> QED
    BY <1>1, <1>2
       DEF IndInv, Types, RunTypes, Running, Slotted, SavedOK, SavedInOrder, InOrder, Exclusive

LEMMA StutterInv ==
    ASSUME IndInv, UNCHANGED serverVars
    PROVE  IndInv'
  BY DEF serverVars, IndInv, Types, RunTypes, Running, Slotted, SavedOK, SavedInOrder, CallsOK,
         InOrder, Exclusive

LEMMA StepInv == IndInv /\ [ServerNext]_serverVars => IndInv'
  <1> SUFFICES ASSUME IndInv, [ServerNext]_serverVars
               PROVE  IndInv'
    OBVIOUS
  <1>1. CASE SaveProgress
    BY <1>1, SaveInv
  <1>2. CASE LoadProgress
    BY <1>2, LoadInv
  <1>3. CASE ClientReceives
    BY <1>3, ClientReceivesInv
  <1>4. ASSUME NEW n \in 1..MaxPlayerLevel, LevelUp(n)
        PROVE  IndInv'
    BY <1>4, LevelUpInv
  <1>5. ASSUME NEW a \in Abilities, ServerSpendSpellPoint(a)
        PROVE  IndInv'
    BY <1>5, SpendInv
  <1>6. ASSUME NEW a \in Abilities, IgnoreCall(a)
        PROVE  IndInv'
    BY <1>6, StutterInv DEF IgnoreCall
  <1>7. ASSUME NEW a \in Abilities, NEW s \in Slots, ServerEquipAbility(a, s)
        PROVE  IndInv'
    BY <1>7, EquipStepInv
  <1>8. CASE UNCHANGED serverVars
    BY <1>8, StutterInv
  <1> QED
    BY <1>1, <1>2, <1>3, <1>4, <1>5, <1>6, <1>7, <1>8 DEF ServerNext

LEMMA Invariant == ServerSpec => []IndInv
  BY InitInv, StepInv, PTL DEF ServerSpec

----------------------------------------------------------------------------
(* The containers, runs, saved games and calls keep their types.           *)
THEOREM TypeCorrect == ServerSpec => []TypeOK
  <1>1. IndInv => TypeOK
    BY DEF IndInv, Types, RunTypes, SavedOK, CallsOK, InOrder, Containers, TypeOK
  <1> QED
    BY <1>1, Invariant, PTL

(* However abilities are learnt, equipped, displaced, saved, loaded and    *)
(* removed, each has one status and at most one slot, and a slot at most   *)
(* one ability (ServerEquipAbility, SaveProgress, LoadProgress).           *)
THEOREM SlotsStayExclusive == ServerSpec => []SlotsExclusive
  <1>1. IndInv => SlotsExclusive
    <2> SUFFICES ASSUME IndInv
                 PROVE  SlotsExclusive
      OBVIOUS
    <2>1. \A a \in Given : \E st \in Statuses : tags[a] \cap Statuses = {st}
      BY GivenHaveLevel DEF IndInv, InOrder, Container
    <2>2. \A a \in Abilities : \A s, t \in tags[a] \cap Slots : s = t
      BY DEF IndInv, InOrder, Container
    <2>3. Exclusive(tags)
      BY DEF IndInv
    <2> QED
      BY <2>1, <2>2, <2>3 DEF SlotsExclusive, Exclusive
  <1> QED
    BY <1>1, Invariant, PTL

(* A passive with a slot runs, whatever was displaced, loaded or removed;  *)
(* in a first game exactly those with a slot run and are shown.            *)
THEOREM SlottedPassivesRun == ServerSpec => []PassivesRunInSlots
  <1>1. IndInv => PassivesRunInSlots
    BY DEF IndInv, Running, Slotted, PassivesRunInSlots
  <1> QED
    BY <1>1, Invariant, PTL

----------------------------------------------------------------------------
(* Spell points.                                                           *)

\* An ability that waits for its first point has level 1 and is not one of
\* those the player starts with, which always have a spec.
LearntAtOne(L, T) ==
    /\ \A a \in Abilities : L[a] # 0 /\ "Eligible" \in T[a] => L[a] = 1 /\ a \notin Startup
    /\ \A a \in Startup : L[a] # 0

\* Points left at a level, for abilities of levels L in containers T.
Balanced(L, T, left, reached) ==
    /\ left + SumFunctionOnSet(Cost(L, T), Abilities) = Awarded[reached] - Awarded[1]
    /\ LearntAtOne(L, T)

SavedTags == [a \in Abilities |-> {saved.slot[a], saved.status[a]} \ {NoTag}]

BalanceInv ==
    /\ era # "removed" => Balanced(level, tags, points, plevel)
    /\ saved # NoSave /\ ~ saved.removed => Balanced(saved.level, SavedTags, saved.points, saved.plevel)

(* What the cost of an ability is depends on its level and on whether it   *)
(* is Eligible.                                                            *)
LEMMA CostIsInt ==
    ASSUME NEW L, L \in [Abilities -> Nat], NEW T
    PROVE  \A a \in Abilities : Cost(L, T)[a] \in Int
  BY DEF Cost

LEMMA BalanceKept ==
    ASSUME NEW L, L \in [Abilities -> Nat], NEW T, NEW U, NEW left, NEW reached, Balanced(L, T, left, reached),
           \A a \in Abilities : L[a] # 0 => ("Eligible" \in U[a] <=> "Eligible" \in T[a])
    PROVE  Balanced(L, U, left, reached)
  <1>1. Cost(L, U) = Cost(L, T)
    BY DEF Cost
  <1>2. LearntAtOne(L, U)
    BY DEF Balanced, LearntAtOne
  <1> QED
    BY <1>1, <1>2 DEF Balanced

(* The abilities learnt wait for a point and have cost none.               *)
LEMMA LevelUpBalance ==
    ASSUME IndInv, BalanceInv, NEW n \in 1..MaxPlayerLevel, LevelUp(n)
    PROVE  BalanceInv'
  <1> DEFINE new == {a \in Abilities \ Given : Requirement[a] <= plevel + n}
  <1>1. /\ plevel + n <= MaxPlayerLevel /\ plevel' = plevel + n
        /\ level' = [a \in Abilities |-> IF a \in new THEN 1 ELSE level[a]]
        /\ tags' = [a \in Abilities |-> IF a \in new THEN {"Eligible"} ELSE tags[a]]
        /\ points' = points + Awarded[plevel + n] - Awarded[plevel]
        /\ UNCHANGED <<saved, era>>
    BY DEF LevelUp
  <1>2. \A a \in new : level[a] = 0
    BY GivenHaveLevel
  <1> HIDE DEF new
  <1>3. ASSUME Balanced(level, tags, points, plevel)
        PROVE  Balanced(level, tags, points, plevel)'
    <2>1. \A a \in Startup : a \in Abilities /\ a \notin new /\ level[a] # 0
      BY <1>2, <1>3, AbilityAssumption DEF Balanced, LearntAtOne
    <2>2. LearntAtOne(level', tags')
      BY <1>1, <1>3, <2>1 DEF Balanced, LearntAtOne
    <2>3. Cost(level', tags') = Cost(level, tags)
      BY <1>1, <1>2 DEF Cost
    <2>4. /\ Awarded[plevel + n] \in Int /\ Awarded[plevel] \in Int /\ Awarded[1] \in Int /\ points \in Int
          /\ SumFunctionOnSet(Cost(level, tags), Abilities) \in Int
      <3>1. plevel \in 1..MaxPlayerLevel /\ points \in Int /\ level \in [Abilities -> Nat]
        BY DEF IndInv, Types
      <3>2. MaxPlayerLevel \in Nat \ {0} /\ Awarded \in [1..MaxPlayerLevel -> Nat] /\ IsFiniteSet(Abilities)
        BY AbilityAssumption
      <3>3. plevel + n \in 1..MaxPlayerLevel /\ 1 \in 1..MaxPlayerLevel
        BY <1>1, <3>1, <3>2
      <3>4. SumFunctionOnSet(Cost(level, tags), Abilities) \in Int
        BY <3>1, <3>2, CostIsInt, SumIsInt
      <3> QED
        BY <3>1, <3>2, <3>3, <3>4
    <2>5. points + SumFunctionOnSet(Cost(level, tags), Abilities) = Awarded[plevel] - Awarded[1]
      BY <1>3 DEF Balanced
    <2>6. points' + SumFunctionOnSet(Cost(level', tags'), Abilities) = Awarded[plevel'] - Awarded[1]
      BY <1>1, <2>3, <2>4, <2>5
    <2> QED
      BY <2>2, <2>6 DEF Balanced
  <1>4. SavedTags' = SavedTags
    BY <1>1 DEF SavedTags
  <1> QED
    BY <1>1, <1>3, <1>4 DEF BalanceInv

(* A point makes an ability cost one more: it unlocks it or raises it.     *)
LEMMA SpendBalance ==
    ASSUME IndInv, BalanceInv, NEW a \in Abilities, ServerSpendSpellPoint(a)
    PROVE  BalanceInv'
  <1>1. points' = points - 1 /\ UNCHANGED <<plevel, saved, era>>
    BY DEF ServerSpendSpellPoint
  <1>2. level[a] # 0 /\ StatusOf(a) \in Statuses /\ tags[a] \cap Statuses = {StatusOf(a)}
    BY GivenHaveLevel, StatusFound DEF ServerSpendSpellPoint
  <1>3. /\ level \in [Abilities -> Nat] /\ tags \in [Abilities -> Containers] /\ points \in Int
        /\ level' \in [Abilities -> Nat]
    BY SpendInv DEF IndInv, Types, InOrder
  <1>4. "Eligible" \in tags[a] <=> StatusOf(a) = "Eligible"
    BY <1>2 DEF Statuses
  <1>5. ASSUME LearntAtOne(level, tags)
        PROVE  /\ LearntAtOne(level', tags')
               /\ Cost(level', tags')[a] = Cost(level, tags)[a] + 1
               /\ \A b \in Abilities \ {a} : Cost(level', tags')[b] = Cost(level, tags)[b]
    <2>1. CASE StatusOf(a) = "Eligible"
      <3>1. level' = level /\ tags' = [tags EXCEPT ![a] = (tags[a] \ {"Eligible"}) \cup {"Unlocked"}]
        BY <1>3, <2>1 DEF ServerSpendSpellPoint
      <3>2. "Eligible" \notin tags'[a] /\ \A b \in Abilities \ {a} : tags'[b] = tags[b]
        BY <1>3, <3>1
      <3>3. level[a] = 1 /\ a \notin Startup
        BY <1>2, <1>4, <1>5, <2>1 DEF LearntAtOne
      <3>4. LearntAtOne(level', tags')
        BY <1>5, <3>1, <3>2 DEF LearntAtOne
      <3>5. Cost(level, tags)[a] = 0 /\ Cost(level', tags')[a] = 1
        BY <1>4, <2>1, <3>1, <3>2, <3>3 DEF Cost
      <3>6. \A b \in Abilities \ {a} : Cost(level', tags')[b] = Cost(level, tags)[b]
        BY <3>1, <3>2 DEF Cost
      <3> QED
        BY <3>4, <3>5, <3>6
    <2>2. CASE StatusOf(a) # "Eligible"
      <3>1. Equippable(a)
        BY <1>2, <2>2 DEF Statuses, Equippable
      <3>2. tags' = tags /\ level' = [level EXCEPT ![a] = level[a] + 1]
        BY <1>3, <2>2, <3>1 DEF ServerSpendSpellPoint
      <3>3. level[a] \in Nat /\ level'[a] = level[a] + 1 /\ \A b \in Abilities \ {a} : level'[b] = level[b]
        BY <1>3, <3>2
      <3>4. "Eligible" \notin tags[a]
        BY <1>4, <2>2
      <3>5. level'[a] # 0
        BY <3>3
      <3>6. LearntAtOne(level', tags')
        BY <1>5, <3>2, <3>3, <3>4, <3>5, AbilityAssumption DEF LearntAtOne
      <3>7. /\ Cost(level, tags)[a] = IF a \in Startup THEN level[a] - 1 ELSE level[a]
            /\ Cost(level', tags')[a] = IF a \in Startup THEN level'[a] - 1 ELSE level'[a]
        BY <1>2, <3>2, <3>4, <3>5 DEF Cost
      <3>8. Cost(level', tags')[a] = Cost(level, tags)[a] + 1
        BY <3>3, <3>7
      <3>9. \A b \in Abilities \ {a} : Cost(level', tags')[b] = Cost(level, tags)[b]
        BY <3>2, <3>3 DEF Cost
      <3> QED
        BY <3>6, <3>8, <3>9
    <2> QED
      BY <2>1, <2>2
  <1>6. ASSUME Balanced(level, tags, points, plevel)
        PROVE  Balanced(level', tags', points', plevel')
    <2> DEFINE before == Cost(level, tags)
               after  == Cost(level', tags')
    <2>1. LearntAtOne(level', tags') /\ after[a] = before[a] + 1 /\ \A b \in Abilities \ {a} : before[b] = after[b]
      BY <1>5, <1>6 DEF Balanced
    <2>2. (\A b \in Abilities : before[b] \in Int /\ after[b] \in Int) /\ IsFiniteSet(Abilities)
      BY <1>3, CostIsInt, AbilityAssumption
    <2>3. points + SumFunctionOnSet(before, Abilities) = Awarded[plevel] - Awarded[1]
      BY <1>6 DEF Balanced
    <2> HIDE DEF before, after
    <2>4. SumFunctionOnSet(after, Abilities) = (SumFunctionOnSet(before, Abilities) - before[a]) + after[a]
      BY <2>1, <2>2, SumChanged
    <2>5. SumFunctionOnSet(before, Abilities) \in Int /\ before[a] \in Int
      BY <2>2, SumIsInt
    <2>6. points' + SumFunctionOnSet(after, Abilities) = points + SumFunctionOnSet(before, Abilities)
      BY <1>1, <1>3, <2>1, <2>4, <2>5
    <2> QED
      BY <1>1, <2>1, <2>3, <2>6 DEF Balanced, after
  <1>7. SavedTags' = SavedTags
    BY <1>1 DEF SavedTags
  <1> QED
    BY <1>1, <1>6, <1>7 DEF BalanceInv

(* Who is equipped was unlocked before, and nobody else gains or loses the *)
(* status: as long as no spec is removed, equipping costs nothing.         *)
LEMMA AssignKeepsEligible ==
    ASSUME NEW T, InOrder(T, level), Exclusive(T), NEW a \in Abilities, NEW s \in Slots,
           level[a] # 0, "Eligible" \notin T[a], \A b \in Abilities \ {a} : s \notin T[b],
           NEW runs, NEW effects, AssignTo(a, a, s, T, runs, effects)
    PROVE  \A c \in Abilities : "Eligible" \in tags'[c] <=> "Eligible" \in T[c]
  <1>1. /\ InOrder(tags', level) /\ tags'[a] \cap Slots = {s}
        /\ \A b \in Abilities \ {a} : tags'[b] = T[b]
    BY AssignKeepsOrder
  <1>2. Container(tags'[a])
    BY <1>1 DEF InOrder
  <1>3. "Equipped" \in tags'[a]
    BY <1>1, <1>2 DEF Container
  <1>4. "Eligible" \notin tags'[a]
    BY <1>2, <1>3 DEF Container, Statuses
  <1> QED
    BY <1>1, <1>4

LEMMA EquipBalance ==
    ASSUME IndInv, BalanceInv, NEW a \in Abilities, NEW s \in Slots, ServerEquipAbility(a, s)
    PROVE  BalanceInv'
  <1>1. level[a] # 0 /\ UNCHANGED <<points, plevel, saved>>
    BY EquipRest
  <1>2. InOrder(tags, level) /\ Exclusive(tags) /\ level \in [Abilities -> Nat] /\ tags \in [Abilities -> Containers]
    BY DEF IndInv, InOrder, Types
  <1>3. Equippable(a) => "Eligible" \notin tags[a]
    BY <1>1, StatusFound DEF Equippable, Statuses
  <1>4. CASE EquipUnchanged(a, s)
    BY <1>1, <1>4 DEF EquipUnchanged, BalanceInv, Balanced, LearntAtOne, Cost, SavedTags
  <1>5. ASSUME level' = level, era' = era, \A c \in Abilities : "Eligible" \in tags'[c] <=> "Eligible" \in tags[c]
        PROVE  BalanceInv'
    <2>1. Balanced(level, tags, points, plevel) => Balanced(level, tags', points, plevel)
      BY <1>2, <1>5, BalanceKept
    <2>2. Balanced(level, tags, points, plevel) => Balanced(level, tags, points, plevel)'
      BY <1>1, <1>5, <2>1
    <2>3. SavedTags' = SavedTags
      BY <1>1 DEF SavedTags
    <2> QED
      BY <1>1, <1>5, <2>2, <2>3 DEF BalanceInv
  <1>6. CASE EquipEmpty(a, s)
    <2>1. \A b \in Abilities : s \notin tags[b]
      <3>1. \A b \in Abilities : level[b] # 0 => s \notin tags[b]
        BY <1>6, GivenHaveLevel DEF EquipEmpty, Holders
      <3>2. \A b \in Abilities : level[b] = 0 => tags[b] = {}
        BY <1>2 DEF InOrder
      <3> QED
        BY <3>1, <3>2
    <2>2. \A c \in Abilities : "Eligible" \in tags'[c] <=> "Eligible" \in tags[c]
      BY <1>1, <1>2, <1>3, <1>6, <2>1, AssignKeepsEligible DEF EquipEmpty
    <2> QED
      BY <1>5, <1>6, <2>2 DEF EquipEmpty
  <1>7. ASSUME NEW b \in Abilities, EquipDisplacing(a, s, b)
        PROVE  BalanceInv'
    <2> DEFINE T == [tags EXCEPT ![b] = Cleared(@)]
               runs == active \ {b}
               effects == Effect(shown, b, FALSE)
    <2>1. /\ b \in Holders(s) /\ b # a /\ Equippable(a)
          /\ AssignTo(a, a, s, T, runs, effects)
          /\ UNCHANGED <<level, era>>
      BY <1>7 DEF EquipDisplacing
    <2>2. InOrder(T, level) /\ Exclusive(T)
      BY <1>2, ClearedContainers
    <2>3. T[b] = Cleared(tags[b]) /\ \A c \in Abilities \ {b} : T[c] = tags[c]
      BY <1>2
    <2> HIDE DEF T, runs, effects
    <2>4. \A c \in Abilities \ {a} : s \notin T[c]
      <3>1. s \in tags[b] /\ \A c \in Abilities \ {b} : s \notin tags[c]
        BY <1>2, <2>1 DEF Holders, Exclusive
      <3>2. tags[b] \in Containers /\ \A u, t \in tags[b] \cap Slots : u = t
        BY <1>2, <2>1, GivenHaveLevel DEF InOrder, Container, Holders
      <3>3. s \notin T[b]
        BY <2>3, <3>2, ClearedFacts
      <3> QED
        BY <2>3, <3>1, <3>3
    <2>5. "Eligible" \in T[b] <=> "Eligible" \in tags[b]
      <3>1. tags[b] \in Containers /\ \A u, t \in tags[b] \cap Slots : u = t
        BY <1>2, <2>1, GivenHaveLevel DEF InOrder, Container, Holders
      <3>2. Cleared(tags[b]) \cap Statuses = tags[b] \cap Statuses
        BY <3>1, ClearedFacts
      <3> QED
        BY <2>3, <3>2 DEF Statuses
    <2>6. "Eligible" \notin T[a]
      BY <1>3, <2>1, <2>3
    <2>7. \A c \in Abilities : "Eligible" \in tags'[c] <=> "Eligible" \in T[c]
      BY <1>1, <2>1, <2>2, <2>4, <2>6, AssignKeepsEligible
    <2> QED
      BY <1>5, <2>1, <2>3, <2>5, <2>7
  <1>8. ASSUME NEW b \in Abilities, EquipRemoving(a, s, b)
        PROVE  BalanceInv'
    <2>1. era' = "removed"
      BY <1>8 DEF EquipRemoving
    <2>2. SavedTags' = SavedTags
      BY <1>1 DEF SavedTags
    <2> QED
      BY <1>1, <2>1, <2>2 DEF BalanceInv
  <1> QED
    BY <1>4, <1>6, <1>7, <1>8 DEF ServerEquipAbility

(* The saved status of an ability is Eligible if it is.                    *)
LEMMA SaveBalance ==
    ASSUME IndInv, BalanceInv, SaveProgress
    PROVE  BalanceInv'
  <1>1. /\ saved'.level = level /\ saved'.points = points /\ saved'.plevel = plevel
        /\ saved'.removed = (era = "removed")
        /\ saved'.status = [a \in Abilities |-> StatusOf(a)] /\ saved'.slot = [a \in Abilities |-> SlotOf(a)]
        /\ UNCHANGED <<level, tags, points, plevel, era>>
    BY DEF SaveProgress
  <1>2. level \in [Abilities -> Nat]
    BY DEF IndInv, Types
  <1>3. ASSUME NEW a \in Abilities, level[a] # 0
        PROVE  "Eligible" \in SavedTags'[a] <=> "Eligible" \in tags[a]
    <2>1. StatusOf(a) \in Statuses /\ tags[a] \cap Statuses = {StatusOf(a)}
      BY <1>3, StatusFound
    <2>2. SavedTags'[a] = {SlotOf(a), StatusOf(a)} \ {NoTag}
      BY <1>1 DEF SavedTags
    <2>3. SlotOf(a) \in Slots \cup {NoTag}
      BY StatusSlotTypes
    <2>4. "Eligible" \in Statuses /\ "Eligible" \notin Slots /\ "Eligible" # NoTag
      BY Kinds DEF Statuses
    <2> QED
      BY <2>1, <2>2, <2>3, <2>4
  <1>4. Balanced(level, tags, points, plevel) => Balanced(level, SavedTags', points, plevel)
    BY <1>2, <1>3, BalanceKept
  <1> QED
    BY <1>1, <1>4 DEF BalanceInv

LEMMA LoadBalance ==
    ASSUME IndInv, BalanceInv, LoadProgress
    PROVE  BalanceInv'
  <1>1. /\ saved # NoSave
        /\ level' = saved.level /\ tags' = SavedTags
        /\ points' = saved.points /\ plevel' = saved.plevel
        /\ era' = (IF saved.removed THEN "removed" ELSE "loaded")
        /\ saved' = saved
    BY DEF LoadProgress, SavedTags
  <1>2. SavedTags' = SavedTags
    BY <1>1 DEF SavedTags
  <1>3. saved.removed \in BOOLEAN
    BY <1>1 DEF IndInv, SavedOK, SavedGames
  <1> QED
    BY <1>1, <1>2, <1>3 DEF BalanceInv

LEMMA InitBalance == ServerInit => BalanceInv
  <1> SUFFICES ASSUME ServerInit
               PROVE  BalanceInv
    OBVIOUS
  <1>1. /\ level = [a \in Abilities |-> IF a \in Startup THEN 1 ELSE 0]
        /\ tags = [a \in Abilities |-> IF a \in Startup THEN {StartSlot[a], "Equipped"} ELSE {}]
        /\ points = 0 /\ plevel = 1 /\ saved = NoSave
    BY DEF ServerInit
  <1>2. Startup \subseteq Abilities /\ IsFiniteSet(Abilities) /\ Awarded \in [1..MaxPlayerLevel -> Nat]
        /\ 1 \in 1..MaxPlayerLevel
    BY AbilityAssumption
  <1>3. \A a \in Startup : "Eligible" \notin tags[a]
    BY <1>1, <1>2, AbilityAssumption, Kinds DEF Statuses
  <1>4. LearntAtOne(level, tags)
    BY <1>1, <1>2, <1>3 DEF LearntAtOne
  <1> DEFINE cost == Cost(level, tags)
  <1>5. \A a \in Abilities : cost[a] = 0
    BY <1>1 DEF Cost
  <1> HIDE DEF cost
  <1>6. SumFunctionOnSet(cost, Abilities) = 0
    BY <1>2, <1>5, SumZero
  <1> QED
    BY <1>1, <1>2, <1>4, <1>6 DEF BalanceInv, Balanced, cost

LEMMA PointsStep == IndInv /\ BalanceInv /\ [ServerNext]_serverVars => BalanceInv'
  <1> SUFFICES ASSUME IndInv, BalanceInv, [ServerNext]_serverVars
               PROVE  BalanceInv'
    OBVIOUS
  <1>1. ASSUME UNCHANGED <<level, tags, points, plevel, saved, era>>
        PROVE  BalanceInv'
    BY <1>1 DEF BalanceInv, Balanced, LearntAtOne, Cost, SavedTags
  <1>2. CASE ClientReceives
    BY <1>1, <1>2 DEF ClientReceives
  <1>3. ASSUME NEW a \in Abilities, IgnoreCall(a)
        PROVE  BalanceInv'
    BY <1>1, <1>3 DEF IgnoreCall, serverVars
  <1>4. CASE UNCHANGED serverVars
    BY <1>1, <1>4 DEF serverVars
  <1> QED
    BY <1>2, <1>3, <1>4, SaveBalance, LoadBalance, LevelUpBalance, SpendBalance, EquipBalance DEF ServerNext

(* Spell points are neither lost nor made: in every game, also a loaded    *)
(* one, what is left and what the abilities have cost is what the levels   *)
(* awarded (ServerSpendSpellPoint, HandleIncomingXP, SaveProgress,         *)
(* LoadProgress), until a spec was removed under a pointer.                *)
THEOREM PointsStayConserved == ServerSpec => []PointsConserved
  <1>1. BalanceInv => PointsConserved
    BY DEF BalanceInv, Balanced, PointsConserved
  <1> QED
    BY <1>1, InitInv, StepInv, InitBalance, PointsStep, PTL DEF ServerSpec

(***************************************************************************)
(* The spell menu.                                                         *)
(***************************************************************************)

Usable == {"Equipped", "Unlocked"}
Ready  == {a \in Abilities : Equippable(a)}

\* What the server says, and what the menu asks.
Sayable ==
    {m \in ClientCalls : m.call = "ClientUpdateAbilityStatus" =>
         m.status \in Statuses /\ (m.status \in Usable => m.ability \in Ready)}

Askable ==
    {m \in ServerCalls : m.call = "ServerEquipAbility" =>
         m.ability \in Ready /\ (m.ability \in Passives <=> m.slot \in PassiveSlots)}

Known ==
    /\ \A a \in Abilities : view[a] = {} \/ Container(view[a])
    /\ \A a \in Abilities : view[a] \cap Usable # {} => a \in Ready
    /\ status # "Locked" => ability \in Abilities
    /\ status \in Usable => ability \in Ready
    /\ spendOn => status \in Statuses
    /\ equipOn => status \in Usable
    /\ waiting => ability \in Ready

MenuInv ==
    /\ IndInv /\ era = "first"
    /\ MenuTypeOK /\ Known /\ TypesMatch
    /\ toClient \in Seq(Sayable) /\ toServer \in Seq(Askable)

----------------------------------------------------------------------------
(* A step of the menu's world is a step of the server's abilities.         *)
LEMMA ServerStep ==
    ASSUME toServer \in Seq(ServerCalls), [Next]_vars
    PROVE  [ServerNext]_serverVars
  <1>1. CASE Client
    BY <1>1 DEF Client, SpellGlobeSelected, GlobeDeselect, SpendPointButtonPressed,
                EquipButtonPressed, SpellRowGlobePressed, CallServer
  <1>2. CASE ReceiveClientCall
    BY <1>2 DEF ReceiveClientCall, ServerNext
  <1>3. CASE ReplicateSpecs \/ OnSpellPointsChanged
    BY <1>3 DEF ReplicateSpecs, OnSpellPointsChanged
  <1>4. CASE ReceiveServerCall
    <2>1. Head(toServer) \in ServerCalls
      BY <1>4 DEF ReceiveServerCall
    <2>2. /\ Head(toServer).ability \in Abilities
          /\ Head(toServer).call = "ServerEquipAbility" => Head(toServer).slot \in Slots
      BY <2>1 DEF ServerCalls
    <2> QED
      BY <1>4, <2>2 DEF ReceiveServerCall, ServerNext
  <1>5. ASSUME NEW n \in 1..MaxPlayerLevel, GainLevels(n)
        PROVE  ServerNext
    BY <1>5 DEF GainLevels, ServerNext
  <1>6. CASE UNCHANGED vars
    BY <1>6 DEF vars, serverVars
  <1> QED
    BY <1>1, <1>2, <1>3, <1>4, <1>5, <1>6 DEF Next

----------------------------------------------------------------------------
(* What an equip call does to the containers in a first game.              *)
LEMMA EquipTags ==
    ASSUME IndInv, era = "first", NEW a \in Abilities, NEW s \in Slots,
           ServerEquipAbility(a, s)
    PROVE  /\ era' = "first"
           /\ \A c \in Abilities \ {a} : /\ tags'[c] \cap Statuses = tags[c] \cap Statuses
                                        /\ tags'[c] \cap Slots \subseteq tags[c]
           /\ \/ tags'[a] = tags[a]
              \/ "Equipped" \in tags'[a] /\ tags'[a] \cap Slots = {s}
           /\ Equippable(a) =>
                  /\ tags'[a] \cap Slots = {s}
                  /\ \A c \in Abilities \ {a} : tags'[c] \cap Slots = (tags[c] \cap Slots) \ {s}
  <1>1. level[a] # 0 /\ once = {}
    BY EquipRest DEF IndInv, Running
  <1>2. InOrder(tags, level) /\ Exclusive(tags)
    BY DEF IndInv
  <1>3. CASE EquipUnchanged(a, s)
    <2>1. tags' = tags /\ era' = era /\ (Equippable(a) => a \in Holders(s))
      BY <1>3 DEF EquipUnchanged
    <2>2. Container(tags[a])
      BY <1>1, <1>2 DEF InOrder
    <2>3. ASSUME Equippable(a)
          PROVE  /\ tags[a] \cap Slots = {s}
                 /\ \A c \in Abilities \ {a} : s \notin tags[c]
      <3>1. s \in tags[a]
        BY <2>1, <2>3 DEF Holders
      <3> QED
        BY <1>2, <2>2, <3>1 DEF Container, Exclusive
    <2> QED
      BY <2>1, <2>3
  <1>4. ASSUME NEW T, NEW runs, NEW effects, InOrder(T, level), Exclusive(T),
               \A c \in Abilities \ {a} : s \notin T[c],
               AssignTo(a, a, s, T, runs, effects)
        PROVE  /\ \A c \in Abilities \ {a} : tags'[c] = T[c]
               /\ "Equipped" \in tags'[a] /\ tags'[a] \cap Slots = {s}
    <2>1. /\ InOrder(tags', level) /\ tags'[a] \cap Slots = {s}
          /\ \A c \in Abilities \ {a} : tags'[c] = T[c]
      BY <1>1, <1>4, AssignKeepsOrder
    <2>2. Container(tags'[a])
      BY <1>1, <2>1 DEF InOrder
    <2> QED
      BY <2>1, <2>2 DEF Container
  <1>5. CASE EquipEmpty(a, s)
    <2>1. /\ Holders(s) = {} /\ era' = era
          /\ AssignTo(a, a, s, tags, active, shown)
      BY <1>5 DEF EquipEmpty
    <2>2. \A c \in Abilities : level[c] # 0 => s \notin tags[c]
      BY <2>1, GivenHaveLevel DEF Holders
    <2>3. \A c \in Abilities \ {a} : s \notin tags[c]
      BY <1>2, <2>2 DEF InOrder
    <2>4. /\ \A c \in Abilities \ {a} : tags'[c] = tags[c]
          /\ "Equipped" \in tags'[a] /\ tags'[a] \cap Slots = {s}
      BY <1>2, <1>4, <2>1, <2>3
    <2> QED
      BY <2>1, <2>3, <2>4
  <1>6. ASSUME NEW b \in Abilities, EquipDisplacing(a, s, b)
        PROVE  /\ era' = era
               /\ \A c \in Abilities \ {a} : /\ tags'[c] \cap Statuses = tags[c] \cap Statuses
                                            /\ tags'[c] \cap Slots \subseteq tags[c]
               /\ \A c \in Abilities \ {a} : tags'[c] \cap Slots = (tags[c] \cap Slots) \ {s}
               /\ "Equipped" \in tags'[a] /\ tags'[a] \cap Slots = {s}
    <2> DEFINE T == [tags EXCEPT ![b] = Cleared(@)]
    <2>1. /\ b \in Holders(s) /\ b # a /\ era' = era
          /\ AssignTo(a, a, s, T, active \ {b}, Effect(shown, b, FALSE))
      BY <1>6 DEF EquipDisplacing
    <2>2. InOrder(T, level) /\ Exclusive(T)
      BY <1>2, ClearedContainers
    <2>3. tags \in [Abilities -> Containers] /\ Container(tags[b]) /\ s \in tags[b]
      BY <1>2, <2>1, GivenHaveLevel DEF InOrder, Holders
    <2>4. /\ Cleared(tags[b]) \cap Slots = {}
          /\ Cleared(tags[b]) \cap Statuses = tags[b] \cap Statuses
      BY <2>3, ClearedFacts DEF Container
    <2>5. /\ T[b] \cap Slots = {} /\ T[b] \cap Statuses = tags[b] \cap Statuses
          /\ \A c \in Abilities \ {b} : T[c] = tags[c]
      BY <2>3, <2>4
    <2>6. \A c \in Abilities \ {b} : s \notin tags[c]
      BY <1>2, <2>3 DEF Exclusive
    <2> HIDE DEF T
    <2>7. \A c \in Abilities \ {a} : s \notin T[c]
      BY <2>5, <2>6
    <2>8. /\ \A c \in Abilities \ {a} : tags'[c] = T[c]
          /\ "Equipped" \in tags'[a] /\ tags'[a] \cap Slots = {s}
      BY <1>4, <2>1, <2>2, <2>7
    <2>9. T[b] \cap Slots = (tags[b] \cap Slots) \ {s}
      BY <2>3, <2>5 DEF Container
    <2>10. \A c \in Abilities \ {a} : tags'[c] \cap Slots = (tags[c] \cap Slots) \ {s}
      BY <2>5, <2>6, <2>8, <2>9
    <2> QED
      BY <2>1, <2>5, <2>8, <2>10
  <1>7. ASSUME NEW b \in Abilities
        PROVE  ~EquipRemoving(a, s, b)
    BY <1>1 DEF EquipRemoving
  <1> QED
    BY <1>3, <1>5, <1>6, <1>7 DEF ServerEquipAbility

(* What can be equipped is what has a usable status in its container.      *)
LEMMA ReadyTags == IndInv => Ready = {a \in Abilities : tags[a] \cap Usable # {}}
  <1> SUFFICES ASSUME IndInv
               PROVE  \A a \in Abilities : Equippable(a) <=> tags[a] \cap Usable # {}
    BY DEF Ready
  <1> TAKE a \in Abilities
  <1>1. Usable \subseteq Statuses
    BY DEF Usable, Statuses
  <1>2. CASE level[a] = 0
    <2>1. tags[a] = {}
      BY <1>2 DEF IndInv, InOrder
    <2>2. StatusOf(a) = NoTag
      BY <2>1, Search DEF StatusOf
    <2>3. NoTag \notin Usable
      BY <1>1, Kinds
    <2> QED
      BY <2>1, <2>2, <2>3 DEF Equippable, Usable
  <1>3. CASE level[a] # 0
    <2>1. StatusOf(a) \in Statuses /\ tags[a] \cap Statuses = {StatusOf(a)}
      BY <1>3, StatusFound
    <2>2. tags[a] \cap Usable # {} <=> StatusOf(a) \in Usable
      BY <1>1, <2>1
    <2> QED
      BY <2>2 DEF Equippable, Usable
  <1> QED
    BY <1>2, <1>3
LEMMA ReadyTagsNext == (IndInv => Ready = {a \in Abilities : tags[a] \cap Usable # {}})'
  BY ReadyTags, PTL

----------------------------------------------------------------------------
(* What can be equipped stays so in a first game, whatever the server does.*)
ServerActs ==
    \/ \E n \in 1..MaxPlayerLevel : LevelUp(n)
    \/ \E a \in Abilities : ServerSpendSpellPoint(a)
    \/ \E a \in Abilities, s \in Slots : ServerEquipAbility(a, s)

LEMMA ReadyStays ==
    ASSUME IndInv, IndInv', era = "first", ServerActs
    PROVE  era' = "first" /\ Ready \subseteq Ready'
  <1>1. Ready = {a \in Abilities : tags[a] \cap Usable # {}}
    BY ReadyTags
  <1>2. Ready' = {a \in Abilities : tags'[a] \cap Usable # {}}
    BY ReadyTagsNext
  <1>3. tags \in [Abilities -> Containers]
    BY DEF IndInv, InOrder
  <1>4. ASSUME NEW n \in 1..MaxPlayerLevel, LevelUp(n)
        PROVE  /\ era' = era
               /\ \A c \in Abilities : tags[c] \cap Usable \subseteq tags'[c]
    <2>1. \A c \in Abilities \ Given : tags[c] = {}
      BY GivenHaveLevel DEF IndInv, InOrder
    <2> QED
      BY <1>4, <2>1 DEF LevelUp
  <1>5. ASSUME NEW a \in Abilities, ServerSpendSpellPoint(a)
        PROVE  /\ era' = era
               /\ \A c \in Abilities : tags[c] \cap Usable \subseteq tags'[c]
    <2>1. "Eligible" \notin Usable
      BY DEF Usable
    <2> QED
      BY <1>3, <1>5, <2>1 DEF ServerSpendSpellPoint
  <1>6. ASSUME NEW a \in Abilities, NEW s \in Slots, ServerEquipAbility(a, s)
        PROVE  /\ era' = "first"
               /\ \A c \in Abilities : tags[c] \cap Usable # {} => tags'[c] \cap Usable # {}
    <2>1. /\ era' = "first"
          /\ \A c \in Abilities \ {a} : tags'[c] \cap Statuses = tags[c] \cap Statuses
          /\ tags'[a] = tags[a] \/ "Equipped" \in tags'[a]
      BY <1>6, EquipTags
    <2>2. Usable \subseteq Statuses /\ "Equipped" \in Usable
      BY DEF Usable, Statuses
    <2>3. \A c \in Abilities \ {a} : tags'[c] \cap Usable = tags[c] \cap Usable
      BY <2>1, <2>2
    <2> QED
      BY <2>1, <2>2, <2>3
  <1>7. CASE \E n \in 1..MaxPlayerLevel : LevelUp(n)
    BY <1>1, <1>2, <1>4, <1>7
  <1>8. CASE \E a \in Abilities : ServerSpendSpellPoint(a)
    BY <1>1, <1>2, <1>5, <1>8
  <1>9. CASE \E a \in Abilities, s \in Slots : ServerEquipAbility(a, s)
    BY <1>1, <1>2, <1>6, <1>9
  <1> QED
    BY <1>7, <1>8, <1>9 DEF ServerActs

(* Levels and points do not move abilities between slots.                  *)
LEMMA SlotsKept ==
    ASSUME IndInv,
           \/ \E n \in 1..MaxPlayerLevel : LevelUp(n)
           \/ \E a \in Abilities : ServerSpendSpellPoint(a)
    PROVE  \A a \in Abilities : tags'[a] \cap Slots = tags[a] \cap Slots
  <1>1. tags \in [Abilities -> Containers]
    BY DEF IndInv, InOrder
  <1>2. "Eligible" \notin Slots /\ "Unlocked" \notin Slots
    BY Kinds DEF Statuses
  <1>3. ASSUME NEW n \in 1..MaxPlayerLevel, LevelUp(n), NEW a \in Abilities
        PROVE  tags'[a] \cap Slots = tags[a] \cap Slots
    <2>1. a \notin Given => tags[a] = {}
      <3>1. a \notin Given => level[a] = 0
        BY GivenHaveLevel
      <3> QED
        BY <3>1 DEF IndInv, InOrder
    <2>2. tags'[a] = tags[a] \/ (a \notin Given /\ tags'[a] = {"Eligible"})
      BY <1>3 DEF LevelUp
    <2> QED
      BY <1>2, <2>1, <2>2
  <1>4. ASSUME NEW b \in Abilities, ServerSpendSpellPoint(b), NEW a \in Abilities
        PROVE  tags'[a] \cap Slots = tags[a] \cap Slots
    BY <1>1, <1>2, <1>4 DEF ServerSpendSpellPoint
  <1> QED
    BY <1>3, <1>4

(* What the server says is true of it.                                     *)
LEMMA SayableStays ==
    ASSUME toClient \in Seq(Sayable), Ready \subseteq Ready'
    PROVE  toClient \in Seq(Sayable')
  <1>1. Sayable \subseteq Sayable'
    BY DEF Sayable
  <1> QED
    BY <1>1

LEMMA AskableStays ==
    ASSUME toServer \in Seq(Askable), Ready \subseteq Ready'
    PROVE  toServer \in Seq(Askable')
  <1>1. Askable \subseteq Askable'
    BY DEF Askable
  <1> QED
    BY <1>1

LEMMA TrulySaid ==
    ASSUME IndInv, IndInv', era = "first", ServerActs, toClient \in Seq(Sayable)
    PROVE  toClient' \in Seq(Sayable')
  <1>1. toClient \in Seq(Sayable')
    BY ReadyStays, SayableStays
  <1>2. toClient' \in Seq(ClientCalls)
    BY DEF IndInv, CallsOK
  <1>3. ASSUME NEW n \in 1..MaxPlayerLevel, LevelUp(n)
        PROVE  toClient' \in Seq(Sayable')
    <2> DEFINE new == {a \in Abilities \ Given : Requirement[a] <= plevel + n}
    <2>1. PICK order \in SetToSeqs(new) :
              toClient' = toClient \o [i \in DOMAIN order |-> StatusChanged(order[i], "Eligible")]
      BY <1>3 DEF LevelUp
    <2>2. Cardinality(new) \in Nat
      BY AbilityAssumption, FS_Subset, FS_CardinalityType
    <2>3. order \in [1..Cardinality(new) -> new]
      BY DEF SetToSeqs
    <2>4. \A i \in 1..Cardinality(new) : order[i] \in Abilities
      BY <2>3
    <2>5. DOMAIN order = 1..Cardinality(new)
      BY <2>3
    <2> HIDE DEF new
    <2>6. \A i \in DOMAIN order : StatusChanged(order[i], "Eligible") \in Sayable'
      BY <2>4, <2>5 DEF StatusChanged, Sayable, ClientCalls, Usable, Statuses
    <2> DEFINE said == [i \in DOMAIN order |-> StatusChanged(order[i], "Eligible")]
    <2>7. said \in Seq(Sayable')
      BY <2>2, <2>5, <2>6
    <2> HIDE DEF said
    <2>8. toClient \o said \in Seq(Sayable')
      BY <1>1, <2>7, ConcatProperties
    <2> QED
      BY <2>1, <2>8 DEF said
  <1>4. ASSUME NEW a \in Abilities, ServerSpendSpellPoint(a)
        PROVE  toClient' \in Seq(Sayable')
    <2>1. StatusOf(a) \in Statuses
      BY <1>4, GivenHaveLevel, StatusFound DEF ServerSpendSpellPoint
    <2>2. tags \in [Abilities -> Containers]
      BY DEF IndInv, InOrder
    <2>3. PICK st \in Statuses : /\ toClient' = Append(toClient, StatusChanged(a, st))
                                 /\ st \in Usable => a \in Ready'
      <3>1. CASE StatusOf(a) = "Eligible"
        <4>1. /\ toClient' = Append(toClient, StatusChanged(a, "Unlocked"))
              /\ "Unlocked" \in tags'[a]
          BY <1>4, <2>2, <3>1 DEF ServerSpendSpellPoint
        <4>2. Ready' = {c \in Abilities : tags'[c] \cap Usable # {}}
          BY ReadyTagsNext
        <4>3. a \in Ready'
          BY <4>1, <4>2 DEF Usable
        <4> QED
          BY <4>1, <4>3 DEF Statuses
      <3>2. CASE StatusOf(a) # "Eligible"
        <4>1. toClient' = Append(toClient, StatusChanged(a, StatusOf(a)))
          BY <1>4, <3>2 DEF ServerSpendSpellPoint
        <4>2. StatusOf(a) \in Usable => a \in Ready
          BY DEF Ready, Equippable, Usable
        <4> QED
          BY <2>1, <4>1, <4>2, ReadyStays
      <3> QED
        BY <3>1, <3>2
    <2>4. StatusChanged(a, st) \in Sayable'
      BY <2>3 DEF StatusChanged, Sayable, ClientCalls
    <2> QED
      BY <1>1, <2>3, <2>4
  <1>5. ASSUME NEW a \in Abilities, NEW s \in Slots, ServerEquipAbility(a, s)
        PROVE  toClient' \in Seq(Sayable')
    <2>1. toClient' = Append(toClient, Equipped(a, s, SlotOf(a)))
      BY <1>5 DEF ServerEquipAbility
    <2>2. Equipped(a, s, SlotOf(a)) \in Sayable'
      BY StatusSlotTypes DEF Equipped, Sayable, ClientCalls
    <2> QED
      BY <1>1, <2>1, <2>2
  <1> QED
    BY <1>3, <1>4, <1>5 DEF ServerActs
----------------------------------------------------------------------------
(* The menu's own steps leave the server alone; the calls it makes are     *)
(* made with what it knows.                                                *)

LEMMA MenuInit == Init => MenuInv
  <1> SUFFICES ASSUME Init
               PROVE  MenuInv
    OBVIOUS
  <1>1. IndInv /\ era = "first"
    BY InitInv DEF Init, ServerInit
  <1>2. InOrder(tags, level) /\ points \in Int
    BY <1>1 DEF IndInv, Types
  <1>3. toClient = << >> /\ toServer = << >>
    BY DEF Init, ServerInit
  <1>4. toClient \in Seq(Sayable) /\ toServer \in Seq(Askable) /\ toServer \in Seq(ServerCalls)
    BY <1>3
  <1>5. RowOf(tags) \in [Slots -> Abilities \cup {NoTag}]
    <2>1. ASSUME NEW s \in Slots, \E a \in Abilities : s \in tags[a]
          PROVE  (CHOOSE a \in Abilities : s \in tags[a]) \in Abilities
      BY <2>1
    <2> QED
      BY <2>1 DEF RowOf
  <1>6. MenuTypeOK
    <2>1. /\ view = tags /\ shownPoints = points /\ CurrentSpellPoints = 0
          /\ ability = NoTag /\ status = "Locked" /\ row = RowOf(tags)
          /\ spendOn = FALSE /\ equipOn = FALSE /\ waiting = FALSE
      BY DEF Init
    <2>2. tags \in [Abilities -> SUBSET (Statuses \cup Slots)]
      BY <1>2 DEF InOrder, Containers
    <2>3. spendOn \in BOOLEAN /\ equipOn \in BOOLEAN /\ waiting \in BOOLEAN
      BY <2>1
    <2>4. CurrentSpellPoints \in Int /\ shownPoints \in Int
      BY <1>2, <2>1
    <2>5. row \in [Slots -> Abilities \cup {NoTag}]
      BY <1>5, <2>1
    <2> QED
      BY <1>4, <2>1, <2>2, <2>3, <2>4, <2>5 DEF MenuTypeOK
  <1>7. Known
    <2>1. \A a \in Abilities : view[a] = {} \/ Container(view[a])
      BY <1>2 DEF Init, InOrder
    <2>2. \A a \in Abilities : view[a] \cap Usable # {} => a \in Ready
      BY <1>1, ReadyTags DEF Init
    <2>3. "Locked" \notin Usable
      BY DEF Usable
    <2> QED
      BY <2>1, <2>2, <2>3 DEF Init, Known
  <1>8. TypesMatch
    <2> SUFFICES ASSUME NEW a \in Abilities, NEW s \in Slots, s \in tags[a]
                 PROVE  a \in Passives <=> s \in PassiveSlots
      BY DEF TypesMatch
    <2>1. a \in Startup /\ s \in {StartSlot[a], "Equipped"}
      BY DEF Init, ServerInit
    <2>2. s # "Equipped"
      BY Kinds DEF Statuses
    <2> QED
      BY <2>1, <2>2, AbilityAssumption, MenuAssumption
  <1> QED
    BY <1>1, <1>4, <1>6, <1>7, <1>8 DEF MenuInv

(* While the server does not move, its part of the invariant stays.        *)
LEMMA ServerStill ==
    ASSUME MenuInv, UNCHANGED serverVars
    PROVE  /\ IndInv' /\ era' = "first" /\ TypesMatch'
           /\ Ready' = Ready /\ Sayable' = Sayable /\ Askable' = Askable
           /\ toClient' \in Seq(Sayable')
  <1>1. IndInv' /\ era' = "first" /\ tags' = tags /\ toClient' = toClient
    BY StutterInv DEF MenuInv, serverVars
  <1>2. Ready' = Ready
    BY <1>1 DEF Ready, Equippable, StatusOf
  <1>3. Sayable' = Sayable /\ Askable' = Askable
    BY <1>2 DEF Sayable, Askable
  <1> QED
    BY <1>1, <1>2, <1>3 DEF MenuInv, TypesMatch

(* ShouldEnableButtons enables what the status allows.                     *)
LEMMA Buttons ==
    ASSUME NEW st, NEW n \in Int, EnableButtons(st, n)
    PROVE  /\ spendOn' \in BOOLEAN /\ equipOn' \in BOOLEAN
           /\ spendOn' => st \in Statuses
           /\ equipOn' => st \in Usable
  <1>1. spendOn' \in BOOLEAN /\ equipOn' \in BOOLEAN
    BY DEF EnableButtons
  <1>2. spendOn' => st \in Statuses
    BY Zenon DEF EnableButtons
  <1>3. equipOn' => st \in {"Unlocked", "Equipped"}
    BY Zenon DEF EnableButtons
  <1>4. st \in {"Unlocked", "Equipped"} => st \in Usable
    BY DEF Usable
  <1> QED
    BY <1>1, <1>2, <1>3, <1>4, Zenon

LEMMA SelectInv ==
    ASSUME MenuInv, NEW a \in Abilities, SpellGlobeSelected(a)
    PROVE  MenuInv'
  <1> DEFINE st == IF view[a] = {} THEN "Locked" ELSE TagOf(view[a], Statuses)
  <1>1. /\ ability' = a /\ status' = st /\ waiting' = FALSE
        /\ EnableButtons(st, shownPoints)
        /\ UNCHANGED <<serverVars, replicated, CurrentSpellPoints, row, toServer>>
    BY DEF SpellGlobeSelected
  <1>2. MenuTypeOK /\ Known /\ toServer \in Seq(Askable)
    BY DEF MenuInv
  <1>3. /\ IndInv' /\ era' = "first" /\ TypesMatch'
        /\ Ready' = Ready /\ Askable' = Askable /\ toClient' \in Seq(Sayable')
    BY <1>1, ServerStill
  <1>4. st \in Statuses \cup {"Locked"} /\ (st \in Usable => a \in Ready)
    <2>1. CASE view[a] = {}
      <3>1. "Locked" \notin Usable
        BY DEF Usable
      <3> QED
        BY <2>1, <3>1
    <2>2. CASE view[a] # {}
      <3>1. view[a] \cap Statuses # {}
        BY <1>2, <2>2 DEF Known, Container
      <3>2. st \in view[a] \cap Statuses
        BY <2>2, <3>1, Search
      <3>3. st \in Usable => view[a] \cap Usable # {}
        BY <3>2
      <3> QED
        BY <1>2, <3>2, <3>3 DEF Known
    <2> QED
      BY <2>1, <2>2
  <1> HIDE DEF st
  <1>5. /\ spendOn' \in BOOLEAN /\ equipOn' \in BOOLEAN
        /\ spendOn' => st \in Statuses
        /\ equipOn' => st \in Usable
    <2>1. shownPoints \in Int
      BY <1>2 DEF MenuTypeOK
    <2> QED
      BY <1>1, <2>1, Buttons
  <1>6. MenuTypeOK'
    BY <1>1, <1>2, <1>4, <1>5 DEF MenuTypeOK, replicated
  <1>7. Known'
    <2>1. view' = view /\ \A c \in Abilities : view[c] = {} \/ Container(view[c])
      BY <1>1, <1>2 DEF Known, replicated
    <2>2. \A c \in Abilities : view[c] \cap Usable # {} => c \in Ready'
      BY <1>2, <1>3 DEF Known
    <2>3. ability' = a /\ status' = st /\ waiting' = FALSE /\ (st \in Usable => a \in Ready')
      BY <1>1, <1>3, <1>4
    <2>4. spendOn' => status' \in Statuses
      BY <1>5, <2>3, Zenon
    <2>5. equipOn' => status' \in Usable
      BY <1>5, <2>3, Zenon
    <2> QED
      BY <2>1, <2>2, <2>3, <2>4, <2>5 DEF Known
  <1> QED
    BY <1>1, <1>2, <1>3, <1>6, <1>7 DEF MenuInv

LEMMA DeselectedFacts ==
    ASSUME Deselected
    PROVE  /\ ability' = NoTag /\ status' = "Locked" /\ ~waiting' /\ ~spendOn' /\ ~equipOn'
           /\ waiting' \in BOOLEAN /\ spendOn' \in BOOLEAN /\ equipOn' \in BOOLEAN
           /\ status' \notin Usable
  BY DEF Deselected, Usable

LEMMA DeselectInv ==
    ASSUME MenuInv, GlobeDeselect
    PROVE  MenuInv'
  <1>1. Deselected /\ UNCHANGED <<serverVars, replicated, CurrentSpellPoints, row, toServer>>
    BY DEF GlobeDeselect
  <1>2. MenuTypeOK /\ Known /\ toServer \in Seq(Askable)
    BY DEF MenuInv
  <1>3. /\ IndInv' /\ era' = "first" /\ TypesMatch'
        /\ Ready' = Ready /\ Askable' = Askable /\ toClient' \in Seq(Sayable')
    BY <1>1, ServerStill
  <1>4. MenuTypeOK' /\ Known'
    BY <1>1, <1>2, <1>3, DeselectedFacts DEF MenuTypeOK, Known, replicated
  <1> QED
    BY <1>1, <1>2, <1>3, <1>4 DEF MenuInv

LEMMA CallInv ==
    ASSUME MenuInv, NEW m \in Askable, CallServer(m)
    PROVE  MenuInv'
  <1>1. /\ toServer' = Append(toServer, m)
        /\ UNCHANGED <<serverVars, replicated, CurrentSpellPoints, globe, row>>
    BY DEF CallServer
  <1>2. MenuTypeOK /\ Known /\ toServer \in Seq(Askable) /\ toServer \in Seq(ServerCalls)
    BY DEF MenuInv, MenuTypeOK
  <1>3. /\ IndInv' /\ era' = "first" /\ TypesMatch'
        /\ Ready' = Ready /\ Askable' = Askable /\ toClient' \in Seq(Sayable')
    BY <1>1, ServerStill
  <1>4. m \in ServerCalls
    BY DEF Askable
  <1>5. toServer' \in Seq(Askable) /\ toServer' \in Seq(ServerCalls)
    BY <1>1, <1>2, <1>4
  <1>6. MenuTypeOK' /\ Known'
    BY <1>1, <1>2, <1>3, <1>5 DEF MenuTypeOK, Known, replicated, globe
  <1> QED
    BY <1>3, <1>5, <1>6 DEF MenuInv

LEMMA SpendPressInv ==
    ASSUME MenuInv, SpendPointButtonPressed
    PROVE  MenuInv'
  <1> DEFINE m == [call |-> "ServerSpendSpellPoint", ability |-> ability]
  <1>1. spendOn /\ CallServer(m)
    BY DEF SpendPointButtonPressed
  <1>2. status \in Statuses /\ "Locked" \notin Statuses
    BY <1>1 DEF MenuInv, Known, Statuses
  <1>3. ability \in Abilities
    BY <1>2 DEF MenuInv, Known
  <1>4. m \in Askable
    BY <1>3 DEF Askable, ServerCalls
  <1> QED
    BY <1>1, <1>4, CallInv

LEMMA RowPressInv ==
    ASSUME MenuInv, NEW s \in Slots, SpellRowGlobePressed(s)
    PROVE  MenuInv'
  <1> DEFINE m == [call |-> "ServerEquipAbility", ability |-> ability, slot |-> s]
  <1>1. waiting /\ (ability \in Passives <=> s \in PassiveSlots) /\ CallServer(m)
    BY DEF SpellRowGlobePressed
  <1>2. ability \in Ready
    BY <1>1 DEF MenuInv, Known
  <1>3. m \in Askable
    BY <1>1, <1>2 DEF Askable, ServerCalls, Ready
  <1> QED
    BY <1>1, <1>3, CallInv

LEMMA EquipPressInv ==
    ASSUME MenuInv, EquipButtonPressed
    PROVE  MenuInv'
  <1>1. /\ equipOn /\ waiting' = TRUE
        /\ UNCHANGED <<serverVars, replicated, CurrentSpellPoints, ability, status, spendOn, equipOn,
                       row, toServer>>
    BY DEF EquipButtonPressed
  <1>2. MenuTypeOK /\ Known /\ toServer \in Seq(Askable)
    BY DEF MenuInv
  <1>3. /\ IndInv' /\ era' = "first" /\ TypesMatch'
        /\ Ready' = Ready /\ Askable' = Askable /\ toClient' \in Seq(Sayable')
    BY <1>1, ServerStill
  <1>4. ability \in Ready
    BY <1>1, <1>2 DEF Known
  <1>5. MenuTypeOK' /\ Known'
    BY <1>1, <1>2, <1>3, <1>4 DEF MenuTypeOK, Known, replicated
  <1> QED
    BY <1>1, <1>2, <1>3, <1>5 DEF MenuInv

LEMMA ReplicateInv ==
    ASSUME MenuInv, ReplicateSpecs
    PROVE  MenuInv'
  <1>1. /\ view' = tags
        /\ UNCHANGED <<serverVars, shownPoints, CurrentSpellPoints, globe, row, toServer>>
    BY DEF ReplicateSpecs
  <1>2. MenuTypeOK /\ Known /\ toServer \in Seq(Askable) /\ InOrder(tags, level) /\ IndInv
    BY DEF MenuInv, IndInv
  <1>3. /\ IndInv' /\ era' = "first" /\ TypesMatch'
        /\ Ready' = Ready /\ Askable' = Askable /\ toClient' \in Seq(Sayable')
    BY <1>1, ServerStill
  <1>4. \A a \in Abilities : tags[a] = {} \/ Container(tags[a])
    BY <1>2 DEF InOrder
  <1>5. \A a \in Abilities : tags[a] \cap Usable # {} => a \in Ready
    BY <1>2, ReadyTags
  <1>6. tags \in [Abilities -> SUBSET (Statuses \cup Slots)]
    BY <1>2 DEF InOrder, Containers
  <1>7. MenuTypeOK'
    BY <1>1, <1>2, <1>6 DEF MenuTypeOK, globe
  <1>8. Known'
    BY <1>1, <1>2, <1>3, <1>4, <1>5 DEF Known, globe
  <1> QED
    BY <1>1, <1>2, <1>3, <1>7, <1>8 DEF MenuInv

LEMMA PointsInv ==
    ASSUME MenuInv, OnSpellPointsChanged
    PROVE  MenuInv'
  <1>1. /\ shownPoints' = points /\ CurrentSpellPoints' = points
        /\ EnableButtons(status, points)
        /\ UNCHANGED <<serverVars, view, ability, status, waiting, row, toServer>>
    BY DEF OnSpellPointsChanged
  <1>2. /\ MenuTypeOK /\ Known /\ toServer \in Seq(Askable) /\ points \in Int
    BY DEF MenuInv, IndInv, Types
  <1>3. /\ IndInv' /\ era' = "first" /\ TypesMatch'
        /\ Ready' = Ready /\ Askable' = Askable /\ toClient' \in Seq(Sayable')
    BY <1>1, ServerStill
  <1>4. /\ spendOn' \in BOOLEAN /\ equipOn' \in BOOLEAN
        /\ spendOn' => status \in Statuses
        /\ equipOn' => status \in Usable
    BY <1>1, <1>2, Buttons
  <1>5. MenuTypeOK'
    BY <1>1, <1>2, <1>4 DEF MenuTypeOK
  <1>6. Known'
    <2>1. spendOn' => status' \in Statuses
      BY <1>1, <1>4
    <2>2. equipOn' => status' \in Usable
      BY <1>1, <1>4
    <2> QED
      BY <1>1, <1>2, <1>3, <2>1, <2>2 DEF Known
  <1> QED
    BY <1>1, <1>2, <1>3, <1>5, <1>6 DEF MenuInv
----------------------------------------------------------------------------
(* The server's calls, which the menu may receive long after they were     *)
(* made, tell it nothing that is not so any more.                          *)
LEMMA ReceiveClientInv ==
    ASSUME MenuInv, ReceiveClientCall
    PROVE  MenuInv'
  <1> DEFINE m == Head(toClient)
  <1>1. /\ ClientReceives
        /\ IF m.call = "ClientEquipAbility" THEN OnAbilityEquipped(m) ELSE OnAbilityStatusChanged(m)
        /\ UNCHANGED <<replicated, CurrentSpellPoints, toServer>>
    BY DEF ReceiveClientCall
  <1>2. /\ MenuTypeOK /\ Known /\ TypesMatch /\ IndInv /\ era = "first"
        /\ toClient \in Seq(Sayable) /\ toServer \in Seq(Askable)
    BY DEF MenuInv
  <1>3. /\ toClient # << >> /\ toClient' = Tail(toClient)
        /\ tags' = tags /\ era' = era
    BY <1>1 DEF ClientReceives
  <1>4. m \in Sayable /\ m \in ClientCalls
    BY <1>2, <1>3 DEF Sayable
  <1>5. IndInv' /\ era' = "first" /\ TypesMatch'
    BY <1>1, <1>2, <1>3, ClientReceivesInv DEF TypesMatch
  <1>6. Ready' = Ready
    BY <1>3 DEF Ready, Equippable, StatusOf
  <1>7. Sayable' = Sayable /\ Askable' = Askable
    BY <1>6 DEF Sayable, Askable
  <1>8. toClient' \in Seq(Sayable') /\ toServer' \in Seq(Askable')
    BY <1>1, <1>2, <1>3, <1>7
  <1> HIDE DEF m
  <1>9. CASE m.call = "ClientEquipAbility"
    <2>1. m.ability \in Abilities /\ m.slot \in Slots
      BY <1>4, <1>9 DEF ClientCalls
    <2>2. /\ row' = [s \in Slots |-> IF s = m.slot THEN m.ability
                                     ELSE IF s = m.prev THEN NoTag ELSE row[s]]
          /\ Deselected
      BY <1>1, <1>9 DEF OnAbilityEquipped
    <2>3. row' \in [Slots -> Abilities \cup {NoTag}]
      BY <1>2, <2>1, <2>2 DEF MenuTypeOK
    <2>4. MenuTypeOK' /\ Known'
      BY <1>1, <1>2, <1>6, <2>2, <2>3, DeselectedFacts DEF MenuTypeOK, Known, replicated
    <2> QED
      BY <1>5, <1>8, <2>4 DEF MenuInv
  <1>10. CASE m.call # "ClientEquipAbility"
    <2>1. m.call = "ClientUpdateAbilityStatus"
      BY <1>4, <1>10 DEF ClientCalls
    <2>2. m.status \in Statuses /\ (m.status \in Usable => m.ability \in Ready)
      BY <1>4, <2>1 DEF Sayable
    <2>3. OnAbilityStatusChanged(m)
      BY <1>1, <1>10
    <2>4. CASE m.ability = ability
      <3>1. /\ status' = m.status /\ EnableButtons(m.status, CurrentSpellPoints)
            /\ UNCHANGED <<ability, waiting, row>>
        BY <2>3, <2>4 DEF OnAbilityStatusChanged
      <3>2. CurrentSpellPoints \in Int
        BY <1>2 DEF MenuTypeOK
      <3>3. /\ spendOn' \in BOOLEAN /\ equipOn' \in BOOLEAN
            /\ spendOn' => m.status \in Statuses
            /\ equipOn' => m.status \in Usable
        BY <3>1, <3>2, Buttons
      <3>4. ability \in Abilities
        BY <1>4, <2>1, <2>4 DEF ClientCalls
      <3>5. MenuTypeOK'
        BY <1>1, <1>2, <2>2, <3>1, <3>3 DEF MenuTypeOK, replicated
      <3>6. Known'
        <4>1. spendOn' => status' \in Statuses
          BY <3>1, <3>3
        <4>2. equipOn' => status' \in Usable
          BY <3>1, <3>3
        <4> QED
          BY <1>1, <1>2, <1>6, <2>2, <2>4, <3>1, <3>4, <4>1, <4>2 DEF Known, replicated
      <3> QED
        BY <1>5, <1>8, <3>5, <3>6 DEF MenuInv
    <2>5. CASE m.ability # ability
      <3>1. UNCHANGED <<ability, status, spendOn, equipOn, waiting, row>>
        BY <2>3, <2>5 DEF OnAbilityStatusChanged
      <3>2. MenuTypeOK' /\ Known'
        BY <1>1, <1>2, <1>6, <3>1 DEF MenuTypeOK, Known, replicated
      <3> QED
        BY <1>5, <1>8, <3>2 DEF MenuInv
    <2> QED
      BY <2>4, <2>5
  <1> QED
    BY <1>9, <1>10

(* When the server acts, what the menu knows and has asked stays true.     *)
LEMMA ServerMoves ==
    ASSUME MenuInv, ServerActs, UNCHANGED client, TypesMatch',
           toServer' \in Seq(Askable), toServer' \in Seq(ServerCalls)
    PROVE  MenuInv'
  <1>1. /\ MenuTypeOK /\ Known /\ IndInv /\ era = "first" /\ toClient \in Seq(Sayable)
    BY DEF MenuInv
  <1>2. IndInv'
    BY <1>1, StepInv DEF ServerActs, ServerNext
  <1>3. era' = "first" /\ Ready \subseteq Ready'
    BY <1>1, <1>2, ReadyStays
  <1>4. toClient' \in Seq(Sayable')
    BY <1>1, <1>2, TrulySaid
  <1>5. toServer' \in Seq(Askable')
    <2>1. Askable \subseteq Askable'
      BY <1>3 DEF Askable
    <2> QED
      BY <2>1
  <1>6. UNCHANGED <<view, shownPoints, CurrentSpellPoints, ability, status, spendOn, equipOn,
                    waiting, row>>
    BY DEF client, globe
  <1>7. MenuTypeOK'
    BY <1>1, <1>6 DEF MenuTypeOK
  <1>8. Known'
    BY <1>1, <1>3, <1>6 DEF Known
  <1> QED
    BY <1>2, <1>3, <1>4, <1>5, <1>7, <1>8 DEF MenuInv

LEMMA ReceiveServerInv ==
    ASSUME MenuInv, ReceiveServerCall
    PROVE  MenuInv'
  <1> DEFINE m == Head(toServer)
  <1>1. /\ toServer # << >> /\ toServer' = Tail(toServer) /\ UNCHANGED client
        /\ \/ m.call = "ServerSpendSpellPoint" /\ ServerSpendSpellPoint(m.ability)
           \/ m.call = "ServerEquipAbility" /\ ServerEquipAbility(m.ability, m.slot)
    BY DEF ReceiveServerCall
  <1>2. /\ toServer \in Seq(Askable) /\ toServer \in Seq(ServerCalls)
        /\ IndInv /\ era = "first" /\ TypesMatch
    BY DEF MenuInv, MenuTypeOK
  <1>3. toServer' \in Seq(Askable) /\ toServer' \in Seq(ServerCalls)
    BY <1>1, <1>2
  <1>4. m \in Askable /\ m \in ServerCalls
    BY <1>1, <1>2
  <1> HIDE DEF m
  <1>5. CASE m.call = "ServerSpendSpellPoint" /\ ServerSpendSpellPoint(m.ability)
    <2>1. m.ability \in Abilities
      BY <1>4, <1>5 DEF ServerCalls
    <2>2. ServerActs
      BY <1>5, <2>1 DEF ServerActs
    <2>3. \A a \in Abilities : tags'[a] \cap Slots \subseteq tags[a]
      BY <1>2, <1>5, <2>1, SlotsKept
    <2>4. TypesMatch'
      BY <1>2, <2>3 DEF TypesMatch
    <2> QED
      BY <1>1, <1>3, <2>2, <2>4, ServerMoves
  <1>6. CASE m.call = "ServerEquipAbility" /\ ServerEquipAbility(m.ability, m.slot)
    <2>1. m.ability \in Abilities /\ m.slot \in Slots
      BY <1>4, <1>6 DEF ServerCalls
    <2>2. m.ability \in Passives <=> m.slot \in PassiveSlots
      BY <1>4, <1>6 DEF Askable
    <2>3. ServerActs
      BY <1>6, <2>1 DEF ServerActs
    <2>4. /\ \A c \in Abilities \ {m.ability} : tags'[c] \cap Slots \subseteq tags[c]
          /\ tags'[m.ability] = tags[m.ability] \/ tags'[m.ability] \cap Slots = {m.slot}
      BY <1>2, <1>6, <2>1, EquipTags
    <2>5. TypesMatch'
      BY <1>2, <2>1, <2>2, <2>4 DEF TypesMatch
    <2> QED
      BY <1>1, <1>3, <2>3, <2>5, ServerMoves
  <1> QED
    BY <1>1, <1>5, <1>6

LEMMA GainLevelsInv ==
    ASSUME MenuInv, NEW n \in 1..MaxPlayerLevel, GainLevels(n)
    PROVE  MenuInv'
  <1>1. LevelUp(n) /\ UNCHANGED client /\ toServer' = toServer
    BY DEF GainLevels
  <1>2. IndInv /\ TypesMatch /\ toServer \in Seq(Askable) /\ toServer \in Seq(ServerCalls)
    BY DEF MenuInv, MenuTypeOK
  <1>3. ServerActs
    BY <1>1 DEF ServerActs
  <1>4. \A a \in Abilities : tags'[a] \cap Slots \subseteq tags[a]
    BY <1>1, <1>2, SlotsKept
  <1>5. TypesMatch'
    BY <1>2, <1>4 DEF TypesMatch
  <1> QED
    BY <1>1, <1>2, <1>3, <1>5, ServerMoves

LEMMA MenuStep == MenuInv /\ [Next]_vars => MenuInv'
  <1> SUFFICES ASSUME MenuInv, [Next]_vars
               PROVE  MenuInv'
    OBVIOUS
  <1>1. CASE Client
    BY <1>1, SelectInv, DeselectInv, SpendPressInv, EquipPressInv, RowPressInv DEF Client
  <1>2. CASE ReceiveClientCall
    BY <1>2, ReceiveClientInv
  <1>3. CASE ReplicateSpecs
    BY <1>3, ReplicateInv
  <1>4. CASE OnSpellPointsChanged
    BY <1>4, PointsInv
  <1>5. CASE ReceiveServerCall
    BY <1>5, ReceiveServerInv
  <1>6. ASSUME NEW n \in 1..MaxPlayerLevel, GainLevels(n)
        PROVE  MenuInv'
    BY <1>6, GainLevelsInv
  <1>7. CASE UNCHANGED vars
    <2>1. /\ UNCHANGED serverVars
          /\ UNCHANGED <<view, shownPoints, CurrentSpellPoints, ability, status, spendOn,
                         equipOn, waiting, row, toServer>>
      BY <1>7 DEF vars, serverVars
    <2>2. /\ IndInv' /\ era' = "first" /\ TypesMatch'
          /\ Ready' = Ready /\ Askable' = Askable /\ toClient' \in Seq(Sayable')
      BY <2>1, ServerStill
    <2> QED
      BY <2>1, <2>2 DEF MenuInv, MenuTypeOK, Known
  <1> QED
    BY <1>1, <1>2, <1>3, <1>4, <1>5, <1>6, <1>7 DEF Next

LEMMA MenuInvariant == Spec => []MenuInv
  BY MenuInit, MenuStep, PTL DEF Spec

----------------------------------------------------------------------------
(* The menu's selection, buttons, row and calls keep their types.          *)
THEOREM MenuTypeCorrect == Spec => []MenuTypeOK
  <1>1. MenuInv => MenuTypeOK
    BY DEF MenuInv
  <1> QED
    BY <1>1, MenuInvariant, PTL

(* The world of the menu implements the server's abilities, so what is     *)
(* proved of these holds also with clients, calls and replication.         *)
THEOREM MenuImplementsServer == Spec => ServerSpec
  <1>1. Init => ServerInit
    BY DEF Init
  <1>2. MenuInv /\ [Next]_vars => [ServerNext]_serverVars
    BY ServerStep DEF MenuInv, MenuTypeOK
  <1> QED
    BY <1>1, <1>2, MenuInvariant, PTL DEF Spec, ServerSpec

(* Slots keep to abilities of their type, though only the menu, which may  *)
(* have an outdated picture of the server, looks at types.                 *)
THEOREM TypesAlwaysMatch == Spec => []TypesMatch
  <1>1. MenuInv => TypesMatch
    BY DEF MenuInv
  <1> QED
    BY <1>1, MenuInvariant, PTL

(* No call to equip reaches the server for an ability that cannot be       *)
(* equipped, in whatever order status calls, specs and points arrive.      *)
THEOREM OnlyUsableAsked == Spec => []EquipsOnlyUsable
  <1>1. MenuInv => EquipsOnlyUsable
    BY DEF MenuInv, Askable, Ready, EquipsOnlyUsable
  <1> QED
    BY <1>1, MenuInvariant, PTL
----------------------------------------------------------------------------
(* The spell row.  Slot s is touched by a call m that equips an ability in *)
(* it or moves one out of it, and then shows Gives(m, s).                  *)
Touches(m, s) == m.call = "ClientEquipAbility" /\ s \in {m.slot, m.prev}
Gives(m, s)   == IF s = m.slot THEN m.ability ELSE NoTag

\* Row r shows v in slot s once the calls q have arrived.
WillShow(r, q, s, v) ==
    \/ r[s] = v /\ \A i \in 1..Len(q) : ~Touches(q[i], s)
    \/ \E i \in 1..Len(q) : /\ Touches(q[i], s) /\ Gives(q[i], s) = v
                            /\ \A j \in 1..Len(q) : j > i => ~Touches(q[j], s)

RowComing == \A s \in Slots : WillShow(row, toClient, s, RowOf(tags)[s])

LEMMA RowOfFacts ==
    ASSUME NEW T, Exclusive(T), NEW s \in Slots
    PROVE  /\ \A a \in Abilities : s \in T[a] => RowOf(T)[s] = a
           /\ (\A a \in Abilities : s \notin T[a]) => RowOf(T)[s] = NoTag
  <1>1. ASSUME NEW a \in Abilities, s \in T[a]
        PROVE  RowOf(T)[s] = a
    <2>1. (CHOOSE b \in Abilities : s \in T[b]) = a
      BY <1>1 DEF Exclusive
    <2> QED
      BY <1>1, <2>1 DEF RowOf
  <1>2. ASSUME \A a \in Abilities : s \notin T[a]
        PROVE  RowOf(T)[s] = NoTag
    BY <1>2 DEF RowOf
  <1> QED
    BY <1>1, <1>2

(* Where nothing moved, the row of the server is as it was.                *)
LEMMA RowOfSame ==
    ASSUME NEW T, NEW U, Exclusive(T), Exclusive(U), NEW s \in Slots,
           \A a \in Abilities : s \in U[a] <=> s \in T[a]
    PROVE  RowOf(U)[s] = RowOf(T)[s]
  <1>1. CASE \A a \in Abilities : s \notin T[a]
    BY <1>1, RowOfFacts
  <1>2. ASSUME NEW a \in Abilities, s \in T[a]
        PROVE  RowOf(U)[s] = RowOf(T)[s]
    <2>1. s \in U[a]
      BY <1>2
    <2>2. RowOf(T)[s] = a
      BY <1>2, RowOfFacts
    <2>3. RowOf(U)[s] = a
      BY <2>1, RowOfFacts
    <2> QED
      BY <2>2, <2>3
  <1> QED
    BY <1>1, <1>2

(* The first call arrives.                                                 *)
LEMMA ShowTail ==
    ASSUME NEW q \in Seq(ClientCalls), q # << >>, NEW r, NEW u, NEW s, NEW v,
           WillShow(r, q, s, v),
           u[s] = IF Touches(Head(q), s) THEN Gives(Head(q), s) ELSE r[s]
    PROVE  WillShow(u, Tail(q), s, v)
  <1> DEFINE n == Len(q)
             t == Tail(q)
  <1>1. /\ n \in Nat \ {0} /\ Len(t) = n - 1 /\ Head(q) = q[1]
        /\ \A i \in 1..Len(t) : t[i] = q[i + 1]
    OBVIOUS
  <1> HIDE DEF n, t
  <1>2. \A i \in 1..Len(t) : i + 1 \in 1..n
    BY <1>1
  <1>3. CASE r[s] = v /\ \A i \in 1..n : ~Touches(q[i], s)
    <2>1. u[s] = v
      BY <1>1, <1>3
    <2>2. \A i \in 1..Len(t) : ~Touches(t[i], s)
      BY <1>1, <1>2, <1>3
    <2> QED
      BY <2>1, <2>2 DEF WillShow, t
  <1>4. ASSUME NEW i \in 1..n, Touches(q[i], s), Gives(q[i], s) = v,
               \A j \in 1..n : j > i => ~Touches(q[j], s)
        PROVE  WillShow(u, t, s, v)
    <2>1. CASE i = 1
      <3>1. u[s] = v
        BY <1>1, <1>4, <2>1
      <3>2. \A k \in 1..Len(t) : ~Touches(t[k], s)
        <4> TAKE k \in 1..Len(t)
        <4>1. k + 1 \in 1..n /\ k + 1 > i
          BY <1>1, <2>1
        <4>2. ~Touches(q[k + 1], s)
          BY <1>4, <4>1
        <4> QED
          BY <1>1, <4>2
      <3> QED
        BY <3>1, <3>2 DEF WillShow
    <2>2. CASE i # 1
      <3>1. i - 1 \in 1..Len(t) /\ t[i - 1] = q[i]
        BY <1>1, <2>2
      <3>2. \A k \in 1..Len(t) : k > i - 1 => ~Touches(t[k], s)
        <4> TAKE k \in 1..Len(t)
        <4> HAVE k > i - 1
        <4>1. k + 1 \in 1..n /\ k + 1 > i
          BY <1>1
        <4>2. ~Touches(q[k + 1], s)
          BY <1>4, <4>1
        <4> QED
          BY <1>1, <4>2
      <3> QED
        BY <1>4, <3>1, <3>2 DEF WillShow
    <2> QED
      BY <2>1, <2>2
  <1> QED
    BY <1>3, <1>4 DEF WillShow, n, t

(* A call for the slot is the last word on it.                             *)
LEMMA ShowLast ==
    ASSUME NEW q \in Seq(ClientCalls), NEW m \in ClientCalls, NEW r, NEW s, Touches(m, s)
    PROVE  WillShow(r, Append(q, m), s, Gives(m, s))
  <1> DEFINE p == Append(q, m)
  <1>1. Len(p) \in 1..Len(p) /\ p[Len(p)] = m
    OBVIOUS
  <1>2. \A j \in 1..Len(p) : ~(j > Len(p))
    BY <1>1
  <1> HIDE DEF p
  <1>3. WillShow(r, p, s, Gives(m, s))
    BY <1>1, <1>2 DEF WillShow
  <1> QED
    BY <1>3 DEF p

(* Calls that are not about the slot change nothing in it.                 *)
LEMMA ShowOthers ==
    ASSUME NEW q \in Seq(ClientCalls), NEW p \in Seq(ClientCalls), NEW r, NEW s, NEW v,
           WillShow(r, q, s, v), \A i \in 1..Len(p) : ~Touches(p[i], s)
    PROVE  WillShow(r, q \o p, s, v)
  <1> DEFINE c == q \o p
  <1>1. /\ Len(q) \in Nat /\ Len(p) \in Nat /\ Len(c) = Len(q) + Len(p)
        /\ \A i \in 1..Len(q) : c[i] = q[i]
        /\ \A i \in 1..Len(c) : i > Len(q) => c[i] = p[i - Len(q)]
    BY ConcatProperties
  <1> HIDE DEF c
  <1>2. ASSUME NEW i \in 1..Len(c), i > Len(q)
        PROVE  ~Touches(c[i], s)
    <2>1. i - Len(q) \in 1..Len(p)
      BY <1>1, <1>2
    <2> QED
      BY <1>1, <1>2, <2>1
  <1>3. CASE r[s] = v /\ \A i \in 1..Len(q) : ~Touches(q[i], s)
    <2>1. \A i \in 1..Len(c) : ~Touches(c[i], s)
      <3> TAKE i \in 1..Len(c)
      <3>1. CASE i > Len(q)
        BY <1>2, <3>1
      <3>2. CASE ~(i > Len(q))
        <4>1. i \in 1..Len(q)
          BY <1>1, <3>2
        <4> QED
          BY <1>1, <1>3, <4>1
      <3> QED
        BY <3>1, <3>2
    <2> QED
      BY <1>3, <2>1 DEF WillShow, c
  <1>4. ASSUME NEW i \in 1..Len(q), Touches(q[i], s), Gives(q[i], s) = v,
               \A j \in 1..Len(q) : j > i => ~Touches(q[j], s)
        PROVE  WillShow(r, c, s, v)
    <2>1. i \in 1..Len(c) /\ c[i] = q[i]
      BY <1>1
    <2>2. \A j \in 1..Len(c) : j > i => ~Touches(c[j], s)
      <3> TAKE j \in 1..Len(c)
      <3> HAVE j > i
      <3>1. CASE j > Len(q)
        BY <1>2, <3>1
      <3>2. CASE ~(j > Len(q))
        <4>1. j \in 1..Len(q)
          BY <1>1, <3>2
        <4> QED
          BY <1>1, <1>4, <4>1
      <3> QED
        BY <3>1, <3>2
    <2> QED
      BY <1>4, <2>1, <2>2 DEF WillShow
  <1> QED
    BY <1>3, <1>4 DEF WillShow, c

(* The call that answers an equip says all that the equip has changed: the *)
(* slot has the ability, its last slot is empty, and the ability displaced *)
(* had no slot but this one.                                               *)
LEMMA EquipShown ==
    ASSUME IndInv, IndInv', era = "first", RowComing, UNCHANGED row,
           NEW a \in Abilities, NEW s \in Slots, Equippable(a), ServerEquipAbility(a, s)
    PROVE  RowComing'
  <1> SUFFICES ASSUME NEW t \in Slots
               PROVE  WillShow(row, toClient', t, RowOf(tags')[t])
    BY DEF RowComing
  <1> DEFINE m == Equipped(a, s, SlotOf(a))
  <1>1. /\ toClient' = Append(toClient, m) /\ toClient \in Seq(ClientCalls)
        /\ m \in ClientCalls
    BY StatusSlotTypes DEF ServerEquipAbility, IndInv, CallsOK, Equipped, ClientCalls
  <1>2. /\ tags'[a] \cap Slots = {s}
        /\ \A c \in Abilities \ {a} : tags'[c] \cap Slots = (tags[c] \cap Slots) \ {s}
    BY EquipTags
  <1>3. Exclusive(tags) /\ Exclusive(tags') /\ Container(tags[a])
    <2>1. level[a] # 0
      BY EquipRest
    <2> QED
      BY <2>1 DEF IndInv, InOrder
  <1>4. tags[a] \cap Slots = {SlotOf(a)} \/ (tags[a] \cap Slots = {} /\ SlotOf(a) = NoTag)
    <2>1. CASE tags[a] \cap Slots = {}
      BY <2>1, Search DEF SlotOf
    <2>2. CASE tags[a] \cap Slots # {}
      <3>1. SlotOf(a) \in tags[a] \cap Slots
        BY <2>2, Search DEF SlotOf
      <3> QED
        BY <1>3, <3>1 DEF Container
    <2> QED
      BY <2>1, <2>2
  <1>5. /\ m.call = "ClientEquipAbility" /\ m.ability = a /\ m.slot = s
        /\ m.prev = SlotOf(a)
    BY DEF Equipped
  <1> HIDE DEF m
  <1>6. CASE t = s
    <2>1. RowOf(tags')[t] = a
      BY <1>2, <1>3, <1>6, RowOfFacts
    <2>2. Touches(m, t) /\ Gives(m, t) = a
      BY <1>5, <1>6 DEF Touches, Gives
    <2> QED
      BY <1>1, <2>1, <2>2, ShowLast
  <1>7. CASE t # s /\ t = SlotOf(a)
    <2>1. t \in tags[a]
      BY <1>4, <1>7, Kinds
    <2>2. \A c \in Abilities : t \notin tags'[c]
      BY <1>2, <1>3, <1>7, <2>1 DEF Exclusive
    <2>3. RowOf(tags')[t] = NoTag
      BY <1>3, <2>2, RowOfFacts
    <2>4. Touches(m, t) /\ Gives(m, t) = NoTag
      BY <1>5, <1>7 DEF Touches, Gives
    <2> QED
      BY <1>1, <2>3, <2>4, ShowLast
  <1>8. CASE t # s /\ t # SlotOf(a)
    <2>1. \A c \in Abilities : t \in tags'[c] <=> t \in tags[c]
      BY <1>2, <1>4, <1>8
    <2>2. RowOf(tags')[t] = RowOf(tags)[t]
      BY <1>3, <2>1, RowOfSame
    <2>3. ~Touches(m, t)
      BY <1>5, <1>8 DEF Touches
    <2>4. WillShow(row, toClient, t, RowOf(tags)[t])
      BY DEF RowComing
    <2> DEFINE p == <<m>>
    <2>5. /\ p \in Seq(ClientCalls) /\ Append(toClient, m) = toClient \o p
          /\ \A i \in 1..Len(p) : ~Touches(p[i], t)
      BY <1>1, <2>3
    <2> HIDE DEF p
    <2> QED
      BY <1>1, <2>2, <2>4, <2>5, ShowOthers
  <1> QED
    BY <1>6, <1>7, <1>8

(* Levels and points are told in calls that touch no slot.                 *)
LEMMA StatusShown ==
    ASSUME IndInv, IndInv', RowComing, UNCHANGED row,
           \/ \E n \in 1..MaxPlayerLevel : LevelUp(n)
           \/ \E a \in Abilities : ServerSpendSpellPoint(a)
    PROVE  RowComing'
  <1>1. PICK p \in Seq(ClientCalls) :
            /\ toClient' = toClient \o p
            /\ \A i \in 1..Len(p) : p[i].call = "ClientUpdateAbilityStatus"
    <2>1. ASSUME NEW n \in 1..MaxPlayerLevel, LevelUp(n)
          PROVE  \E p \in Seq(ClientCalls) :
                     /\ toClient' = toClient \o p
                     /\ \A i \in 1..Len(p) : p[i].call = "ClientUpdateAbilityStatus"
      <3> DEFINE new == {a \in Abilities \ Given : Requirement[a] <= plevel + n}
      <3>1. PICK order \in SetToSeqs(new) :
                toClient' = toClient \o [i \in DOMAIN order |-> StatusChanged(order[i], "Eligible")]
        BY <2>1 DEF LevelUp
      <3>2. Cardinality(new) \in Nat
        BY AbilityAssumption, FS_Subset, FS_CardinalityType
      <3>3. order \in [1..Cardinality(new) -> new]
        BY DEF SetToSeqs
      <3>4. /\ DOMAIN order = 1..Cardinality(new)
            /\ \A i \in 1..Cardinality(new) : order[i] \in Abilities
        BY <3>3
      <3> HIDE DEF new
      <3> DEFINE said == [i \in DOMAIN order |-> StatusChanged(order[i], "Eligible")]
      <3>5. \A i \in DOMAIN order : /\ said[i] \in ClientCalls
                                     /\ said[i].call = "ClientUpdateAbilityStatus"
        BY <3>4 DEF StatusChanged, ClientCalls, Statuses
      <3>6. said \in Seq(ClientCalls) /\ Len(said) = Cardinality(new)
        BY <3>2, <3>4, <3>5
      <3> HIDE DEF said
      <3> QED
        BY <3>1, <3>4, <3>5, <3>6 DEF said
    <2>2. ASSUME NEW a \in Abilities, ServerSpendSpellPoint(a)
          PROVE  \E p \in Seq(ClientCalls) :
                     /\ toClient' = toClient \o p
                     /\ \A i \in 1..Len(p) : p[i].call = "ClientUpdateAbilityStatus"
      <3>1. PICK st \in Statuses \cup {NoTag} : toClient' = Append(toClient, StatusChanged(a, st))
        BY <2>2, StatusSlotTypes DEF ServerSpendSpellPoint, Statuses
      <3> DEFINE p == <<StatusChanged(a, st)>>
      <3>2. StatusChanged(a, st) \in ClientCalls
        BY DEF StatusChanged, ClientCalls
      <3>3. p \in Seq(ClientCalls) /\ toClient \in Seq(ClientCalls)
        BY <3>2 DEF IndInv, CallsOK
      <3>4. toClient' = toClient \o p
        BY <3>1, <3>2, <3>3
      <3>5. \A i \in 1..Len(p) : p[i].call = "ClientUpdateAbilityStatus"
        BY DEF StatusChanged
      <3> QED
        BY <3>3, <3>4, <3>5
    <2> QED
      BY <2>1, <2>2
  <1> SUFFICES ASSUME NEW t \in Slots
               PROVE  WillShow(row, toClient', t, RowOf(tags')[t])
    BY DEF RowComing
  <1>2. \A a \in Abilities : tags'[a] \cap Slots = tags[a] \cap Slots
    BY SlotsKept
  <1>3. Exclusive(tags) /\ Exclusive(tags') /\ toClient \in Seq(ClientCalls)
    BY DEF IndInv, CallsOK
  <1>4. RowOf(tags')[t] = RowOf(tags)[t]
    <2>1. \A a \in Abilities : t \in tags'[a] <=> t \in tags[a]
      BY <1>2
    <2> QED
      BY <1>3, <2>1, RowOfSame
  <1>5. WillShow(row, toClient, t, RowOf(tags)[t])
    BY DEF RowComing
  <1>6. \A i \in 1..Len(p) : ~Touches(p[i], t)
    BY <1>1 DEF Touches
  <1> QED
    BY <1>1, <1>3, <1>4, <1>5, <1>6, ShowOthers

LEMMA RowStep ==
    ASSUME MenuInv, MenuInv', RowComing, [Next]_vars
    PROVE  RowComing'
  <1>1. /\ IndInv /\ IndInv' /\ era = "first" /\ toClient \in Seq(ClientCalls)
        /\ toServer \in Seq(Askable) /\ toServer \in Seq(ServerCalls)
    BY DEF MenuInv, IndInv, CallsOK, MenuTypeOK
  <1>2. CASE UNCHANGED <<row, tags, toClient>>
    BY <1>2 DEF RowComing
  <1>3. CASE ReceiveClientCall
    <2> DEFINE m == Head(toClient)
    <2>1. /\ toClient # << >> /\ toClient' = Tail(toClient) /\ tags' = tags
          /\ IF m.call = "ClientEquipAbility" THEN OnAbilityEquipped(m)
             ELSE OnAbilityStatusChanged(m)
      BY <1>3 DEF ReceiveClientCall, ClientReceives
    <2> HIDE DEF m
    <2>2. \A s \in Slots : row'[s] = IF Touches(m, s) THEN Gives(m, s) ELSE row[s]
      BY <2>1 DEF OnAbilityEquipped, OnAbilityStatusChanged, Touches, Gives
    <2>3. ASSUME NEW s \in Slots
          PROVE  WillShow(row', Tail(toClient), s, RowOf(tags)[s])
      BY <1>1, <2>1, <2>2, ShowTail DEF RowComing, m
    <2> QED
      BY <2>1, <2>3 DEF RowComing
  <1>4. CASE ReceiveServerCall
    <2> DEFINE m == Head(toServer)
    <2>1. /\ toServer # << >> /\ UNCHANGED row
          /\ \/ m.call = "ServerSpendSpellPoint" /\ ServerSpendSpellPoint(m.ability)
             \/ m.call = "ServerEquipAbility" /\ ServerEquipAbility(m.ability, m.slot)
      BY <1>4 DEF ReceiveServerCall, client
    <2>2. m \in Askable /\ m \in ServerCalls
      BY <1>1, <2>1
    <2> HIDE DEF m
    <2>3. CASE m.call = "ServerSpendSpellPoint" /\ ServerSpendSpellPoint(m.ability)
      <3>1. m.ability \in Abilities
        BY <2>2, <2>3 DEF ServerCalls
      <3> QED
        BY <1>1, <2>1, <2>3, <3>1, StatusShown
    <2>4. CASE m.call = "ServerEquipAbility" /\ ServerEquipAbility(m.ability, m.slot)
      <3>1. m.ability \in Abilities /\ m.slot \in Slots /\ Equippable(m.ability)
        BY <2>2, <2>4 DEF ServerCalls, Askable, Ready
      <3> QED
        BY <1>1, <2>1, <2>4, <3>1, EquipShown
    <2> QED
      BY <2>1, <2>3, <2>4
  <1>5. ASSUME NEW n \in 1..MaxPlayerLevel, GainLevels(n)
        PROVE  RowComing'
    <2>1. LevelUp(n) /\ UNCHANGED row
      BY <1>5 DEF GainLevels, client
    <2> QED
      BY <1>1, <2>1, StatusShown
  <1>6. CASE Client \/ ReplicateSpecs \/ OnSpellPointsChanged \/ UNCHANGED vars
    <2>1. UNCHANGED <<row, tags, toClient>>
      BY <1>6 DEF Client, SpellGlobeSelected, GlobeDeselect, SpendPointButtonPressed,
                  EquipButtonPressed, SpellRowGlobePressed, CallServer, ReplicateSpecs,
                  OnSpellPointsChanged, vars, serverVars
    <2> QED
      BY <1>2, <2>1
  <1> QED
    BY <1>3, <1>4, <1>5, <1>6 DEF Next

(* What the client is told of equipping is enough to follow the slots: the *)
(* row is right whenever no call is under way, however many were at once.  *)
THEOREM RowFollowsSlots == Spec => []RowShowsSlots
  <1>1. Init => RowComing
    <2> SUFFICES ASSUME Init
                 PROVE  RowComing
      OBVIOUS
    <2>1. row = RowOf(tags) /\ toClient = << >>
      BY DEF Init, ServerInit
    <2> QED
      BY <2>1 DEF RowComing, WillShow
  <1>2. MenuInv /\ MenuInv' /\ RowComing /\ [Next]_vars => RowComing'
    BY RowStep
  <1>3. MenuInv /\ RowComing => RowShowsSlots
    <2> SUFFICES ASSUME MenuInv, RowComing, toClient = << >>
                 PROVE  row = RowOf(tags)
      BY DEF RowShowsSlots
    <2>1. \A s \in Slots : row[s] = RowOf(tags)[s]
      BY DEF RowComing, WillShow
    <2>2. row \in [Slots -> Abilities \cup {NoTag}]
      BY DEF MenuInv, MenuTypeOK
    <2>3. RowOf(tags) = [s \in Slots |-> RowOf(tags)[s]]
      BY DEF RowOf
    <2> QED
      BY <2>1, <2>2, <2>3
  <1> QED
    BY <1>1, <1>2, <1>3, MenuInvariant, PTL DEF Spec

(***************************************************************************)
(* The input.                                                              *)
(***************************************************************************)

HeldRunIsOld == autoRunning /\ LMB \in down => swallowed

RunInv == RunEnds /\ HeldRunIsOld

----------------------------------------------------------------------------
LEMMA PressRun ==
    ASSUME RunInv, NEW k \in Keys, AbilityInputTagPressed(k)
    PROVE  RunInv'
  <1>1. CASE k # LMB
    <2>1. UNCHANGED run /\ (LMB \in down' => LMB \in down)
      BY <1>1 DEF AbilityInputTagPressed, Press
    <2> QED
      BY <2>1 DEF RunInv, RunEnds, HeldRunIsOld, run
  <1>2. CASE k = LMB /\ (blocked \/ inConversation)
    BY <1>2 DEF AbilityInputTagPressed, PressSwallowed, RunInv, RunEnds, HeldRunIsOld
  <1>3. CASE k = LMB /\ ~(blocked \/ inConversation)
    <2>1. PICK seen \in Seen(ThisActor) : LeftPressed(seen)
      BY <1>3 DEF AbilityInputTagPressed
    <2> QED
      BY <2>1 DEF LeftPressed, StopRunning, RunInv, RunEnds, HeldRunIsOld
  <1> QED
    BY <1>1, <1>2, <1>3

\* A release over the mouse button's own branch starts the run, if anything does.
LEMMA ReleaseRun ==
    ASSUME RunInv, NEW k \in Keys, AbilityInputTagReleased(k)
    PROVE  RunInv'
  <1>1. down' \subseteq down /\ k \notin down' /\ k \in down
    BY DEF AbilityInputTagReleased, Release
  <1>2. CASE UNCHANGED run
    BY <1>1, <1>2 DEF RunInv, RunEnds, HeldRunIsOld, run
  <1>3. ASSUME NEW to, FollowPath(to), k = LMB
        PROVE  RunInv'
    <2>1. autoRunning => swallowed
      BY <1>1, <1>3 DEF RunInv, HeldRunIsOld
    <2>2. RunEnds'
      BY <2>1, <1>3 DEF FollowPath, RunEnds
    <2>3. HeldRunIsOld'
      BY <1>1, <1>3 DEF HeldRunIsOld
    <2> QED
      BY <2>2, <2>3 DEF RunInv
  <1>4. UNCHANGED run \/ (k = LMB /\ \E seen \in Seen(ThisActor) : FollowPath(ClickedAt(seen)))
    BY DEF AbilityInputTagReleased, LeftReleased
  <1> QED
    BY <1>2, <1>3, <1>4

LEMMA HeldRun ==
    ASSUME RunInv, NEW k \in Keys, AbilityInputTagHeld(k)
    PROVE  RunInv'
  <1>1. down' = down /\ (UNCHANGED run \/ (k = LMB /\ k \in down /\ Follow))
    BY DEF AbilityInputTagHeld, keys
  <1> QED
    BY <1>1 DEF Follow, RunInv, RunEnds, HeldRunIsOld, run

LEMMA RunStep == RunInv /\ [InputNext]_inputVars => RunInv'
  <1> SUFFICES ASSUME RunInv, [InputNext]_inputVars
               PROVE  RunInv'
    OBVIOUS
  <1>1. CASE AutoRun
    BY <1>1 DEF AutoRun, RunInv, RunEnds, HeldRunIsOld
  <1>2. ASSUME NEW k \in Keys,
               AbilityInputTagPressed(k) \/ AbilityInputTagHeld(k) \/ AbilityInputTagReleased(k)
        PROVE  RunInv'
    BY <1>2, PressRun, ReleaseRun, HeldRun
  <1>3. ASSUME UNCHANGED run, UNCHANGED keys
        PROVE  RunInv'
    BY <1>3 DEF RunInv, RunEnds, HeldRunIsOld, run, keys
  <1>4. ASSUME NEW k \in Keys, AbilityEnds(k)
        PROVE  RunInv'
    BY <1>4, <1>3 DEF AbilityEnds
  <1>5. ASSUME NEW e \in Enemies, Destroyed(e)
        PROVE  RunInv'
    BY <1>5, <1>3 DEF Destroyed
  <1>6. CASE CursorTrace \/ Shift \/ OnRep_Stunned \/ SetInConversation \/ UNCHANGED inputVars
    BY <1>6, <1>3 DEF CursorTrace, Shift, OnRep_Stunned, SetInConversation, inputVars
  <1> QED
    BY <1>1, <1>2, <1>4, <1>5, <1>6 DEF InputNext

(* The automatic run ends where its spline ends, whatever is clicked, held *)
(* or blocked, unless a press did not stop it.                             *)
THEOREM RunsEnd == InputSpec => []RunEnds
  <1>1. InputInit => RunInv
    BY DEF InputInit, RunInv, RunEnds, HeldRunIsOld
  <1>2. RunInv => RunEnds
    BY DEF RunInv
  <1> QED
    BY <1>1, <1>2, RunStep, PTL DEF InputSpec

----------------------------------------------------------------------------
LEMMA ChannelStep == ChannelEndsWithKey /\ [InputNext]_inputVars => ChannelEndsWithKey'
  <1> SUFFICES ASSUME ChannelEndsWithKey, [InputNext]_inputVars
               PROVE  ChannelEndsWithKey'
    OBVIOUS
  <1> USE DEF ChannelEndsWithKey
  <1>1. ASSUME NEW k \in Keys, AbilityInputTagPressed(k)
        PROVE  ChannelEndsWithKey'
    BY <1>1 DEF AbilityInputTagPressed, Press
  <1>2. ASSUME NEW k \in Keys, AbilityInputTagHeld(k)
        PROVE  ChannelEndsWithKey'
    BY <1>2 DEF AbilityInputTagHeld, AbilityHeld, keys
  <1>3. ASSUME NEW k \in Keys, AbilityInputTagReleased(k)
        PROVE  ChannelEndsWithKey'
    BY <1>3 DEF AbilityInputTagReleased, Release, AbilityReleased
  <1>4. ASSUME NEW k \in Keys, AbilityEnds(k)
        PROVE  ChannelEndsWithKey'
    BY <1>4 DEF AbilityEnds, keys
  <1>5. ASSUME UNCHANGED activated, UNCHANGED keys
        PROVE  ChannelEndsWithKey'
    BY <1>5 DEF keys
  <1>6. ASSUME NEW e \in Enemies, Destroyed(e)
        PROVE  ChannelEndsWithKey'
    BY <1>6, <1>5 DEF Destroyed
  <1>7. CASE CursorTrace \/ AutoRun \/ Shift \/ OnRep_Stunned \/ SetInConversation \/ UNCHANGED inputVars
    BY <1>7, <1>5 DEF CursorTrace, AutoRun, Shift, OnRep_Stunned, SetInConversation, inputVars
  <1> QED
    BY <1>1, <1>2, <1>3, <1>4, <1>6, <1>7 DEF InputNext

(* However stuns, conversations, targets and shift come between press and  *)
(* release, a held ability goes on only while its key is down or after a   *)
(* release that a stun swallowed.                                          *)
THEOREM ChannelsEndWithKey == InputSpec => []ChannelEndsWithKey
  <1>1. InputInit => ChannelEndsWithKey
    BY DEF InputInit, ChannelEndsWithKey
  <1> QED
    BY <1>1, ChannelStep, PTL DEF InputSpec

----------------------------------------------------------------------------
LEMMA TypePress ==
    ASSUME InputTypeOK, NEW k \in Keys, AbilityInputTagPressed(k)
    PROVE  InputTypeOK'
  <1>1. /\ down' = down \cup {k} /\ missed' = missed \ {k}
        /\ UNCHANGED <<blocked, cursor, shift, activated>>
    BY DEF AbilityInputTagPressed, Press
  <1>2. CASE UNCHANGED <<mouse, run>> \/ PressSwallowed
    BY <1>1, <1>2 DEF PressSwallowed, InputTypeOK, cursor, mouse, run
  <1>3. ASSUME NEW seen, LeftPressed(seen)
        PROVE  InputTypeOK'
    BY <1>1, <1>3 DEF LeftPressed, StopRunning, InputTypeOK, cursor
  <1> QED
    BY <1>2, <1>3 DEF AbilityInputTagPressed

LEMMA TypeRelease ==
    ASSUME InputTypeOK, NEW k \in Keys, AbilityInputTagReleased(k)
    PROVE  InputTypeOK'
  <1>1. /\ down' = down \ {k} /\ missed' \in {missed, missed \cup {k}}
        /\ activated' \subseteq activated
        /\ UNCHANGED <<blocked, cursor, shift>>
    BY DEF AbilityInputTagReleased, Release, AbilityReleased
  <1>2. CASE UNCHANGED <<mouse, run>>
    BY <1>1, <1>2 DEF InputTypeOK, cursor, mouse, run
  <1>3. CASE LeftReleased
    <2>1. ASSUME NEW to \in Places \cup {NoPlace}, FollowPath(to)
          PROVE  /\ autoRunning' \in BOOLEAN /\ swallowed' \in BOOLEAN
                 /\ destination' \in Places \cup {NoPlace} /\ spline' \in Places \cup {NoPlace}
      BY <2>1 DEF FollowPath, InputTypeOK
    <2>2. \A seen \in Seen(ThisActor) : ClickedAt(seen) \in Places \cup {NoPlace}
      BY InputAssumption DEF ClickedAt, InputTypeOK
    <2>3. /\ autoRunning' \in BOOLEAN /\ swallowed' \in BOOLEAN
          /\ destination' \in Places \cup {NoPlace} /\ spline' \in Places \cup {NoPlace}
      BY <1>3, <2>1, <2>2 DEF LeftReleased, InputTypeOK, run
    <2>4. /\ targeting' \in {"TargetingEnemy", "TargetingNonEnemy", "NotTargeting"}
          /\ followTime' \in {"zero", "short", "long"} /\ inConversation' \in BOOLEAN
      BY <1>3 DEF LeftReleased, InputTypeOK, mouse
    <2> QED
      BY <1>1, <2>3, <2>4 DEF InputTypeOK, cursor
  <1> QED
    BY <1>2, <1>3 DEF AbilityInputTagReleased

LEMMA TypeHeld ==
    ASSUME InputTypeOK, NEW k \in Keys, AbilityInputTagHeld(k)
    PROVE  InputTypeOK'
  <1>1. UNCHANGED <<blocked, cursor, shift, keys>>
    BY DEF AbilityInputTagHeld
  <1>2. CASE AbilityHeld(k) /\ UNCHANGED <<mouse, run>>
    BY <1>1, <1>2 DEF AbilityHeld, InputTypeOK, cursor, keys, mouse, run
  <1>3. CASE Follow /\ UNCHANGED activated
    <2>1. followTime' \in {"zero", "short", "long"} /\ destination' \in Places \cup {NoPlace}
      BY <1>3 DEF Follow, InputTypeOK
    <2> QED
      BY <1>1, <1>3, <2>1 DEF Follow, InputTypeOK, cursor, keys
  <1> QED
    BY <1>2, <1>3 DEF AbilityInputTagHeld

LEMMA TypeStep == InputTypeOK /\ [InputNext]_inputVars => InputTypeOK'
  <1> SUFFICES ASSUME InputTypeOK, [InputNext]_inputVars
               PROVE  InputTypeOK'
    OBVIOUS
  <1>1. ASSUME NEW k \in Keys,
               AbilityInputTagPressed(k) \/ AbilityInputTagHeld(k) \/ AbilityInputTagReleased(k)
        PROVE  InputTypeOK'
    BY <1>1, TypePress, TypeHeld, TypeRelease
  <1>2. ASSUME NEW k \in Keys, AbilityEnds(k)
        PROVE  InputTypeOK'
    BY <1>2 DEF AbilityEnds, InputTypeOK, cursor, mouse, run, keys
  <1>3. ASSUME NEW e \in Enemies, Destroyed(e)
        PROVE  InputTypeOK'
    BY <1>3 DEF Destroyed, InputTypeOK, mouse, run, keys
  <1>4. CASE CursorTrace
    BY <1>4 DEF CursorTrace, InputTypeOK, mouse, run, keys
  <1>5. CASE AutoRun
    BY <1>5 DEF AutoRun, InputTypeOK, cursor, mouse, keys
  <1>6. CASE Shift \/ OnRep_Stunned \/ SetInConversation
    BY <1>6 DEF Shift, OnRep_Stunned, SetInConversation, InputTypeOK, cursor, mouse, run, keys
  <1>7. CASE UNCHANGED inputVars
    BY <1>7 DEF inputVars, InputTypeOK, cursor, mouse, run, keys
  <1> QED
    BY <1>1, <1>2, <1>3, <1>4, <1>5, <1>6, <1>7 DEF InputNext

(* Places, targets and keys keep their types.                              *)
THEOREM InputTypeCorrect == InputSpec => []InputTypeOK
  <1>1. InputInit => InputTypeOK
    BY DEF InputInit, InputTypeOK
  <1> QED
    BY <1>1, TypeStep, PTL DEF InputSpec
==============================================================================
