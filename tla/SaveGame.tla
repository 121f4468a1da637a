------------------------------ MODULE SaveGame ------------------------------
(***************************************************************************)
(* The saved games of Aura: the load screen (UMVVM_LoadScreen), the files  *)
(* (ULoadScreenSaveGame through AAuraGameModeBase), and what writes and    *)
(* reads them in a world: checkpoints, entrances to other maps, spawn      *)
(* volumes, the death of the player.                                       *)
(*                                                                         *)
(* A checkpoint or entrance writes the file twice, first the world, then   *)
(* the player's progress; the program may end (Crash) between any two      *)
(* steps.  A map's asset name and its display name are one value here:     *)
(* GetMapNameFromMapAssetName finds every map in Maps, and DefaultMap is   *)
(* added by BeginPlay.  The level, XP, points, attributes and abilities a  *)
(* file holds are one number, Progress: they are written and read          *)
(* together.  Which button is shown is up to the widgets: New for a slot   *)
(* that is not taken, Select for a taken one, Delete and Play after any    *)
(* selection.  The spheres of two checkpoints or entrances do not overlap. *)
(***************************************************************************)
EXTENDS Naturals, FiniteSets

CONSTANTS
    Slots, NoSlot,
    Maps, NoMap,
    Starts,         \* the tags of the player starts, each in one map
    NoTag,          \* NAME_None
    Checkpoints,    \* a checkpoint is a player start
    Entrances,
    Volumes,        \* AAuraEnemySpawnVolume
    Home,           \* the map of each start, entrance and volume
    DestinationPlayerStartTag,  \* of each entrance; DestinationMap is its map
    DefaultPlayerStartTag,
    MaxProgress,    \* bound on the progress of a game
    NoFile

ASSUME SaveAssumption ==
    /\ NoSlot \notin Slots /\ NoMap \notin Maps /\ NoTag \notin Starts
    /\ Checkpoints \subseteq Starts /\ Checkpoints \cap Volumes = {}
    /\ Home \in [Starts \cup Entrances \cup Volumes -> Maps]
    /\ DestinationPlayerStartTag \in [Entrances -> Starts]
    /\ DefaultPlayerStartTag \in Starts
    /\ MaxProgress \in Nat \ {0}

Progress == 1..MaxProgress
Fresh    == 1
Actors   == Checkpoints \cup Volumes    \* with ISaveInterface and a bReached that is read
DefaultMap == Home[DefaultPlayerStartTag]
DestinationMap(e) == Home[DestinationPlayerStartTag[e]]

\* NoFile is not a record of this set.
Files == [status : {"Vacant", "Taken"}, map : Maps, start : Starts \cup {NoTag},
          first : BOOLEAN, progress : Progress, reached : [Maps -> SUBSET Actors]]

ASSUME NoFileAssumption == NoFile \notin Files

VARIABLES
    disk,       \* the file of each slot
    vm,         \* the view models: status, map and start of each slot
    selected,   \* SelectedSlot
    gi,         \* the game instance: LoadSlotName with index, PlayerStartTag
    phase,      \* menu, travel, play, save (between the two writes) or dead
    map,        \* the world's map, or the one travelled to
    reached,    \* the actors of the world whose bReached is TRUE
    gone,       \* the volumes destroyed by LoadActor
    progress,   \* of the player's character
    pending,    \* the start of the second write, and the map to travel to after it
    torn        \* history: slots where the program ended between the writes of an entrance

vars == <<disk, vm, selected, gi, phase, map, reached, gone, progress, pending, torn>>
world == <<map, reached, gone, progress, pending>>

\* CreateSaveGameObject.  Its default map name is no map's: it is only used as
\* an answer for a slot without file.
FreshFile == [status |-> "Vacant", map |-> NoMap, start |-> NoTag, first |-> TRUE,
              progress |-> Fresh, reached |-> [m \in Maps |-> {}]]

GetSaveSlotData(s) == IF disk[s] = NoFile THEN FreshFile ELSE disk[s]

LoadData(d) ==
    [s \in Slots |-> LET f == IF d[s] = NoFile THEN FreshFile ELSE d[s] IN
                     [status |-> f.status, map |-> f.map, start |-> f.start]]

NoWorld ==
    /\ map' = NoMap /\ reached' = {} /\ gone' = {} /\ progress' = Fresh
    /\ pending' = [start |-> NoTag, map |-> NoMap]

Init ==
    /\ disk = [s \in Slots |-> NoFile]
    /\ vm = [s \in Slots |-> [status |-> "Vacant", map |-> NoMap, start |-> NoTag]]
    /\ selected = NoSlot
    /\ gi = [slot |-> NoSlot, start |-> NoTag]
    /\ phase = "menu" /\ map = NoMap /\ reached = {} /\ gone = {} /\ progress = Fresh
    /\ pending = [start |-> NoTag, map |-> NoMap]
    /\ torn = {}

----------------------------------------------------------------------------
(* The load screen.                                                        *)

\* What SaveSlotData writes; a file that is there is deleted first.
NewFile == [FreshFile EXCEPT !.status = "Taken", !.map = DefaultMap,
                             !.start = DefaultPlayerStartTag]

NewSlotButtonPressed(s) ==
    /\ phase = "menu" /\ vm[s].status = "Vacant"
    /\ vm' = [vm EXCEPT ![s] = [status |-> "Taken", map |-> DefaultMap,
                                start |-> DefaultPlayerStartTag]]
    /\ disk' = [disk EXCEPT ![s] = NewFile]
    /\ gi' = [slot |-> s, start |-> DefaultPlayerStartTag]
    /\ torn' = torn \ {s}
    /\ UNCHANGED <<selected, phase, world>>

SelectSlotButtonPressed(s) ==
    /\ phase = "menu" /\ vm[s].status = "Taken"
    /\ selected' = s
    /\ UNCHANGED <<disk, vm, gi, phase, world, torn>>

\* The view model keeps its map and start.
DeleteButtonPressed ==
    /\ phase = "menu" /\ selected # NoSlot
    /\ disk' = [disk EXCEPT ![selected] = NoFile]
    /\ vm' = [vm EXCEPT ![selected].status = "Vacant"]
    /\ torn' = torn \ {selected}
    /\ UNCHANGED <<selected, gi, phase, world>>

\* Variant: the start of the slot is not handed over.
PlayKeepingStart ==
    /\ phase = "menu" /\ selected # NoSlot
    /\ gi' = [gi EXCEPT !.slot = selected]
    /\ phase' = "travel" /\ map' = vm[selected].map
    /\ UNCHANGED <<disk, vm, selected, reached, gone, progress, pending, torn>>

PlayButtonPressed ==
    /\ phase = "menu" /\ selected # NoSlot
    /\ gi' = [slot |-> selected, start |-> vm[selected].start]
    /\ phase' = "travel" /\ map' = vm[selected].map
    /\ UNCHANGED <<disk, vm, selected, reached, gone, progress, pending, torn>>

----------------------------------------------------------------------------
(* A world.                                                                *)

\* LoadActor of what LoadWorldState has read: a reached volume is destroyed.
Destroyed(f) == f.reached[map] \cap Volumes

\* LoadProgress, with the world as it then is.
Loaded(f, actors, destroyed) ==
    /\ phase = "travel"
    /\ phase' = "play"
    /\ progress' = (IF f.first THEN Fresh ELSE f.progress)
    /\ reached' = actors /\ gone' = destroyed
    /\ UNCHANGED <<disk, vm, selected, gi, map, pending, torn>>

\* Variants: the saved actors are not read; volumes stay when they were reached.
PossessedWithoutWorld == Loaded(GetSaveSlotData(gi.slot), {}, {})

PossessedKeepingVolumes ==
    LET f == GetSaveSlotData(gi.slot) IN Loaded(f, f.reached[map] \ Destroyed(f), {})

\* PossessedBy: LoadProgress, then LoadWorldState.
PossessedBy ==
    LET f == GetSaveSlotData(gi.slot) IN
    Loaded(f, f.reached[map] \ Destroyed(f), Destroyed(f))

GainProgress ==
    /\ phase = "play" /\ progress < MaxProgress
    /\ progress' = progress + 1
    /\ UNCHANGED <<disk, vm, selected, gi, phase, map, reached, gone, pending, torn>>

\* SaveWorldState: the saved actors of this map are replaced by those that are there.
Saved(f, dest, actors) == [f EXCEPT !.map = dest, !.reached[map] = actors]

SaveWorldState(dest, start, travel, actors) ==
    /\ disk' = [disk EXCEPT ![gi.slot] = Saved(GetSaveSlotData(gi.slot), dest, actors)]
    /\ pending' = [start |-> start, map |-> travel]
    /\ phase' = "save"
    /\ UNCHANGED <<vm, selected, gi, map, gone, progress, torn>>

\* The overlap of a checkpoint, to the end of its first write.
OnCheckpointOverlap(c) ==
    /\ phase = "play" /\ Home[c] = map /\ c \notin reached
    /\ reached' = reached \cup {c}
    /\ SaveWorldState(map, c, NoMap, reached \cup {c})

\* Variant: the world is saved under the map it is in.
EntranceSavingHere(e) ==
    /\ phase = "play" /\ Home[e] = map
    /\ SaveWorldState(map, DestinationPlayerStartTag[e], DestinationMap(e), reached)
    /\ UNCHANGED reached

\* The same for an entrance.  That it is reached itself is read by nobody.
OnEntranceOverlap(e) ==
    /\ phase = "play" /\ Home[e] = map
    /\ SaveWorldState(DestinationMap(e), DestinationPlayerStartTag[e], DestinationMap(e), reached)
    /\ UNCHANGED reached

\* SaveProgress, and for an entrance OpenLevel.
Written(f) ==
    /\ phase = "save"
    /\ disk' = [disk EXCEPT ![gi.slot] = [f EXCEPT !.start = pending.start, !.progress = progress]]
    /\ gi' = [gi EXCEPT !.start = pending.start]
    /\ torn' = torn \ {gi.slot}
    /\ pending' = [start |-> NoTag, map |-> NoMap]
    /\ IF pending.map = NoMap
       THEN phase' = "play" /\ UNCHANGED <<map, reached, gone, progress>>
       ELSE phase' = "travel" /\ map' = pending.map /\ reached' = {} /\ gone' = {} /\ progress' = Fresh
    /\ UNCHANGED <<vm, selected>>

\* Variant: bFirstTimeLoadIn is forgotten.
SaveProgressAsFirst == Written(GetSaveSlotData(gi.slot))

SaveProgress == Written([GetSaveSlotData(gi.slot) EXCEPT !.first = FALSE])

\* The enemies of a volume are spawned once: its box has no collision then.
OnBoxOverlap(v) ==
    /\ phase = "play" /\ Home[v] = map /\ v \notin reached \cup gone
    /\ reached' = reached \cup {v}
    /\ UNCHANGED <<disk, vm, selected, gi, phase, map, gone, progress, pending, torn>>

\* Die: the capsule has no collision any more, the death timer runs.
Die ==
    /\ phase = "play"
    /\ phase' = "dead"
    /\ UNCHANGED <<disk, vm, selected, gi, world, torn>>

----------------------------------------------------------------------------
\* The load screen is opened: its view model is made and filled.
OpenMenu(d) == phase' = "menu" /\ vm' = LoadData(d) /\ selected' = NoSlot /\ NoWorld

\* The death timer.  Without a file there is no map of that name, and the
\* engine opens its default map, the load screen.
PlayerDied ==
    /\ phase = "dead"
    /\ IF disk[gi.slot] = NoFile
       THEN OpenMenu(disk)
       ELSE /\ phase' = "travel" /\ map' = disk[gi.slot].map
            /\ reached' = {} /\ gone' = {} /\ progress' = Fresh
            /\ UNCHANGED <<vm, selected, pending>>
    /\ UNCHANGED <<disk, gi, torn>>

\* The program ends and is started again.
Crash ==
    /\ OpenMenu(disk)
    /\ gi' = [slot |-> NoSlot, start |-> NoTag]
    /\ torn' = IF phase = "save" /\ pending.map # NoMap THEN torn \cup {gi.slot} ELSE torn
    /\ UNCHANGED disk

Next ==
    \/ \E s \in Slots : NewSlotButtonPressed(s) \/ SelectSlotButtonPressed(s)
    \/ DeleteButtonPressed \/ PlayButtonPressed
    \/ PossessedBy \/ GainProgress
    \/ \E c \in Checkpoints : OnCheckpointOverlap(c)
    \/ \E e \in Entrances : OnEntranceOverlap(e)
    \/ SaveProgress
    \/ \E v \in Volumes : OnBoxOverlap(v)
    \/ Die \/ PlayerDied \/ Crash

Spec == Init /\ [][Next]_vars

----------------------------------------------------------------------------
ViewModels == [status : {"Vacant", "Taken"}, map : Maps \cup {NoMap},
               start : Starts \cup {NoTag}]

TypeOK ==
    /\ disk \in [Slots -> Files \cup {NoFile}]
    /\ vm \in [Slots -> ViewModels]
    /\ selected \in Slots \cup {NoSlot}
    /\ gi \in [slot : Slots \cup {NoSlot}, start : Starts \cup {NoTag}]
    /\ phase \in {"menu", "travel", "play", "save", "dead"}
    /\ map \in Maps \cup {NoMap}
    /\ reached \subseteq Actors /\ gone \subseteq Volumes
    /\ progress \in Progress
    /\ pending \in [start : Starts \cup {NoTag}, map : Maps \cup {NoMap}]
    /\ torn \subseteq Slots

(* Through new, deleted and resumed games, travel, deaths and crashes, the *)
(* file of the game being played names the map the player is in and the    *)
(* start the game instance holds: a death (PlayerDied takes the map from   *)
(* the file, ChoosePlayerStart the start from the game instance) leads     *)
(* back to where the game was last saved.                                  *)
DeathLeadsBack ==
    phase \in {"play", "dead"} /\ disk[gi.slot] # NoFile =>
        disk[gi.slot].map = map /\ disk[gi.slot].start = gi.start

(* Map and start of a file are written by two writes.  They belong         *)
(* together except between the two writes of an entrance, and when the     *)
(* program has ended there, until the next save repairs the file.          *)
StartInMap ==
    \A s \in Slots :
        \/ disk[s] = NoFile \/ disk[s].start = NoTag
        \/ s \in torn \/ (phase = "save" /\ gi.slot = s /\ pending.map # NoMap)
        \/ Home[disk[s].start] = disk[s].map

(* A checkpoint that a file holds as reached stays so while games are      *)
(* played, although each save replaces the actors of a map by what it      *)
(* finds in the world.                                                     *)
CheckpointsStayReached ==
    [][\A s \in Slots, c \in Checkpoints :
           phase # "menu" /\ disk[s] # NoFile /\ c \in disk[s].reached[Home[c]]
           => c \in disk'[s].reached[Home[c]]]_vars

(* A volume whose enemies were spawned according to the file of the game   *)
(* does not spawn them again.  (Destroyed on loading, a volume is missing  *)
(* from the next save, so the file does not hold it for ever.)             *)
RecordedNotRespawned ==
    [][\A v \in Volumes :
           v \notin reached /\ v \in reached'
           => v \notin GetSaveSlotData(gi.slot).reached[Home[v]]]_vars

Games == INSTANCE SavedGames WITH
    kept    <- [s \in Slots |-> GetSaveSlotData(s).progress],
    playing <- IF phase \in {"play", "save", "dead"} THEN gi.slot ELSE NoSlot

(* A game resumes with the progress last saved while it was played, in     *)
(* whatever order slots, worlds, deaths and crashes come; a save changes   *)
(* no other slot.                                                          *)
ImplementsSavedGames == Games!Spec
=============================================================================
