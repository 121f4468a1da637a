--------------------------- MODULE SaveGame_proofs ---------------------------
(***************************************************************************)
(* Proofs about SaveGame, for any slots, maps, actors and length of game.  *)
(*                                                                         *)
(* The properties are about what holds while a game is played; that it     *)
(* holds there rests on what the menu shows (MenuShowsFiles), on what the  *)
(* first of two writes leaves for the second (BetweenWrites) and on what   *)
(* the world still knows of the file it was loaded from (ReachedInWorld).  *)
(***************************************************************************)
EXTENDS SaveGame, TLAPS

\* What GetSaveSlotData answers: a file, or the one of a slot that has none.
Answers == [status : {"Vacant", "Taken"}, map : Maps \cup {NoMap}, start : Starts \cup {NoTag},
            first : BOOLEAN, progress : Progress, reached : [Maps -> SUBSET Actors]]

WorldKnown == phase # "menu" => gi.slot \in Slots /\ map \in Maps

MenuShowsFiles ==
    phase = "menu" =>
        /\ \A s \in Slots : vm[s].status = "Taken" => vm[s].map \in Maps
        /\ \A s \in Slots : disk[s] # NoFile =>
               vm[s].map = disk[s].map /\ vm[s].start = disk[s].start
        /\ selected # NoSlot => vm[selected].map \in Maps

FileOfWorld ==
    phase \in {"travel", "play", "dead"} /\ disk[gi.slot] # NoFile =>
        disk[gi.slot].map = map /\ disk[gi.slot].start = gi.start

BetweenWrites ==
    phase = "save" =>
        /\ disk[gi.slot] # NoFile
        /\ disk[gi.slot].map = (IF pending.map = NoMap THEN map ELSE pending.map)
        /\ pending.start \in Starts /\ Home[pending.start] = disk[gi.slot].map

ReachedInWorld ==
    phase \in {"play", "save"} => GetSaveSlotData(gi.slot).reached[map] \subseteq reached \cup gone

FreshAtFirst ==
    /\ \A s \in Slots : disk[s] # NoFile /\ disk[s].first => disk[s].progress = Fresh
    /\ phase \in {"menu", "travel"} => progress = Fresh

SaveInv ==
    /\ TypeOK /\ WorldKnown /\ MenuShowsFiles /\ FileOfWorld /\ BetweenWrites
    /\ StartInMap /\ ReachedInWorld /\ FreshAtFirst

----------------------------------------------------------------------------
(* Files.                                                                  *)

LEMMA AnswerTyped ==
    ASSUME TypeOK, NEW s \in Slots
    PROVE  /\ GetSaveSlotData(s) \in Answers
           /\ disk[s] # NoFile => disk[s] \in Files /\ GetSaveSlotData(s) = disk[s]
           /\ disk[s] = NoFile => GetSaveSlotData(s) = FreshFile
  <1>1. disk[s] \in Files \cup {NoFile}
    BY DEF TypeOK
  <1>2. FreshFile \in Answers
    BY SaveAssumption DEF FreshFile, Answers, Progress, Fresh
  <1>3. Files \subseteq Answers
    BY DEF Files, Answers
  <1> QED
    BY <1>1, <1>2, <1>3 DEF GetSaveSlotData

LEMMA NewFileTyped ==
    /\ NewFile \in Files /\ NewFile # NoFile
    /\ NewFile.map = DefaultMap /\ NewFile.start = DefaultPlayerStartTag
    /\ NewFile.progress = Fresh /\ DefaultMap \in Maps /\ Home[NewFile.start] = NewFile.map
  <1>1. DefaultMap \in Maps /\ DefaultPlayerStartTag \in Starts
    BY SaveAssumption DEF DefaultMap
  <1> DEFINE none == [m \in Maps |-> {}]
  <1>2. /\ none \in [Maps -> SUBSET Actors]
        /\ Fresh \in Progress
    BY SaveAssumption DEF Progress, Fresh
  <1>3. NewFile = [status |-> "Taken", map |-> DefaultMap, start |-> DefaultPlayerStartTag,
                   first |-> TRUE, progress |-> Fresh, reached |-> none]
    <2> HIDE DEF none
    <2>1. FreshFile = [status |-> "Vacant", map |-> NoMap, start |-> NoTag, first |-> TRUE,
                       progress |-> Fresh, reached |-> none]
      BY DEF FreshFile, none
    <2>2. FreshFile \in Answers
      BY <1>2, <2>1 DEF Answers
    <2>3. NewFile \in Answers
      BY <1>1, <2>2 DEF NewFile, Answers
    <2>4. /\ NewFile.status = "Taken" /\ NewFile.map = DefaultMap
          /\ NewFile.start = DefaultPlayerStartTag /\ NewFile.first = FreshFile.first
          /\ NewFile.progress = FreshFile.progress /\ NewFile.reached = FreshFile.reached
      BY <1>1, <2>2 DEF NewFile, Answers
    <2> QED
      BY <2>1, <2>3, <2>4 DEF Answers
  <1>4. NewFile \in Files
    <2> HIDE DEF none
    <2> QED
      BY <1>1, <1>2, <1>3 DEF Files
  <1>5. NewFile.map = DefaultMap /\ NewFile.start = DefaultPlayerStartTag /\ NewFile.progress = Fresh
    BY <1>3
  <1> QED
    BY <1>1, <1>4, <1>5, NoFileAssumption DEF DefaultMap

\* The file after the first write.
LEMMA SavedTyped ==
    ASSUME NEW f \in Answers, NEW dest \in Maps, NEW actors \in SUBSET Actors, map \in Maps
    PROVE  LET g == Saved(f, dest, actors) IN
           /\ g \in Files /\ g # NoFile
           /\ g.map = dest /\ g.start = f.start /\ g.first = f.first /\ g.progress = f.progress
           /\ g.reached[map] = actors
           /\ \A m \in Maps \ {map} : g.reached[m] = f.reached[m]
  <1> DEFINE g == Saved(f, dest, actors)
  <1>1. f.reached \in [Maps -> SUBSET Actors]
    BY DEF Answers
  <1>2. g = [f EXCEPT !.map = dest, !.reached = [f.reached EXCEPT ![map] = actors]]
    BY <1>1 DEF Saved, Answers
  <1>3. [f.reached EXCEPT ![map] = actors] \in [Maps -> SUBSET Actors]
    BY <1>1
  <1>4. g \in Files
    BY <1>2, <1>3 DEF Answers, Files
  <1>5. /\ g.map = dest /\ g.start = f.start /\ g.first = f.first /\ g.progress = f.progress
        /\ g.reached = [f.reached EXCEPT ![map] = actors]
    BY <1>2 DEF Answers
  <1>6. /\ g.reached[map] = actors
        /\ \A m \in Maps \ {map} : g.reached[m] = f.reached[m]
    BY <1>5, <1>1
  <1> QED
    BY <1>4, <1>5, <1>6, NoFileAssumption

\* The file after the second write.
Completed(f, start, p) ==
    [[f EXCEPT !.first = FALSE] EXCEPT !.start = start, !.progress = p]

LEMMA WrittenTyped ==
    ASSUME NEW f \in Files, NEW start \in Starts, NEW p \in Progress
    PROVE  LET g == Completed(f, start, p) IN
           /\ g \in Files /\ g # NoFile
           /\ g.map = f.map /\ g.start = start /\ ~g.first /\ g.progress = p
           /\ g.reached = f.reached
  <1> DEFINE g == Completed(f, start, p)
  <1> USE DEF Completed
  <1>1. g \in Files
    BY DEF Files
  <1>2. /\ g.map = f.map /\ g.start = start /\ ~g.first /\ g.progress = p
        /\ g.reached = f.reached
    BY DEF Files
  <1> QED
    BY <1>1, <1>2, NoFileAssumption

\* The load screen opens over what is on the disk.
LEMMA MenuOpens ==
    ASSUME SaveInv, OpenMenu(disk), UNCHANGED disk,
           gi' \in [slot : Slots \cup {NoSlot}, start : Starts \cup {NoTag}],
           torn' \in SUBSET Slots,
           \A s \in Slots : phase = "save" /\ gi.slot = s /\ pending.map # NoMap => s \in torn',
           torn \subseteq torn'
    PROVE  SaveInv'
  <1>1. phase' = "menu" /\ vm' = LoadData(disk) /\ selected' = NoSlot /\ NoWorld
    BY DEF OpenMenu
  <1>2. disk \in [Slots -> Files \cup {NoFile}]
    BY DEF SaveInv, TypeOK
  <1>3. ASSUME NEW s \in Slots
        PROVE  /\ vm'[s] \in ViewModels
               /\ vm'[s].status = "Taken" => vm'[s].map \in Maps
               /\ disk[s] # NoFile => vm'[s].map = disk[s].map /\ vm'[s].start = disk[s].start
    <2> DEFINE f == IF disk[s] = NoFile THEN FreshFile ELSE disk[s]
    <2>1. vm'[s] = [status |-> f.status, map |-> f.map, start |-> f.start]
      BY <1>1 DEF LoadData
    <2>2. CASE disk[s] = NoFile
      BY <2>1, <2>2 DEF FreshFile, ViewModels
    <2>3. CASE disk[s] # NoFile
      <3>1. f = disk[s] /\ f \in Files
        BY <1>2, <2>3
      <3> QED
        BY <2>1, <2>3, <3>1 DEF Files, ViewModels
    <2> QED
      BY <2>2, <2>3
  <1>4. vm' \in [Slots -> ViewModels]
    BY <1>1, <1>3 DEF LoadData
  <1>5. TypeOK'
    BY <1>1, <1>2, <1>4, SaveAssumption DEF NoWorld, TypeOK, Progress, Fresh
  <1>6. MenuShowsFiles'
    BY <1>1, <1>3 DEF MenuShowsFiles
  <1>7. StartInMap'
    BY <1>1 DEF SaveInv, StartInMap
  <1>8. FreshAtFirst'
    BY <1>1 DEF NoWorld, SaveInv, FreshAtFirst
  <1> QED
    BY <1>1, <1>5, <1>6, <1>7, <1>8
    DEF SaveInv, WorldKnown, FileOfWorld, BetweenWrites, ReachedInWorld

----------------------------------------------------------------------------
(* The load screen.                                                        *)

LEMMA NewSlotInv ==
    ASSUME SaveInv, NEW s \in Slots, NewSlotButtonPressed(s)
    PROVE  SaveInv'
  <1>1. /\ phase = "menu" /\ phase' = "menu" /\ UNCHANGED <<selected, world>>
        /\ vm' = [vm EXCEPT ![s] = [status |-> "Taken", map |-> DefaultMap,
                                    start |-> DefaultPlayerStartTag]]
        /\ disk' = [disk EXCEPT ![s] = NewFile]
        /\ gi' = [slot |-> s, start |-> DefaultPlayerStartTag]
        /\ torn' = torn \ {s}
    BY DEF NewSlotButtonPressed
  <1>2. TypeOK /\ disk \in [Slots -> Files \cup {NoFile}] /\ vm \in [Slots -> ViewModels]
    BY DEF SaveInv, TypeOK
  <1>3. /\ DefaultMap \in Maps /\ DefaultPlayerStartTag \in Starts
        /\ disk'[s] = NewFile /\ vm'[s].status = "Taken" /\ vm'[s].map = DefaultMap
        /\ vm'[s].start = DefaultPlayerStartTag /\ vm'[s] \in ViewModels
        /\ \A t \in Slots \ {s} : disk'[t] = disk[t] /\ vm'[t] = vm[t]
    BY <1>1, <1>2, NewFileTyped, SaveAssumption DEF ViewModels
  <1>4. /\ disk' \in [Slots -> Files \cup {NoFile}] /\ vm' \in [Slots -> ViewModels]
        /\ gi' \in [slot : Slots \cup {NoSlot}, start : Starts \cup {NoTag}]
    BY <1>1, <1>2, <1>3, NewFileTyped
  <1>5. TypeOK'
    BY <1>1, <1>2, <1>4 DEF TypeOK, world
  <1>6. MenuShowsFiles'
    BY <1>1, <1>2, <1>3, NewFileTyped DEF SaveInv, MenuShowsFiles, TypeOK
  <1>7. StartInMap'
    BY <1>1, <1>3, NewFileTyped DEF SaveInv, StartInMap
  <1>8. FreshAtFirst'
    BY <1>1, <1>3, NewFileTyped DEF SaveInv, FreshAtFirst, world
  <1> QED
    BY <1>1, <1>5, <1>6, <1>7, <1>8
    DEF SaveInv, WorldKnown, FileOfWorld, BetweenWrites, ReachedInWorld

LEMMA SelectSlotInv ==
    ASSUME SaveInv, NEW s \in Slots, SelectSlotButtonPressed(s)
    PROVE  SaveInv'
  <1>1. /\ phase = "menu" /\ vm[s].status = "Taken" /\ selected' = s
        /\ UNCHANGED <<disk, vm, gi, phase, world, torn>>
    BY DEF SelectSlotButtonPressed
  <1>2. TypeOK'
    BY <1>1 DEF SaveInv, TypeOK, world
  <1>3. MenuShowsFiles'
    BY <1>1 DEF SaveInv, MenuShowsFiles
  <1>4. StartInMap' /\ FreshAtFirst'
    BY <1>1 DEF SaveInv, StartInMap, FreshAtFirst, world
  <1> QED
    BY <1>1, <1>2, <1>3, <1>4
    DEF SaveInv, WorldKnown, FileOfWorld, BetweenWrites, ReachedInWorld

LEMMA DeleteInv ==
    ASSUME SaveInv, DeleteButtonPressed
    PROVE  SaveInv'
  <1>1. /\ phase = "menu" /\ phase' = "menu" /\ UNCHANGED <<selected, gi, world>>
        /\ disk' = [disk EXCEPT ![selected] = NoFile]
        /\ vm' = [vm EXCEPT ![selected].status = "Vacant"]
        /\ torn' = torn \ {selected}
    BY DEF DeleteButtonPressed
  <1>2. /\ selected \in Slots
        /\ TypeOK /\ disk \in [Slots -> Files \cup {NoFile}] /\ vm \in [Slots -> ViewModels]
    BY DEF DeleteButtonPressed, SaveInv, TypeOK
  <1>3. /\ disk'[selected] = NoFile
        /\ \A t \in Slots \ {selected} : disk'[t] = disk[t] /\ vm'[t] = vm[t]
    BY <1>1, <1>2
  <1>4. /\ vm'[selected] \in ViewModels
        /\ vm'[selected].status = "Vacant" /\ vm'[selected].map = vm[selected].map
    <2>1. vm'[selected] = [vm[selected] EXCEPT !.status = "Vacant"]
      BY <1>1, <1>2
    <2>2. vm[selected] \in ViewModels
      BY <1>2
    <2> QED
      BY <2>1, <2>2 DEF ViewModels
  <1>5. disk' \in [Slots -> Files \cup {NoFile}] /\ vm' \in [Slots -> ViewModels]
    <2>1. \A t \in Slots : vm'[t] \in ViewModels
      BY <1>2, <1>3, <1>4
    <2>2. vm' = [t \in Slots |-> vm'[t]]
      BY <1>1, <1>2
    <2> QED
      BY <1>1, <1>2, <2>1, <2>2
  <1>6. TypeOK'
    BY <1>1, <1>2, <1>5 DEF TypeOK, world
  <1>7. MenuShowsFiles'
    BY <1>1, <1>2, <1>3, <1>4 DEF SaveInv, MenuShowsFiles
  <1>8. StartInMap' /\ FreshAtFirst'
    BY <1>1, <1>3 DEF SaveInv, StartInMap, FreshAtFirst, world
  <1> QED
    BY <1>1, <1>6, <1>7, <1>8
    DEF SaveInv, WorldKnown, FileOfWorld, BetweenWrites, ReachedInWorld

LEMMA PlayInv ==
    ASSUME SaveInv, PlayButtonPressed
    PROVE  SaveInv'
  <1>1. /\ phase = "menu" /\ phase' = "travel" /\ map' = vm[selected].map
        /\ gi' = [slot |-> selected, start |-> vm[selected].start]
        /\ UNCHANGED <<disk, vm, selected, reached, gone, progress, pending, torn>>
    BY DEF PlayButtonPressed
  <1>2. selected \in Slots /\ vm[selected] \in ViewModels /\ vm[selected].map \in Maps
    BY DEF PlayButtonPressed, SaveInv, TypeOK, MenuShowsFiles
  <1>3. /\ gi' \in [slot : Slots \cup {NoSlot}, start : Starts \cup {NoTag}]
        /\ gi'.slot = selected /\ gi'.start = vm[selected].start
    BY <1>1, <1>2 DEF ViewModels
  <1>4. TypeOK'
    BY <1>1, <1>2, <1>3 DEF SaveInv, TypeOK
  <1>5. WorldKnown' /\ FileOfWorld'
    BY <1>1, <1>2, <1>3 DEF SaveInv, MenuShowsFiles, WorldKnown, FileOfWorld
  <1>6. StartInMap' /\ FreshAtFirst'
    BY <1>1 DEF SaveInv, StartInMap, FreshAtFirst
  <1> QED
    BY <1>1, <1>4, <1>5, <1>6 DEF SaveInv, MenuShowsFiles, BetweenWrites, ReachedInWorld

----------------------------------------------------------------------------
(* A world.                                                                *)

LEMMA PossessedInv ==
    ASSUME SaveInv, PossessedBy
    PROVE  SaveInv'
  <1> DEFINE f == GetSaveSlotData(gi.slot)
  <1>1. /\ phase = "travel" /\ phase' = "play"
        /\ progress' = (IF f.first THEN Fresh ELSE f.progress)
        /\ reached' = f.reached[map] \ Destroyed(f) /\ gone' = Destroyed(f)
        /\ UNCHANGED <<disk, vm, selected, gi, map, pending, torn>>
    BY DEF PossessedBy, Loaded
  <1>2. /\ gi.slot \in Slots /\ map \in Maps /\ f \in Answers /\ f.reached[map] \subseteq Actors
    <2>1. gi.slot \in Slots /\ map \in Maps
      BY <1>1 DEF SaveInv, WorldKnown
    <2>2. f \in Answers
      BY <2>1, AnswerTyped DEF SaveInv
    <2> QED
      BY <2>1, <2>2 DEF Answers
  <1>3. progress' \in Progress
    BY <1>1, <1>2, SaveAssumption DEF Answers, Progress, Fresh
  <1>4. reached' \subseteq Actors /\ gone' \subseteq Volumes
    BY <1>1, <1>2 DEF Destroyed
  <1>5. TypeOK'
    BY <1>1, <1>3, <1>4 DEF SaveInv, TypeOK
  <1>6. WorldKnown' /\ FileOfWorld'
    BY <1>1, <1>2 DEF SaveInv, WorldKnown, FileOfWorld
  <1>7. ReachedInWorld'
    <2>1. GetSaveSlotData(gi.slot)' = f
      BY <1>1 DEF GetSaveSlotData
    <2> QED
      BY <1>1, <2>1 DEF ReachedInWorld
  <1>8. StartInMap' /\ FreshAtFirst'
    BY <1>1 DEF SaveInv, StartInMap, FreshAtFirst
  <1> QED
    BY <1>1, <1>5, <1>6, <1>7, <1>8 DEF SaveInv, MenuShowsFiles, BetweenWrites

\* A step of a world that leaves the disk alone.
LEMMA WorldStepInv ==
    ASSUME SaveInv, phase = "play", phase' \in {"play", "dead"},
           progress' \in Progress, reached' \in SUBSET Actors, reached \subseteq reached',
           UNCHANGED <<disk, vm, selected, gi, map, gone, pending, torn>>
    PROVE  SaveInv'
  <1>1. TypeOK'
    BY DEF SaveInv, TypeOK
  <1>2. WorldKnown' /\ FileOfWorld' /\ StartInMap' /\ FreshAtFirst'
    BY DEF SaveInv, WorldKnown, FileOfWorld, StartInMap, FreshAtFirst
  <1>3. ReachedInWorld'
    <2>1. GetSaveSlotData(gi.slot)' = GetSaveSlotData(gi.slot)
      BY DEF GetSaveSlotData
    <2> QED
      BY <2>1 DEF SaveInv, ReachedInWorld
  <1> QED
    BY <1>1, <1>2, <1>3 DEF SaveInv, MenuShowsFiles, BetweenWrites

LEMMA GainInv ==
    ASSUME SaveInv, GainProgress
    PROVE  SaveInv'
  <1>1. progress' \in Progress
    BY SaveAssumption DEF SaveInv, TypeOK, GainProgress, Progress
  <1> QED
    BY <1>1, WorldStepInv DEF GainProgress, SaveInv, TypeOK

LEMMA BoxInv ==
    ASSUME SaveInv, NEW v \in Volumes, OnBoxOverlap(v)
    PROVE  SaveInv'
  BY WorldStepInv DEF OnBoxOverlap, SaveInv, TypeOK, Actors

LEMMA DieInv ==
    ASSUME SaveInv, Die
    PROVE  SaveInv'
  BY WorldStepInv DEF Die, world, SaveInv, TypeOK

\* The first write, of a checkpoint or an entrance.
LEMMA FirstWrite ==
    ASSUME SaveInv, phase = "play",
           NEW dest \in Maps, NEW start \in Starts, NEW travel \in Maps \cup {NoMap},
           Home[start] = dest, dest = (IF travel = NoMap THEN map ELSE travel),
           NEW actors \in SUBSET Actors, reached' = actors, reached \subseteq actors,
           SaveWorldState(dest, start, travel, actors)
    PROVE  SaveInv'
  <1> DEFINE f == GetSaveSlotData(gi.slot)
             g == Saved(f, dest, actors)
  <1>1. /\ disk' = [disk EXCEPT ![gi.slot] = g]
        /\ pending' = [start |-> start, map |-> travel]
        /\ phase' = "save"
        /\ UNCHANGED <<vm, selected, gi, map, gone, progress, torn>>
    BY DEF SaveWorldState
  <1>2. /\ TypeOK /\ gi.slot \in Slots /\ map \in Maps
        /\ disk \in [Slots -> Files \cup {NoFile}]
    BY DEF SaveInv, TypeOK, WorldKnown
  <1>3. f \in Answers
    BY <1>2, AnswerTyped
  <1>4. /\ g \in Files /\ g # NoFile /\ g.map = dest /\ g.start = f.start
        /\ g.first = f.first /\ g.progress = f.progress /\ g.reached[map] = actors
    BY <1>2, <1>3, SavedTyped
  <1> HIDE DEF g
  <1>5. disk'[gi.slot] = g /\ \A t \in Slots \ {gi.slot} : disk'[t] = disk[t]
    BY <1>1, <1>2
  <1>6. TypeOK'
    <2>1. disk' \in [Slots -> Files \cup {NoFile}]
      BY <1>1, <1>2, <1>4
    <2>2. /\ pending' \in [start : Starts \cup {NoTag}, map : Maps \cup {NoMap}]
          /\ pending'.start = start /\ pending'.map = travel
      BY <1>1
    <2> QED
      BY <1>1, <1>2, <2>1, <2>2 DEF TypeOK
  <1>7. WorldKnown' /\ BetweenWrites'
    <2>1. gi'.slot = gi.slot /\ pending'.start = start /\ pending'.map = travel
      BY <1>1
    <2> QED
      BY <1>1, <1>2, <1>4, <1>5, <2>1 DEF WorldKnown, BetweenWrites
  <1>8. ReachedInWorld'
    <2>1. GetSaveSlotData(gi.slot)' = g
      BY <1>1, <1>4, <1>5 DEF GetSaveSlotData
    <2> QED
      BY <1>1, <1>4, <2>1 DEF ReachedInWorld
  <1>9. StartInMap'
    <2> SUFFICES ASSUME NEW s \in Slots
                 PROVE  \/ disk'[s] = NoFile \/ disk'[s].start = NoTag
                        \/ s \in torn' \/ (phase' = "save" /\ gi'.slot = s /\ pending'.map # NoMap)
                        \/ Home[disk'[s].start] = disk'[s].map
      BY DEF StartInMap
    <2>1. CASE s # gi.slot
      BY <1>1, <1>5, <2>1 DEF SaveInv, StartInMap
    <2>2. CASE s = gi.slot /\ travel # NoMap
      BY <1>1, <2>2
    <2>3. CASE s = gi.slot /\ travel = NoMap /\ disk[s] = NoFile
      BY <1>2, <1>4, <1>5, <2>3, AnswerTyped DEF FreshFile
    <2>4. CASE s = gi.slot /\ travel = NoMap /\ disk[s] # NoFile
      <3>1. f = disk[s] /\ disk[s].map = map /\ dest = map
        BY <1>2, <2>4, AnswerTyped DEF SaveInv, FileOfWorld
      <3>2. disk[s].start = NoTag \/ s \in torn \/ Home[disk[s].start] = disk[s].map
        BY <2>4 DEF SaveInv, StartInMap
      <3> QED
        BY <1>1, <1>4, <1>5, <2>4, <3>1, <3>2
    <2> QED
      BY <2>1, <2>2, <2>3, <2>4
  <1>10. FreshAtFirst'
    <2>1. f.first => f.progress = Fresh
      <3>1. CASE disk[gi.slot] = NoFile
        BY <1>2, <3>1, AnswerTyped DEF FreshFile
      <3>2. CASE disk[gi.slot] # NoFile
        BY <1>2, <3>2, AnswerTyped DEF SaveInv, FreshAtFirst
      <3> QED
        BY <3>1, <3>2
    <2> QED
      BY <1>1, <1>4, <1>5, <2>1 DEF SaveInv, FreshAtFirst
  <1> QED
    BY <1>1, <1>6, <1>7, <1>8, <1>9, <1>10 DEF SaveInv, MenuShowsFiles, FileOfWorld

LEMMA CheckpointInv ==
    ASSUME SaveInv, NEW c \in Checkpoints, OnCheckpointOverlap(c)
    PROVE  SaveInv'
  <1>1. /\ phase = "play" /\ Home[c] = map /\ reached' = reached \cup {c}
        /\ SaveWorldState(map, c, NoMap, reached \cup {c})
    BY DEF OnCheckpointOverlap
  <1>2. map \in Maps /\ c \in Starts /\ reached \cup {c} \in SUBSET Actors
    BY <1>1, SaveAssumption DEF SaveInv, WorldKnown, TypeOK, Actors
  <1> QED
    BY <1>1, <1>2, FirstWrite

LEMMA EntranceInv ==
    ASSUME SaveInv, NEW e \in Entrances, OnEntranceOverlap(e)
    PROVE  SaveInv'
  <1> DEFINE dest  == DestinationMap(e)
             start == DestinationPlayerStartTag[e]
  <1>1. /\ phase = "play" /\ reached' = reached /\ SaveWorldState(dest, start, dest, reached)
    BY DEF OnEntranceOverlap
  <1>2. start \in Starts /\ dest \in Maps /\ Home[start] = dest /\ dest # NoMap
    BY SaveAssumption DEF DestinationMap
  <1>3. reached \in SUBSET Actors
    BY DEF SaveInv, TypeOK
  <1> HIDE DEF dest, start
  <1> QED
    BY <1>1, <1>2, <1>3, FirstWrite

\* What the second write does.
LEMMA SecondWrite ==
    ASSUME SaveInv, SaveProgress
    PROVE  /\ phase = "save" /\ gi.slot \in Slots /\ map \in Maps
           /\ disk[gi.slot] \in Files /\ disk[gi.slot] # NoFile
           /\ disk' \in [Slots -> Files \cup {NoFile}]
           /\ \A t \in Slots \ {gi.slot} : disk'[t] = disk[t]
           /\ disk'[gi.slot] # NoFile
           /\ disk'[gi.slot].map = disk[gi.slot].map
           /\ disk'[gi.slot].start = pending.start
           /\ ~disk'[gi.slot].first /\ disk'[gi.slot].progress = progress
           /\ disk'[gi.slot].reached = disk[gi.slot].reached
           /\ GetSaveSlotData(gi.slot) = disk[gi.slot]
           /\ gi' = [gi EXCEPT !.start = pending.start]
           /\ torn' = torn \ {gi.slot} /\ pending' = [start |-> NoTag, map |-> NoMap]
           /\ UNCHANGED <<vm, selected>>
           /\ pending.map = NoMap => phase' = "play" /\ UNCHANGED <<map, reached, gone, progress>>
           /\ pending.map # NoMap =>
                  /\ phase' = "travel" /\ map' = pending.map /\ reached' = {} /\ gone' = {}
                  /\ progress' = Fresh
  <1> DEFINE f == disk[gi.slot]
             g == Completed(f, pending.start, progress)
  <1>1. /\ phase = "save"
        /\ gi' = [gi EXCEPT !.start = pending.start]
        /\ torn' = torn \ {gi.slot} /\ pending' = [start |-> NoTag, map |-> NoMap]
        /\ UNCHANGED <<vm, selected>>
        /\ pending.map = NoMap => phase' = "play" /\ UNCHANGED <<map, reached, gone, progress>>
        /\ pending.map # NoMap =>
               /\ phase' = "travel" /\ map' = pending.map /\ reached' = {} /\ gone' = {}
               /\ progress' = Fresh
    BY DEF SaveProgress, Written
  <1>2. /\ TypeOK /\ gi.slot \in Slots /\ map \in Maps /\ f # NoFile /\ pending.start \in Starts
        /\ disk \in [Slots -> Files \cup {NoFile}] /\ progress \in Progress
    BY <1>1 DEF SaveInv, TypeOK, WorldKnown, BetweenWrites
  <1>3. GetSaveSlotData(gi.slot) = f /\ f \in Files
    BY <1>2, AnswerTyped
  <1>4. disk' = [disk EXCEPT ![gi.slot] = g]
    BY <1>3 DEF SaveProgress, Written, Completed
  <1>5. /\ g \in Files /\ g # NoFile /\ g.map = f.map /\ g.start = pending.start
        /\ ~g.first /\ g.progress = progress /\ g.reached = f.reached
    <2>1. f \in Files /\ pending.start \in Starts /\ progress \in Progress
      BY <1>2, <1>3
    <2> HIDE DEF f
    <2> QED
      BY <2>1, WrittenTyped
  <1> HIDE DEF g
  <1>6. /\ disk'[gi.slot] = g /\ \A t \in Slots \ {gi.slot} : disk'[t] = disk[t]
        /\ disk' \in [Slots -> Files \cup {NoFile}]
    BY <1>2, <1>4, <1>5
  <1> QED
    BY <1>1, <1>2, <1>3, <1>5, <1>6

LEMMA SaveProgressInv ==
    ASSUME SaveInv, SaveProgress
    PROVE  SaveInv'
  <1>1. /\ TypeOK /\ pending.start \in Starts /\ Home[pending.start] = disk[gi.slot].map
        /\ disk[gi.slot].map = (IF pending.map = NoMap THEN map ELSE pending.map)
        /\ pending.map \in Maps \cup {NoMap}
    BY SecondWrite DEF SaveInv, TypeOK, BetweenWrites
  <1>2. gi' \in [slot : Slots \cup {NoSlot}, start : Starts \cup {NoTag}]
        /\ gi'.slot = gi.slot /\ gi'.start = pending.start
    BY <1>1, SecondWrite DEF TypeOK
  <1>3. TypeOK'
    <2>1. pending' \in [start : Starts \cup {NoTag}, map : Maps \cup {NoMap}]
      BY SecondWrite
    <2>2. /\ map' \in Maps /\ reached' \subseteq Actors /\ gone' \subseteq Volumes
          /\ progress' \in Progress /\ phase' \in {"play", "travel"}
      BY <1>1, SecondWrite, SaveAssumption DEF TypeOK, Progress, Fresh
    <2> QED
      BY <1>1, <1>2, <2>1, <2>2, SecondWrite DEF TypeOK
  <1>4. WorldKnown' /\ FileOfWorld'
    BY <1>1, <1>2, SecondWrite DEF WorldKnown, FileOfWorld
  <1>5. StartInMap'
    <2> SUFFICES ASSUME NEW s \in Slots
                 PROVE  \/ disk'[s] = NoFile \/ disk'[s].start = NoTag \/ s \in torn'
                        \/ Home[disk'[s].start] = disk'[s].map
      BY DEF StartInMap
    <2>1. CASE s = gi.slot
      BY <1>1, <2>1, SecondWrite
    <2>2. CASE s # gi.slot
      BY <2>2, SecondWrite DEF SaveInv, StartInMap
    <2> QED
      BY <2>1, <2>2
  <1>6. ReachedInWorld'
    <2>1. CASE pending.map = NoMap
      <3>1. GetSaveSlotData(gi.slot)'.reached = GetSaveSlotData(gi.slot).reached
        BY <1>2, SecondWrite DEF GetSaveSlotData
      <3> QED
        BY <1>2, <2>1, <3>1, SecondWrite DEF SaveInv, ReachedInWorld
    <2>2. CASE pending.map # NoMap
      BY <2>2, SecondWrite DEF ReachedInWorld
    <2> QED
      BY <2>1, <2>2
  <1>7. FreshAtFirst'
    BY SecondWrite DEF SaveInv, FreshAtFirst
  <1>8. phase' # "menu" /\ phase' # "save"
    BY SecondWrite
  <1> QED
    BY <1>3, <1>4, <1>5, <1>6, <1>7, <1>8 DEF SaveInv, MenuShowsFiles, BetweenWrites

LEMMA PlayerDiedInv ==
    ASSUME SaveInv, PlayerDied
    PROVE  SaveInv'
  <1>1. /\ phase = "dead" /\ UNCHANGED <<disk, gi, torn>>
        /\ TypeOK /\ gi.slot \in Slots
    BY DEF PlayerDied, SaveInv, WorldKnown
  <1>2. CASE disk[gi.slot] = NoFile
    <2>1. OpenMenu(disk)
      BY <1>2 DEF PlayerDied
    <2> QED
      BY <1>1, <2>1, MenuOpens DEF TypeOK
  <1>3. CASE disk[gi.slot] # NoFile
    <2>1. /\ phase' = "travel" /\ map' = disk[gi.slot].map
          /\ reached' = {} /\ gone' = {} /\ progress' = Fresh
          /\ UNCHANGED <<vm, selected, pending>>
      BY <1>3 DEF PlayerDied
    <2>2. map' \in Maps
      BY <1>1, <1>3, <2>1, AnswerTyped DEF Files
    <2>3. TypeOK'
      BY <1>1, <2>1, <2>2, SaveAssumption DEF TypeOK, Progress, Fresh
    <2>4. WorldKnown' /\ FileOfWorld'
      BY <1>1, <1>3, <2>1, <2>2 DEF SaveInv, WorldKnown, FileOfWorld
    <2>5. StartInMap' /\ FreshAtFirst'
      BY <1>1, <2>1 DEF SaveInv, StartInMap, FreshAtFirst
    <2> QED
      BY <2>1, <2>3, <2>4, <2>5 DEF SaveInv, MenuShowsFiles, BetweenWrites, ReachedInWorld
  <1> QED
    BY <1>2, <1>3

LEMMA CrashInv ==
    ASSUME SaveInv, Crash
    PROVE  SaveInv'
  <1>1. /\ OpenMenu(disk) /\ UNCHANGED disk
        /\ gi' \in [slot : Slots \cup {NoSlot}, start : Starts \cup {NoTag}]
    BY DEF Crash
  <1>2. CASE phase = "save" /\ pending.map # NoMap
    <2>1. torn' = torn \cup {gi.slot} /\ gi.slot \in Slots
      BY <1>2 DEF Crash, SaveInv, WorldKnown
    <2> QED
      BY <1>1, <2>1, MenuOpens DEF SaveInv, TypeOK
  <1>3. CASE ~(phase = "save" /\ pending.map # NoMap)
    <2>1. torn' = torn
      BY <1>3 DEF Crash
    <2> QED
      BY <1>1, <1>3, <2>1, MenuOpens DEF SaveInv, TypeOK
  <1> QED
    BY <1>2, <1>3

LEMMA SaveInit == Init => SaveInv
  <1> SUFFICES ASSUME Init
               PROVE  SaveInv
    OBVIOUS
  <1>1. TypeOK
    BY SaveAssumption DEF Init, TypeOK, ViewModels, Progress, Fresh
  <1>2. MenuShowsFiles
    BY DEF Init, MenuShowsFiles
  <1>3. StartInMap /\ FreshAtFirst
    BY DEF Init, StartInMap, FreshAtFirst
  <1> QED
    BY <1>1, <1>2, <1>3
    DEF Init, SaveInv, WorldKnown, FileOfWorld, BetweenWrites, ReachedInWorld

LEMMA SaveStep == SaveInv /\ [Next]_vars => SaveInv'
  <1> SUFFICES ASSUME SaveInv, [Next]_vars
               PROVE  SaveInv'
    OBVIOUS
  <1>1. ASSUME NEW s \in Slots, NewSlotButtonPressed(s) \/ SelectSlotButtonPressed(s)
        PROVE  SaveInv'
    BY <1>1, NewSlotInv, SelectSlotInv
  <1>2. CASE DeleteButtonPressed \/ PlayButtonPressed
    BY <1>2, DeleteInv, PlayInv
  <1>3. CASE PossessedBy \/ GainProgress \/ Die
    BY <1>3, PossessedInv, GainInv, DieInv
  <1>4. ASSUME NEW c \in Checkpoints, OnCheckpointOverlap(c)
        PROVE  SaveInv'
    BY <1>4, CheckpointInv
  <1>5. ASSUME NEW e \in Entrances, OnEntranceOverlap(e)
        PROVE  SaveInv'
    BY <1>5, EntranceInv
  <1>6. CASE SaveProgress
    BY <1>6, SaveProgressInv
  <1>7. ASSUME NEW v \in Volumes, OnBoxOverlap(v)
        PROVE  SaveInv'
    BY <1>7, BoxInv
  <1>8. CASE PlayerDied \/ Crash
    BY <1>8, PlayerDiedInv, CrashInv
  <1>9. CASE UNCHANGED vars
    BY <1>9 DEF vars, SaveInv, TypeOK, WorldKnown, MenuShowsFiles, FileOfWorld, BetweenWrites,
                StartInMap, ReachedInWorld, FreshAtFirst, GetSaveSlotData
  <1> QED
    BY <1>1, <1>2, <1>3, <1>4, <1>5, <1>6, <1>7, <1>8, <1>9 DEF Next

LEMMA SaveInvariant == Spec => []SaveInv
  BY SaveInit, SaveStep, PTL DEF Spec

----------------------------------------------------------------------------
(* Files, view models and the game instance keep their types: no file      *)
(* names a map that does not exist.                                        *)
THEOREM SaveTypeCorrect == Spec => []TypeOK
  <1>1. SaveInv => TypeOK
    BY DEF SaveInv
  <1> QED
    BY <1>1, SaveInvariant, PTL

(* A death leads back to the map and the start of the last save.           *)
THEOREM DeathsLeadBack == Spec => []DeathLeadsBack
  <1>1. SaveInv => DeathLeadsBack
    BY DEF SaveInv, FileOfWorld, DeathLeadsBack
  <1> QED
    BY <1>1, SaveInvariant, PTL

(* Map and start of a file belong together, except around the two writes   *)
(* of an entrance.                                                         *)
THEOREM StartsInMap == Spec => []StartInMap
  <1>1. SaveInv => StartInMap
    BY DEF SaveInv
  <1> QED
    BY <1>1, SaveInvariant, PTL

----------------------------------------------------------------------------
(* What a first write leaves of the actors in the files.                   *)
LEMMA FirstWriteReached ==
    ASSUME SaveInv, phase = "play", NEW dest \in Maps, NEW start, NEW travel,
           NEW actors \in SUBSET Actors, reached \subseteq actors,
           SaveWorldState(dest, start, travel, actors),
           NEW s \in Slots, NEW c \in Checkpoints, disk[s] # NoFile, c \in disk[s].reached[Home[c]]
    PROVE  c \in disk'[s].reached[Home[c]]
  <1> DEFINE f == GetSaveSlotData(gi.slot)
             g == Saved(f, dest, actors)
  <1>1. /\ disk' = [disk EXCEPT ![gi.slot] = g]
        /\ gi.slot \in Slots /\ map \in Maps /\ disk \in [Slots -> Files \cup {NoFile}]
        /\ Home[c] \in Maps /\ f \in Answers
    <2>1. gi.slot \in Slots /\ map \in Maps /\ disk \in [Slots -> Files \cup {NoFile}]
      BY DEF SaveInv, WorldKnown, TypeOK
    <2>2. Home[c] \in Maps
      BY SaveAssumption
    <2>3. f \in Answers
      BY <2>1, AnswerTyped DEF SaveInv
    <2> QED
      BY <2>1, <2>2, <2>3 DEF SaveWorldState
  <1>2. g.reached[map] = actors /\ \A m \in Maps \ {map} : g.reached[m] = f.reached[m]
    BY <1>1, SavedTyped
  <1> HIDE DEF g
  <1>3. disk'[gi.slot] = g /\ \A t \in Slots \ {gi.slot} : disk'[t] = disk[t]
    BY <1>1
  <1>4. CASE s # gi.slot
    BY <1>3, <1>4
  <1>5. CASE s = gi.slot
    <2>1. f = disk[s]
      BY <1>5, AnswerTyped DEF SaveInv
    <2>2. CASE Home[c] = map
      <3>1. c \in reached \cup gone
        BY <2>1, <2>2 DEF SaveInv, ReachedInWorld
      <3>2. c \notin gone
        BY SaveAssumption DEF SaveInv, TypeOK
      <3> QED
        BY <1>2, <1>3, <1>5, <2>2, <3>1, <3>2
    <2>3. CASE Home[c] # map
      BY <1>1, <1>2, <1>3, <1>5, <2>1, <2>3
    <2> QED
      BY <2>2, <2>3
  <1> QED
    BY <1>4, <1>5

(* While games are played no save forgets a checkpoint that a file holds   *)
(* as reached, in this map, in others or in other slots.                   *)
THEOREM CheckpointsKept == Spec => CheckpointsStayReached
  <1>1. SaveInv /\ [Next]_vars =>
            [\A s \in Slots, c \in Checkpoints :
                phase # "menu" /\ disk[s] # NoFile /\ c \in disk[s].reached[Home[c]]
                => c \in disk'[s].reached[Home[c]]]_vars
    <2> SUFFICES ASSUME SaveInv, Next, phase # "menu", NEW s \in Slots, NEW c \in Checkpoints,
                        disk[s] # NoFile, c \in disk[s].reached[Home[c]]
                 PROVE  c \in disk'[s].reached[Home[c]]
      OBVIOUS
    <2>1. CASE UNCHANGED disk
      BY <2>1
    <2>2. ASSUME NEW d \in Checkpoints, OnCheckpointOverlap(d)
          PROVE  c \in disk'[s].reached[Home[c]]
      <3>1. reached \cup {d} \in SUBSET Actors /\ map \in Maps
        BY DEF SaveInv, TypeOK, WorldKnown, Actors
      <3> QED
        BY <2>2, <3>1, FirstWriteReached DEF OnCheckpointOverlap
    <2>3. ASSUME NEW e \in Entrances, OnEntranceOverlap(e)
          PROVE  c \in disk'[s].reached[Home[c]]
      <3>1. reached \in SUBSET Actors /\ DestinationMap(e) \in Maps
        BY SaveAssumption DEF SaveInv, TypeOK, DestinationMap
      <3> QED
        BY <2>3, <3>1, FirstWriteReached DEF OnEntranceOverlap
    <2>4. CASE SaveProgress
      BY <2>4, SecondWrite
    <2>5. CASE PossessedBy \/ GainProgress \/ Die \/ PlayerDied \/ Crash
      BY <2>5, <2>1 DEF PossessedBy, Loaded, GainProgress, Die, PlayerDied, Crash
    <2>6. ASSUME NEW v \in Volumes, OnBoxOverlap(v)
          PROVE  UNCHANGED disk
      BY <2>6 DEF OnBoxOverlap
    <2> QED
      BY <2>1, <2>2, <2>3, <2>4, <2>5, <2>6
      DEF Next, NewSlotButtonPressed, SelectSlotButtonPressed, DeleteButtonPressed, PlayButtonPressed
  <1> QED
    BY <1>1, SaveInvariant, PTL DEF Spec, CheckpointsStayReached

(* A volume that the file of the game holds as reached does not spawn its  *)
(* enemies, in the worlds loaded from that file and after every save.      *)
THEOREM VolumesStayEmpty == Spec => RecordedNotRespawned
  <1>1. SaveInv /\ [Next]_vars =>
            [\A v \in Volumes : v \notin reached /\ v \in reached'
                => v \notin GetSaveSlotData(gi.slot).reached[Home[v]]]_vars
    <2> SUFFICES ASSUME SaveInv, Next, NEW v \in Volumes, v \notin reached, v \in reached'
                 PROVE  v \notin GetSaveSlotData(gi.slot).reached[Home[v]]
      OBVIOUS
    <2>1. ASSUME NEW w \in Volumes, OnBoxOverlap(w)
          PROVE  v \notin GetSaveSlotData(gi.slot).reached[Home[v]]
      BY <2>1 DEF OnBoxOverlap, SaveInv, ReachedInWorld
    <2>2. ASSUME NEW c \in Checkpoints, OnCheckpointOverlap(c)
          PROVE  FALSE
      BY <2>2, SaveAssumption DEF OnCheckpointOverlap
    <2>3. CASE PossessedBy
      BY <2>3 DEF PossessedBy, Loaded, Destroyed
    <2>4. CASE SaveProgress
      BY <2>4, SecondWrite DEF SaveInv, TypeOK
    <2>5. ASSUME NEW e \in Entrances, OnEntranceOverlap(e)
          PROVE  FALSE
      BY <2>5 DEF OnEntranceOverlap
    <2>6. CASE DeleteButtonPressed \/ PlayButtonPressed \/ GainProgress \/ Die \/ PlayerDied \/ Crash
      BY <2>6 DEF DeleteButtonPressed, PlayButtonPressed, GainProgress, Die, PlayerDied, Crash,
                  OpenMenu, NoWorld, world
    <2>7. ASSUME NEW s \in Slots, NewSlotButtonPressed(s) \/ SelectSlotButtonPressed(s)
          PROVE  FALSE
      BY <2>7 DEF NewSlotButtonPressed, SelectSlotButtonPressed, world
    <2> QED
      BY <2>1, <2>2, <2>3, <2>4, <2>5, <2>6, <2>7 DEF Next
  <1> QED
    BY <1>1, SaveInvariant, PTL DEF Spec, RecordedNotRespawned

----------------------------------------------------------------------------
(* The program implements SavedGames.                                      *)

Kept    == [s \in Slots |-> GetSaveSlotData(s).progress]
Playing == IF phase \in {"play", "save", "dead"} THEN gi.slot ELSE NoSlot

\* One slot's file changes.
LEMMA KeptExcept ==
    ASSUME NEW s \in Slots, NEW p, GetSaveSlotData(s)'.progress = p,
           \A t \in Slots \ {s} : disk'[t] = disk[t]
    PROVE  Kept' = [Kept EXCEPT ![s] = p]
  <1>1. \A t \in Slots \ {s} : GetSaveSlotData(t)' = GetSaveSlotData(t)
    BY DEF GetSaveSlotData
  <1>2. \A t \in Slots : Kept'[t] = [Kept EXCEPT ![s] = p][t]
    BY <1>1 DEF Kept
  <1> QED
    BY <1>2 DEF Kept

LEMMA FirstWriteKept ==
    ASSUME SaveInv, phase = "play", NEW dest \in Maps, NEW start, NEW travel,
           NEW actors \in SUBSET Actors, SaveWorldState(dest, start, travel, actors)
    PROVE  UNCHANGED <<Kept, Playing, progress>>
  <1> DEFINE f == GetSaveSlotData(gi.slot)
             g == Saved(f, dest, actors)
  <1>1. /\ disk' = [disk EXCEPT ![gi.slot] = g] /\ phase' = "save" /\ UNCHANGED <<gi, progress>>
        /\ gi.slot \in Slots /\ map \in Maps /\ TypeOK /\ disk \in [Slots -> Files \cup {NoFile}]
    BY DEF SaveInv, WorldKnown, TypeOK, SaveWorldState
  <1>2. f \in Answers
    BY <1>1, AnswerTyped
  <1>3. g # NoFile /\ g.progress = f.progress
    BY <1>1, <1>2, SavedTyped
  <1> HIDE DEF g
  <1>4. disk'[gi.slot] = g /\ \A t \in Slots \ {gi.slot} : disk'[t] = disk[t]
    BY <1>1
  <1>5. GetSaveSlotData(gi.slot)'.progress = f.progress
    BY <1>1, <1>3, <1>4 DEF GetSaveSlotData
  <1>6. \A t \in Slots : GetSaveSlotData(t)'.progress = GetSaveSlotData(t).progress
    BY <1>1, <1>4, <1>5 DEF GetSaveSlotData
  <1>7. Kept' = Kept
    BY <1>6 DEF Kept
  <1> QED
    BY <1>1, <1>7 DEF Playing

\* What a step does to the mapped state.
MappedStep ==
    \/ UNCHANGED <<Kept, Playing, progress>>
    \/ \E s \in Slots : /\ Playing = NoSlot /\ Kept' = [Kept EXCEPT ![s] = Fresh]
                        /\ UNCHANGED <<Playing, progress>>
    \/ \E s \in Slots : /\ Playing = NoSlot /\ Playing' = s /\ progress' = Kept[s]
                        /\ Kept' = Kept
    \/ /\ Playing # NoSlot /\ progress < MaxProgress /\ progress' = progress + 1
       /\ UNCHANGED <<Kept, Playing>>
    \/ /\ Playing # NoSlot /\ Kept' = [Kept EXCEPT ![Playing] = progress]
       /\ \/ UNCHANGED <<Playing, progress>>
          \/ Playing' = NoSlot /\ progress' = Fresh
    \/ Playing # NoSlot /\ Playing' = NoSlot /\ progress' = Fresh /\ Kept' = Kept

LEMMA GamesStep ==
    ASSUME SaveInv, [Next]_vars
    PROVE  MappedStep
  <1> USE DEF MappedStep
  <1>1. /\ TypeOK /\ NoSlot \notin Slots
        /\ phase # "menu" => gi.slot \in Slots /\ map \in Maps
        /\ disk \in [Slots -> Files \cup {NoFile}]
    BY SaveAssumption DEF SaveInv, TypeOK, WorldKnown
  <1>2. ASSUME UNCHANGED disk
        PROVE  Kept' = Kept
    BY <1>2 DEF Kept, GetSaveSlotData
  <1>3. phase \in {"play", "save", "dead"} => Playing = gi.slot /\ Playing # NoSlot
    BY <1>1 DEF Playing
  <1>4. ASSUME NEW s \in Slots, NewSlotButtonPressed(s)
        PROVE  MappedStep
    <2>1. disk'[s] = NewFile /\ \A t \in Slots \ {s} : disk'[t] = disk[t]
      BY <1>1, <1>4 DEF NewSlotButtonPressed
    <2>2. GetSaveSlotData(s)'.progress = Fresh
      BY <2>1, NewFileTyped DEF GetSaveSlotData
    <2>3. Kept' = [Kept EXCEPT ![s] = Fresh]
      BY <2>1, <2>2, KeptExcept
    <2> QED
      BY <1>4, <2>3 DEF NewSlotButtonPressed, Playing, world
  <1>5. CASE DeleteButtonPressed
    <2>1. /\ selected \in Slots /\ disk'[selected] = NoFile
          /\ \A t \in Slots \ {selected} : disk'[t] = disk[t]
      BY <1>1, <1>5 DEF DeleteButtonPressed, TypeOK
    <2>2. Kept' = [Kept EXCEPT ![selected] = Fresh]
      <3>1. UNCHANGED selected
        BY <1>5 DEF DeleteButtonPressed
      <3>2. PICK s \in Slots : s = selected
        BY <2>1
      <3>3. GetSaveSlotData(s)'.progress = Fresh
        BY <2>1, <3>2 DEF GetSaveSlotData, FreshFile
      <3> QED
        BY <2>1, <3>2, <3>3, KeptExcept
    <2> QED
      BY <1>5, <2>1, <2>2 DEF DeleteButtonPressed, Playing, world
  <1>6. CASE PlayButtonPressed
    BY <1>6, <1>2 DEF PlayButtonPressed, Playing
  <1>7. ASSUME NEW s \in Slots, SelectSlotButtonPressed(s)
        PROVE  MappedStep
    BY <1>7, <1>2 DEF SelectSlotButtonPressed, Playing, world
  <1>8. CASE PossessedBy
    <2>1. gi.slot \in Slots /\ Playing = NoSlot /\ Playing' = gi.slot /\ UNCHANGED disk
      BY <1>1, <1>8 DEF PossessedBy, Loaded, Playing
    <2>2. progress' = GetSaveSlotData(gi.slot).progress
      <3>1. CASE disk[gi.slot] = NoFile
        BY <1>1, <1>8, <2>1, <3>1, AnswerTyped DEF PossessedBy, Loaded, FreshFile
      <3>2. CASE disk[gi.slot] # NoFile
        BY <1>1, <1>8, <2>1, <3>2, AnswerTyped DEF PossessedBy, Loaded, SaveInv, FreshAtFirst
      <3> QED
        BY <3>1, <3>2
    <2> QED
      BY <1>2, <2>1, <2>2 DEF Kept
  <1>9. CASE GainProgress
    BY <1>2, <1>3, <1>9 DEF GainProgress, Playing
  <1>10. ASSUME NEW c \in Checkpoints, OnCheckpointOverlap(c)
         PROVE  MappedStep
    <2>1. phase = "play" /\ reached \cup {c} \in SUBSET Actors /\ map \in Maps
      BY <1>1, <1>10 DEF OnCheckpointOverlap, TypeOK, Actors
    <2> QED
      BY <1>10, <2>1, FirstWriteKept DEF OnCheckpointOverlap
  <1>11. ASSUME NEW e \in Entrances, OnEntranceOverlap(e)
         PROVE  MappedStep
    <2>1. phase = "play" /\ reached \in SUBSET Actors /\ DestinationMap(e) \in Maps
      BY <1>1, <1>11, SaveAssumption DEF OnEntranceOverlap, TypeOK, DestinationMap
    <2> QED
      BY <1>11, <2>1, FirstWriteKept DEF OnEntranceOverlap
  <1>12. CASE SaveProgress
    <2>1. Playing = gi.slot /\ Playing # NoSlot /\ gi.slot \in Slots /\ gi'.slot = gi.slot
      BY <1>1, <1>3, <1>12, SecondWrite DEF TypeOK
    <2>2. Kept' = [Kept EXCEPT ![gi.slot] = progress]
      <3>1. PICK s \in Slots : s = gi.slot
        BY <2>1
      <3>2. GetSaveSlotData(s)'.progress = progress
        BY <1>12, <3>1, SecondWrite DEF GetSaveSlotData
      <3> QED
        BY <1>12, <3>1, <3>2, SecondWrite, KeptExcept
    <2>3. UNCHANGED <<Playing, progress>> \/ (Playing' = NoSlot /\ progress' = Fresh)
      BY <1>12, <2>1, SecondWrite DEF Playing
    <2> QED
      BY <2>1, <2>2, <2>3
  <1>13. ASSUME NEW v \in Volumes, OnBoxOverlap(v)
         PROVE  MappedStep
    BY <1>2, <1>13 DEF OnBoxOverlap, Playing
  <1>14. CASE Die
    BY <1>2, <1>14 DEF Die, Playing, world
  <1>15. CASE PlayerDied
    BY <1>2, <1>3, <1>15 DEF PlayerDied, OpenMenu, NoWorld, Playing
  <1>16. CASE Crash
    <2>1. Kept' = Kept /\ Playing' = NoSlot /\ progress' = Fresh
      BY <1>2, <1>16 DEF Crash, OpenMenu, NoWorld, Playing
    <2>2. CASE phase \in {"menu", "travel"}
      BY <2>1, <2>2 DEF SaveInv, FreshAtFirst, Playing
    <2>3. CASE phase \notin {"menu", "travel"}
      BY <1>1, <1>3, <2>1, <2>3 DEF TypeOK
    <2> QED
      BY <2>2, <2>3
  <1>17. CASE UNCHANGED vars
    BY <1>2, <1>17 DEF vars, Playing
  <1> QED
    BY <1>4, <1>5, <1>6, <1>7, <1>8, <1>9, <1>10, <1>11, <1>12, <1>13, <1>14, <1>15, <1>16, <1>17
    DEF Next

(* A game resumes with the progress last saved while it was played; no     *)
(* order of slots, saves, deaths and crashes mixes up two games.           *)
THEOREM SavesImplementGames == Spec => ImplementsSavedGames
  <1>1. Init => Games!Init
    <2> SUFFICES ASSUME Init
                 PROVE  Games!Init
      OBVIOUS
    <2>1. \A s \in Slots : GetSaveSlotData(s).progress = Fresh
      BY DEF Init, GetSaveSlotData, FreshFile
    <2> QED
      BY <2>1 DEF Init, Games!Init, Fresh, Games!Fresh
  <1>2. SaveInv /\ [Next]_vars => [Games!Next]_(Games!vars)
    <2> SUFFICES ASSUME SaveInv, [Next]_vars
                 PROVE  [Games!Next]_(Games!vars)
      OBVIOUS
    <2> QED
      BY GamesStep DEF MappedStep, Kept, Playing, Fresh, Games!Next, Games!vars, Games!Reset, Games!Resume,
                       Games!Gain, Games!Save, Games!SaveAndLeave, Games!Leave, Games!Fresh
  <1> QED
    BY <1>1, <1>2, SaveInvariant, PTL DEF Spec, ImplementsSavedGames, Games!Spec
=============================================================================
