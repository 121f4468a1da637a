----------------------------- MODULE SavedGames -----------------------------
(***************************************************************************)
(* What saving promises of a player's progress: each slot keeps the last   *)
(* progress saved while its game was played, a game resumes with what its  *)
(* slot keeps, and the other slots are left alone.                         *)
(***************************************************************************)
EXTENDS Naturals

CONSTANTS
    Slots, NoSlot,
    MaxProgress     \* bound on the progress of a game

Progress == 1..MaxProgress
Fresh    == 1

VARIABLES
    kept,       \* the progress each slot keeps; Fresh when nothing is saved
    playing,    \* the slot of the running game, or NoSlot
    progress    \* the progress of the running game

vars == <<kept, playing, progress>>

Init == kept \in [Slots -> {Fresh}] /\ playing = NoSlot /\ progress = Fresh

\* A slot is begun anew or deleted; no game is running.
Reset(s) ==
    /\ playing = NoSlot
    /\ kept' = [kept EXCEPT ![s] = Fresh]
    /\ UNCHANGED <<playing, progress>>

Resume(s) ==
    /\ playing = NoSlot
    /\ playing' = s /\ progress' = kept[s]
    /\ UNCHANGED kept

Gain ==
    /\ playing # NoSlot /\ progress < MaxProgress
    /\ progress' = progress + 1
    /\ UNCHANGED <<kept, playing>>

Save ==
    /\ playing # NoSlot
    /\ kept' = [kept EXCEPT ![playing] = progress]
    /\ UNCHANGED <<playing, progress>>

\* Saves and goes to another map, where the game will be resumed.
SaveAndLeave ==
    /\ playing # NoSlot
    /\ kept' = [kept EXCEPT ![playing] = progress]
    /\ playing' = NoSlot /\ progress' = Fresh

\* The player dies for good or the program ends: what was not saved is gone.
Leave ==
    /\ playing # NoSlot
    /\ playing' = NoSlot /\ progress' = Fresh
    /\ UNCHANGED kept

Next ==
    \/ \E s \in Slots : Reset(s) \/ Resume(s)
    \/ Gain \/ Save \/ SaveAndLeave \/ Leave

Spec == Init /\ [][Next]_vars
=============================================================================
