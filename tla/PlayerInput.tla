---------------------------- MODULE PlayerInput ----------------------------
(***************************************************************************)
(* The controller of the local player, AAuraPlayerController: what is      *)
(* under the cursor, what the left mouse button and the keys of the other  *)
(* slots do (click to move, attack, talk), and the automatic run along the *)
(* spline.  A stun blocks the cursor and the keys, whose events are then   *)
(* lost: nothing repeats the press or the release of a key.                *)
(*                                                                         *)
(* Enhanced Input calls Pressed, then Held in each tick, then Released.    *)
(* Places are the points the cursor, a path or a checkpoint gives; where   *)
(* on its way the pawn is, is not modelled.  ThisActor is no UPROPERTY: a  *)
(* destroyed actor may be taken for a valid one.                           *)
(***************************************************************************)
EXTENDS Naturals, FiniteSets

CONSTANTS
    Places, NoPlace,
    Enemies, NPCs, Checkpoints, NoActor,    \* the actors with IHighlightInterface
    MoveTo,     \* of each checkpoint: where its MoveToComponent is
    Keys, LMB,  \* the input tags bound by BindAbilityActions
    Channelled  \* the keys whose ability goes on until the key is released

Actors == Enemies \cup NPCs \cup Checkpoints

ASSUME InputAssumption ==
    /\ NoPlace \notin Places /\ NoActor \notin Actors
    /\ MoveTo \in [Checkpoints -> Places]
    /\ LMB \in Keys /\ Channelled \subseteq Keys

VARIABLES
    blocked,    \* the four Player.Block tags, which come and go together
    hit,        \* CursorHit: the impact point, NoPlace if bBlockingHit is FALSE
    ThisActor,
    destroyed,  \* enemies that are no more
    targeting,  \* TargetingStatus
    autoRunning, destination, \* bAutoRunning, CachedDestination
    spline,     \* where the spline ends, NoPlace if it has no points
    followTime, \* zero, short (up to ShortPressThreshold) or long
    inConversation, shift,
    down,       \* the keys that are held down
    activated,  \* the keys whose ability is active
    missed,     \* history: keys up, whose release was blocked
    swallowed   \* history: a press did not stop the run under way

run      == <<autoRunning, destination, spline, swallowed>>
mouse    == <<targeting, followTime, inConversation>>
cursor   == <<hit, ThisActor, destroyed>>
keys     == <<down, missed>>
inputVars == <<blocked, cursor, mouse, run, shift, keys, activated>>

InputInit ==
    /\ blocked = FALSE
    /\ hit = NoPlace /\ ThisActor = NoActor /\ destroyed = {}
    /\ targeting = "NotTargeting" /\ followTime = "zero" /\ inConversation = FALSE
    /\ autoRunning = FALSE /\ destination = NoPlace /\ spline = NoPlace /\ swallowed = FALSE
    /\ shift = FALSE /\ down = {} /\ missed = {} /\ activated = {}

\* What IsValid may make of a pointer.
Seen(a) == IF a \in destroyed THEN {a, NoActor} ELSE {a}

----------------------------------------------------------------------------
(* Each tick.                                                              *)

\* A trace that hits nothing leaves ThisActor as it is.
CursorTrace ==
    /\ IF blocked
       THEN ThisActor' = NoActor /\ UNCHANGED hit
       ELSE /\ hit' \in Places \cup {NoPlace}
            /\ IF hit' = NoPlace THEN UNCHANGED ThisActor
               ELSE ThisActor' \in (Actors \ destroyed) \cup {NoActor}
    /\ UNCHANGED <<blocked, destroyed, mouse, run, shift, keys, activated>>

\* The point of the spline next to the pawn is near the destination: on the
\* way, perhaps, if the spline leads elsewhere.
AutoRun ==
    /\ autoRunning
    /\ autoRunning' = FALSE /\ swallowed' = FALSE
    /\ UNCHANGED <<blocked, cursor, mouse, destination, spline, shift, keys, activated>>

----------------------------------------------------------------------------
(* The ability system: the abilities of a key.                             *)

AbilityHeld(k) == activated' \in {activated, activated \cup {k}}
AbilityReleased(k) == activated' = activated \ ({k} \cap Channelled)

AbilityEnds(k) ==
    /\ k \in activated
    /\ activated' = activated \ {k}
    /\ UNCHANGED <<blocked, cursor, mouse, run, shift, keys>>

----------------------------------------------------------------------------
(* Keys.                                                                   *)

Press(k) == down' = down \cup {k} /\ missed' = missed \ {k} /\ k \notin down
Release(k) == k \in down /\ down' = down \ {k}

PressSwallowed ==
    swallowed' = autoRunning /\ UNCHANGED <<mouse, autoRunning, destination, spline>>

StopRunning == autoRunning' = FALSE /\ swallowed' = FALSE /\ UNCHANGED <<destination, spline>>

\* A click on an NPC nearby starts a conversation, and leaves the run as it is.
LeftPressed(seen) ==
    /\ IF seen = NoActor THEN targeting' = "NotTargeting"
       ELSE targeting' = IF seen \in Enemies THEN "TargetingEnemy" ELSE "TargetingNonEnemy"
    /\ \/ StopRunning /\ UNCHANGED inConversation
       \/ /\ seen \in NPCs
          /\ inConversation' = TRUE
          /\ swallowed' = autoRunning /\ UNCHANGED <<autoRunning, destination, spline>>
    /\ UNCHANGED followTime

\* ASC's own handler of the press changes nothing here: abilities start when held.
AbilityInputTagPressed(k) ==
    /\ Press(k)
    /\ IF k # LMB THEN UNCHANGED <<mouse, run>>
       ELSE IF blocked \/ inConversation THEN PressSwallowed
       ELSE \E seen \in Seen(ThisActor) : LeftPressed(seen)
    /\ UNCHANGED <<blocked, cursor, shift, activated>>

\* Where a short click leads: to a highlighted checkpoint, or where the cursor was.
ClickedAt(seen) == IF seen \in Checkpoints THEN MoveTo[seen] ELSE destination

\* Variant: the run goes where the click was, not where the path ends.
FollowPathToClick(to) ==
    \/ destination' = to /\ UNCHANGED <<autoRunning, spline, swallowed>>
    \/ destination' = to /\ spline' = NoPlace /\ UNCHANGED <<autoRunning, swallowed>>
    \/ \E last \in Places :
           destination' = to /\ spline' = last /\ autoRunning' = TRUE /\ swallowed' = FALSE

\* No path, a path without points, or one that ends somewhere.
FollowPath(to) ==
    \/ destination' = to /\ UNCHANGED <<autoRunning, spline, swallowed>>
    \/ destination' = to /\ spline' = NoPlace /\ UNCHANGED <<autoRunning, swallowed>>
    \/ \E last \in Places :
           destination' = last /\ spline' = last /\ autoRunning' = TRUE /\ swallowed' = FALSE

LeftReleased ==
    IF targeting = "TargetingEnemy" \/ shift \/ inConversation THEN UNCHANGED <<mouse, run>>
    ELSE /\ IF followTime = "long" THEN UNCHANGED run
            ELSE \E seen \in Seen(ThisActor) : FollowPath(ClickedAt(seen))
         /\ followTime' = "zero" /\ targeting' = "NotTargeting"
         /\ UNCHANGED inConversation

\* Variant: the ability hears of the release only when it was held with shift or on an enemy.
ReleasedWhenTargeting(k) ==
    /\ Release(k)
    /\ IF blocked THEN missed' = missed \cup {k} /\ UNCHANGED <<mouse, run, activated>>
       ELSE /\ IF k = LMB /\ targeting # "TargetingEnemy" /\ ~shift
               THEN UNCHANGED activated ELSE AbilityReleased(k)
            /\ IF k = LMB THEN LeftReleased ELSE UNCHANGED <<mouse, run>>
            /\ UNCHANGED missed
    /\ UNCHANGED <<blocked, cursor, shift>>

AbilityInputTagReleased(k) ==
    /\ Release(k)
    /\ IF blocked THEN missed' = missed \cup {k} /\ UNCHANGED <<mouse, run, activated>>
       ELSE /\ AbilityReleased(k)
            /\ IF k = LMB THEN LeftReleased ELSE UNCHANGED <<mouse, run>>
            /\ UNCHANGED missed
    /\ UNCHANGED <<blocked, cursor, shift>>

Follow ==
    /\ followTime' \in (IF followTime = "long" THEN {"long"} ELSE {"short", "long"})
    /\ destination' = IF hit = NoPlace THEN destination ELSE hit
    /\ UNCHANGED <<targeting, inConversation, autoRunning, spline, swallowed>>

AbilityInputTagHeld(k) ==
    /\ k \in down /\ ~blocked
    /\ IF k # LMB \/ targeting = "TargetingEnemy" \/ shift
       THEN AbilityHeld(k) /\ UNCHANGED <<mouse, run>>
       ELSE ~inConversation /\ Follow /\ UNCHANGED activated
    /\ UNCHANGED <<blocked, cursor, shift, keys>>

Shift ==
    /\ shift' = ~shift
    /\ UNCHANGED <<blocked, cursor, mouse, run, keys, activated>>

----------------------------------------------------------------------------
\* The stun comes or goes.
OnRep_Stunned ==
    /\ blocked' = ~blocked
    /\ UNCHANGED <<cursor, mouse, run, shift, keys, activated>>

\* ChangeConversationState of the dialogue's widget.
SetInConversation ==
    /\ inConversation
    /\ inConversation' = FALSE
    /\ UNCHANGED <<blocked, cursor, targeting, followTime, run, shift, keys, activated>>

Destroyed(e) ==
    /\ e \in Enemies \ destroyed
    /\ destroyed' = destroyed \cup {e}
    /\ UNCHANGED <<blocked, hit, ThisActor, mouse, run, shift, keys, activated>>

InputNext ==
    \/ CursorTrace \/ AutoRun
    \/ \E k \in Keys : \/ AbilityInputTagPressed(k) \/ AbilityInputTagHeld(k)
                       \/ AbilityInputTagReleased(k) \/ AbilityEnds(k)
    \/ Shift \/ OnRep_Stunned \/ SetInConversation
    \/ \E e \in Enemies : Destroyed(e)

InputSpec == InputInit /\ [][InputNext]_inputVars

----------------------------------------------------------------------------
InputTypeOK ==
    /\ blocked \in BOOLEAN /\ inConversation \in BOOLEAN /\ shift \in BOOLEAN
    /\ hit \in Places \cup {NoPlace}
    /\ ThisActor \in Actors \cup {NoActor} /\ destroyed \subseteq Enemies
    /\ targeting \in {"TargetingEnemy", "TargetingNonEnemy", "NotTargeting"}
    /\ autoRunning \in BOOLEAN /\ swallowed \in BOOLEAN
    /\ destination \in Places \cup {NoPlace} /\ spline \in Places \cup {NoPlace}
    /\ followTime \in {"zero", "short", "long"}
    /\ down \subseteq Keys /\ missed \subseteq Keys \ down /\ activated \subseteq Keys

(* AutoRun stops only near CachedDestination, which the held button moves  *)
(* while the spline stays.  As long as it runs the spline ends at the      *)
(* destination, so that the run comes to an end, unless a press did not    *)
(* stop it: one under a stun or in a conversation, or the very click that  *)
(* starts a conversation.                                                  *)
RunEnds == autoRunning => spline = destination \/ swallowed

(* An ability that goes on while its key is held ends with the key,        *)
(* whatever shift, the target and a conversation were at the press and at  *)
(* the release.  Only a release during a stun is missed, and the ability   *)
(* then goes on until the key is pressed and released again.               *)
ChannelEndsWithKey == activated \cap Channelled \subseteq down \cup missed
=============================================================================
