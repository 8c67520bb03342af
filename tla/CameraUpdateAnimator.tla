------------------------ MODULE CameraUpdateAnimator ------------------------
(***************************************************************************)
(* The queue of camera updates of the map                                  *)
(* (com/antoniocarlon/map/CameraUpdateAnimator.java) and the camera of the *)
(* Google map it drives.                                                   *)
(*                                                                         *)
(* While an animation runs, the animator takes the place of the map's      *)
(* camera-idle listener and switches the gestures off; each idle event     *)
(* starts the next update, and the one that finds the queue empty gives    *)
(* back the listener and the gestures.  Of the five settings it saves,     *)
(* scroll and zoom gestures are switched together by the app and are       *)
(* modelled as one; the others are off in fragment_map.xml and stay off.   *)
(* No caller sets a delay, so updates start at once.                       *)
(*                                                                         *)
(* The operators are the parts of handlers that concern these variables.   *)
(* All of them run on the main thread.                                     *)
(***************************************************************************)
EXTENDS Naturals, Sequences

CONSTANTS Markers,  \* the servers' positions, which are the keys of the marker map
          NULL      \* a position without a marker, or null

ASSUME MarkersAssumption == NULL \notin Markers

VARIABLES
    mCameraUpdates,  \* the queue
    mAnimating,
    saved,           \* the gestures setting found by execute()
    gestures,        \* the map's scroll and zoom gestures are enabled
    idleListener,    \* the map's OnCameraIdleListener: "none", "tower" or "animator"
    moving,          \* the camera moves; an idle event is due
    running,         \* the animation whose onFinish or onCancel is due, or NULL
    aim              \* the position the camera moves to

animatorVars == <<mCameraUpdates, mAnimating, saved, idleListener>>

cameraVars == <<moving, running, aim>>

\* "tile" moves preload the map and have no callback; "closest" is the last animation
\* of the start, "location" one asked for later.
Animation == [kind : {"tile", "closest", "location"}, target : Markers \cup {NULL}]

InitAnimator ==
    /\ mCameraUpdates = <<>>
    /\ mAnimating = FALSE
    /\ saved = FALSE
    /\ gestures = FALSE
    /\ idleListener = "none"
    /\ moving = FALSE
    /\ running = NULL
    /\ aim = NULL

\* A camera update replaces the one under way, whose callback is told with onCancel; the
\* listener only logs that.
MoveTo(target, animation) ==
    /\ moving' = TRUE
    /\ aim' = target
    /\ running' = animation

startAnimation(animation) ==
    MoveTo(animation.target, IF animation.kind = "tile" THEN NULL ELSE animation)

\* Mutant: the update stays in the queue.
executeNextKept(queue) ==
    /\ startAnimation(Head(queue))
    /\ mCameraUpdates' = queue

\* executeNext with updates in the queue.
executeNext(queue) ==
    /\ startAnimation(Head(queue))
    /\ mCameraUpdates' = Tail(queue)

setUiSettings == saved' = gestures

onAnimationStart ==
    /\ gestures' = FALSE
    /\ idleListener' = "animator"
    /\ mAnimating' = TRUE

\* execute with updates in the queue; the callers have just added one.
execute(queue) ==
    /\ setUiSettings
    /\ onAnimationStart
    /\ executeNext(queue)

\* executeNext with an empty queue.
onAnimationEnd ==
    /\ idleListener' = "tower"
    /\ gestures' = saved
    /\ mAnimating' = FALSE
    /\ UNCHANGED <<mCameraUpdates, saved, running, aim>>

AnimatorTypes ==
    /\ mCameraUpdates \in Seq(Animation)
    /\ mAnimating \in BOOLEAN
    /\ saved \in BOOLEAN
    /\ gestures \in BOOLEAN
    /\ idleListener \in {"none", "tower", "animator"}
    /\ moving \in BOOLEAN
    /\ running \in Animation \cup {NULL}
    /\ aim \in Markers \cup {NULL}
============================================================================
