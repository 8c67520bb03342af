-------------------------- MODULE MapControlTower --------------------------
(***************************************************************************)
(* The map of servers: MapControlTower.kt with its markers                 *)
(* (LazyMarker.java), its buttons (MapViews.kt), the stored favourites     *)
(* (MyStorage.kt) and the filter of countries (PrintArray.kt), on top of   *)
(* the camera animator.                                                    *)
(*                                                                         *)
(* Every handler runs on the main thread, but in an order set by the user, *)
(* by the camera, by a coroutine that looks up the location, by delayed    *)
(* requests, and by the SSH session, whose callbacks change the same       *)
(* listeners, gestures and buttons as the animator does.                   *)
(***************************************************************************)
EXTENDS CameraUpdateAnimator

CONSTANTS Countries,
          Flag,           \* the country of each marker
          DefaultLatLng,  \* the position used without a location; a server's or nobody's
          Tiles,          \* the number of moves that preload the map
          MaxDelayed      \* bound: delayed requests for the location at one time

ASSUME TowerAssumption ==
    /\ Flag \in [Markers -> Countries]
    /\ DefaultLatLng \in Markers \cup {NULL}
    /\ Tiles \in Nat
    /\ MaxDelayed \in Nat

VARIABLES
    phase,          \* "loading", "ready" (showData has run) or "loaded" (onMapLoaded has)
    level,          \* each marker's level: 1 for a favourite, else 0
    z,              \* each marker's zIndex and icon: 1.0 is "selected", 0.1 "favorite"
    visible,        \* the markers that are visible
    info,           \* the marker whose info window is shown, or NULL
    view,           \* the markers inside the visible region when the camera last came to rest
    flags,          \* the countries that pass the filter
    clickListener,  \* the map's listeners for clicks: "none", "tower", or "swallow"
    shown,          \* the floating buttons on screen
    clickable,      \* they react to clicks
    favChecked,     \* the favourite button's star is filled
    filter,         \* the dialog that filters countries is shown
    favorites,      \* stored: the favourites
    prefFlags,      \* stored: the countries that pass the filter
    session,        \* "none", "asked" (the dialog, then JuiceSSH, covers the map) or "open"
    announced,      \* the marker the dialog has named, or NULL
    locating,       \* the coroutine is fetching the location
    found,          \* it has handed a location to the main thread
    delayed,        \* requests for the location that wait for their delay
    crossed         \* history: the last start or end of a session came during an animation

markerVars == <<level, z, visible, info, view, flags>>

viewVars == <<shown, clickable, favChecked, filter>>

storedVars == <<favorites, prefFlags>>

sessionVars == <<session, announced, crossed>>

requestVars == <<locating, found, delayed>>

vars == <<animatorVars, gestures, cameraVars, phase, markerVars, clickListener, viewVars,
          storedVars, sessionVars, requestVars>>

-----------------------------------------------------------------------------
(* Markers *)

\* The markers whose zIndex is 1.0, and the first of them in the map's own order.
Selected == {m \in Markers : z[m] = "selected"}

selected == IF Selected = {} THEN NULL ELSE CHOOSE m \in Selected : TRUE

\* onLevelChange for the levels 0 and 1.
Icon(m) == IF level[m] = 1 THEN "favorite" ELSE "plain"

\* Mutant: the marker that loses the selection always gets the plain icon.
DeselectPlain(markers) == z' = [m \in Markers |-> IF m \in markers THEN "plain" ELSE z[m]]

\* setLevel(level, onLevelChangeCallback).
Deselect(markers) == z' = [m \in Markers |-> IF m \in markers THEN Icon(m) ELSE z[m]]

\* Mutant: the favourite button stays when the selected marker is hidden.
onCameraIdleKeepsButton(region, passing) ==
    LET stay == {m \in region : Flag[m] \in passing}
        gone == Selected \ stay
    IN  /\ visible' = stay
        /\ Deselect(gone)
        /\ info' = IF info \in stay THEN info ELSE NULL
        /\ UNCHANGED shown

\* The markers inside the region whose country passes the filter are made visible, the
\* others hidden and, if selected, deselected.  A hidden marker loses its info window.
onCameraIdle(region, passing) ==
    LET stay == {m \in region : Flag[m] \in passing}
        gone == Selected \ stay
    IN  /\ visible' = stay
        /\ Deselect(gone)
        /\ info' = IF info \in stay THEN info ELSE NULL
        /\ shown' = IF gone = {} THEN shown ELSE shown \ {"fab3"}

\* toggleFavoriteButton(level == 1).
toggleFavoriteButton(m) ==
    /\ favChecked' = (level[m] = 1)
    /\ shown' = shown \cup {"fab3"}

-----------------------------------------------------------------------------
(* Start and end *)

Init ==
    /\ InitAnimator
    /\ phase = "loading"
    /\ level = [m \in Markers |-> 0]
    /\ z = [m \in Markers |-> "plain"]
    /\ visible = {} /\ info = NULL /\ view = {} /\ flags = {}
    /\ clickListener = "none"
    /\ shown = {} /\ clickable = TRUE /\ favChecked = FALSE /\ filter = FALSE
    /\ session = "none" /\ announced = NULL /\ crossed = FALSE
    /\ locating = FALSE /\ found = FALSE /\ delayed = 0
    /\ favorites = {}
    /\ prefFlags = Countries

\* getCurrentPosition: a server of the country the device is in if the filter passes it,
\* otherwise the device's own position, which is no marker's; the default position, whether
\* the filter passes it or not, when the location is not known.
CurrentPositions(passing) ==
    {m \in Markers : Flag[m] \in passing} \cup {NULL, DefaultLatLng}

\* createCameraUpdates, and the animation showData adds.
FirstAnimations(target) ==
    [i \in 1..Tiles |-> [kind |-> "tile", target |-> NULL]]
        \o <<[kind |-> "closest", target |-> target]>>

\* A marker is created with the level of the stored favourite it equals.
createMarkers ==
    /\ level' = [m \in Markers |-> IF m \in favorites THEN 1 ELSE 0]
    /\ z' = [m \in Markers |-> IF m \in favorites THEN "favorite" ELSE "plain"]

showPrintArray == flags' = prefFlags

\* loadData and showData: the filter and the favourites come from the preferences.
showData ==
    /\ phase = "loading"
    /\ phase' = "ready"
    /\ createMarkers
    /\ showPrintArray
    /\ \E target \in CurrentPositions(prefFlags) : mCameraUpdates' = FirstAnimations(target)
    /\ gestures' = TRUE
    /\ clickListener' = "tower"
    /\ UNCHANGED <<mAnimating, saved, idleListener, cameraVars, visible, info, view, viewVars,
                   storedVars, sessionVars, requestVars>>

\* onAnimationStart of the tower.
Execute(queue) == execute(queue) /\ clickable' = FALSE

onMapLoaded ==
    /\ phase = "ready"
    /\ phase' = "loaded"
    /\ Execute(mCameraUpdates)
    /\ UNCHANGED <<markerVars, clickListener, shown, favChecked, filter, storedVars,
                   sessionVars, requestVars>>

\* The activity ends with its session and its requests; the next one begins to load.
onDestroy ==
    /\ phase # "loading"
    /\ phase' = "loading"
    /\ mCameraUpdates' = <<>> /\ mAnimating' = FALSE /\ saved' = FALSE
    /\ gestures' = FALSE /\ idleListener' = "none"
    /\ moving' = FALSE /\ running' = NULL /\ aim' = NULL
    /\ level' = [m \in Markers |-> 0]
    /\ z' = [m \in Markers |-> "plain"]
    /\ visible' = {} /\ info' = NULL /\ view' = {} /\ flags' = {}
    /\ clickListener' = "none"
    /\ shown' = {} /\ clickable' = TRUE /\ favChecked' = FALSE /\ filter' = FALSE
    /\ session' = "none" /\ announced' = NULL /\ crossed' = FALSE
    /\ locating' = FALSE /\ found' = FALSE /\ delayed' = 0
    /\ UNCHANGED storedVars

-----------------------------------------------------------------------------
(* The camera *)

\* onFinish, before the camera is idle.  The animation of the start selects its target and
\* shows the buttons; later ones only show a message.
onAnimationFinish ==
    LET m == running.target IN
    /\ running # NULL
    /\ running' = NULL
    /\ \/ /\ running.kind = "closest"
          /\ IF m # NULL /\ Flag[m] \in flags
             THEN /\ z' = [z EXCEPT ![m] = "selected"]
                  /\ visible' = visible \cup {m}
                  /\ info' = m
                  /\ favChecked' = (level[m] = 1)
                  /\ shown' = shown \cup {"fab0", "fab1", "fab2", "fab3"}
             ELSE /\ shown' = shown \cup {"fab0", "fab1", "fab2"}
                  /\ UNCHANGED <<z, visible, info, favChecked>>
       \/ /\ running.kind = "location"
          /\ UNCHANGED <<z, visible, info, favChecked, shown>>
    /\ UNCHANGED <<animatorVars, gestures, moving, aim, phase, level, view, flags,
                   clickListener, clickable, filter, storedVars, sessionVars, requestVars>>

\* An idle event goes to the listener that is set: to nobody before the first animation, to
\* the animator while it runs, then to the tower.  The region contains what the camera
\* was sent to.
CameraIdle ==
    /\ moving
    /\ running = NULL
    /\ \/ /\ idleListener = "none"
          /\ moving' = FALSE
          /\ UNCHANGED <<animatorVars, gestures, running, aim, z, visible, info, view, shown,
                         clickable>>
       \/ /\ idleListener = "tower"
          /\ moving' = FALSE
          /\ \E region \in SUBSET Markers :
                /\ aim # NULL => aim \in region
                /\ view' = region
                /\ onCameraIdle(region, flags)
          /\ UNCHANGED <<animatorVars, gestures, running, aim, clickable>>
       \/ /\ idleListener = "animator"
          /\ mCameraUpdates # <<>>
          /\ executeNext(mCameraUpdates)
          /\ UNCHANGED <<mAnimating, saved, idleListener, gestures, z, visible, info, view,
                         shown, clickable>>
       \/ /\ idleListener = "animator"
          /\ mCameraUpdates = <<>>
          /\ moving' = FALSE
          /\ \E region \in SUBSET Markers :
                /\ aim # NULL => aim \in region
                /\ view' = region
                /\ onCameraIdle(region, flags)
          /\ onAnimationEnd
          /\ clickable' = TRUE
    /\ UNCHANGED <<phase, level, flags, clickListener, favChecked, filter, storedVars,
                   sessionVars, requestVars>>

-----------------------------------------------------------------------------
(* The user *)

\* Nothing covers the map.
Uncovered == session # "asked" /\ ~filter

UserMoves ==
    /\ Uncovered /\ gestures
    /\ MoveTo(NULL, NULL)
    /\ UNCHANGED <<animatorVars, gestures, phase, markerVars, clickListener, viewVars,
                   storedVars, sessionVars, requestVars>>

\* The activity's onClick: without a session its dialog names the selected marker; an open
\* session is closed later.
toggleCommand ==
    IF session = "none"
    THEN /\ session' = "asked"
         /\ announced' = selected
         /\ UNCHANGED crossed
    ELSE UNCHANGED sessionVars

ConnectClick ==
    /\ Uncovered /\ "fab0" \in shown /\ clickable /\ session = "none"
    /\ toggleCommand
    /\ UNCHANGED <<animatorVars, gestures, cameraVars, phase, markerVars, clickListener,
                   viewVars, storedVars, requestVars>>

onInfoWindowClick ==
    /\ Uncovered /\ info # NULL /\ clickListener = "tower"
    /\ z[info] = "selected"
    /\ toggleCommand
    /\ UNCHANGED <<animatorVars, gestures, cameraVars, phase, markerVars, clickListener,
                   viewVars, storedVars, requestVars>>

\* Mutant: the marker selected before stays selected.
onMarkerClickKeeps(m) ==
    /\ Uncovered /\ m \in visible /\ clickListener = "tower"
    /\ IF z[m] = "selected"
       THEN toggleCommand /\ UNCHANGED <<z, favChecked, shown>>
       ELSE /\ z' = [z EXCEPT ![m] = "selected"]
            /\ toggleFavoriteButton(m)
            /\ UNCHANGED sessionVars
    /\ info' = m
    /\ MoveTo(m, NULL)
    /\ UNCHANGED <<animatorVars, gestures, phase, level, visible, view, flags, clickListener,
                   clickable, filter, storedVars, requestVars>>

\* A click on the selected marker is one on the connect button, clickable or not.  The map's
\* own reaction follows: it moves the camera to the marker and shows its info window.
onMarkerClick(m) ==
    /\ Uncovered /\ m \in visible /\ clickListener = "tower"
    /\ IF z[m] = "selected"
       THEN toggleCommand /\ UNCHANGED <<z, favChecked, shown>>
       ELSE /\ z' = [n \in Markers |-> IF n = m THEN "selected"
                                       ELSE IF n = selected THEN Icon(n) ELSE z[n]]
            /\ toggleFavoriteButton(m)
            /\ UNCHANGED sessionVars
    /\ info' = m
    /\ MoveTo(m, NULL)
    /\ UNCHANGED <<animatorVars, gestures, phase, level, visible, view, flags, clickListener,
                   clickable, filter, storedVars, requestVars>>

\* The map's own reaction closes the info window.
onMapClick ==
    /\ Uncovered /\ clickListener = "tower" /\ selected # NULL
    /\ Deselect({selected})
    /\ shown' = shown \ {"fab3"}
    /\ info' = NULL
    /\ UNCHANGED <<animatorVars, gestures, cameraVars, phase, level, visible, view, flags,
                   clickListener, clickable, favChecked, filter, storedVars, sessionVars,
                   requestVars>>

\* Mutant: the level counts the clicks.
toggleFavoriteCounts ==
    /\ Uncovered /\ "fab3" \in shown /\ clickable /\ selected # NULL
    /\ level' = [level EXCEPT ![selected] = @ + 1]
    /\ favorites' = favorites \cup {selected}
    /\ favChecked' = TRUE
    /\ UNCHANGED <<animatorVars, gestures, cameraVars, phase, z, visible, info, view, flags,
                   clickListener, shown, clickable, filter, prefFlags, sessionVars,
                   requestVars>>

addFavorite(m) == favorites' = favorites \cup {m}

removeFavorite(m) == favorites' = favorites \ {m}

\* The icon stays that of a selected marker.
toggleFavoriteMarker ==
    /\ Uncovered /\ "fab3" \in shown /\ clickable /\ selected # NULL
    /\ level' = [level EXCEPT ![selected] = 1 - @]
    /\ IF level[selected] = 0 THEN addFavorite(selected) ELSE removeFavorite(selected)
    /\ favChecked' = (level[selected] = 0)
    /\ UNCHANGED <<animatorVars, gestures, cameraVars, phase, z, visible, info, view, flags,
                   clickListener, shown, clickable, filter, prefFlags, sessionVars,
                   requestVars>>

showCountryFilterDialog ==
    /\ Uncovered /\ "fab2" \in shown /\ clickable /\ ~mAnimating
    /\ filter' = TRUE
    /\ UNCHANGED <<animatorVars, gestures, cameraVars, phase, markerVars, clickListener, shown,
                   clickable, favChecked, storedVars, sessionVars, requestVars>>

\* Mutant: the markers are not refreshed.
onSelectedLater(passing) ==
    /\ filter
    /\ filter' = FALSE
    /\ flags' = passing
    /\ prefFlags' = passing
    /\ UNCHANGED <<animatorVars, gestures, cameraVars, phase, level, z, visible, info, view,
                   clickListener, shown, clickable, favChecked, favorites, sessionVars,
                   requestVars>>

\* The dialog's answer is stored and applied to the region on screen, which is no
\* particular one while the camera moves.
onSelected(passing) ==
    /\ filter
    /\ filter' = FALSE
    /\ flags' = passing
    /\ prefFlags' = passing
    /\ \E region \in (IF moving THEN SUBSET Markers ELSE {view}) : onCameraIdle(region, passing)
    /\ UNCHANGED <<animatorVars, gestures, cameraVars, phase, level, view, clickListener,
                   clickable, favChecked, favorites, sessionVars, requestVars>>

onCancel ==
    /\ filter
    /\ filter' = FALSE
    /\ UNCHANGED <<animatorVars, gestures, cameraVars, phase, markerVars, clickListener, shown,
                   clickable, favChecked, storedVars, sessionVars, requestVars>>

-----------------------------------------------------------------------------
(* Requests for the location *)

\* offer() to the actor's rendezvous channel: lost while a location is being fetched.
updateMasterMarker == locating' = TRUE

LocationClick ==
    /\ Uncovered /\ "fab1" \in shown /\ clickable
    /\ updateMasterMarker
    /\ UNCHANGED <<animatorVars, gestures, cameraVars, phase, markerVars, clickListener,
                   viewVars, storedVars, sessionVars, found, delayed>>

\* onConnect and onDisconnect, from the output of openpyn.
updateMasterMarkerWithDelay ==
    /\ session = "open"
    /\ delayed < MaxDelayed
    /\ delayed' = delayed + 1
    /\ UNCHANGED <<animatorVars, gestures, cameraVars, phase, markerVars, clickListener,
                   viewVars, storedVars, sessionVars, locating, found>>

DelayOver ==
    /\ delayed > 0
    /\ delayed' = delayed - 1
    /\ updateMasterMarker
    /\ UNCHANGED <<animatorVars, gestures, cameraVars, phase, markerVars, clickListener,
                   viewVars, storedVars, sessionVars, found>>

\* The coroutine hands over a location and takes the next request.
createGeoJson ==
    /\ locating /\ ~found
    /\ locating' = FALSE
    /\ found' = TRUE
    /\ UNCHANGED <<animatorVars, gestures, cameraVars, phase, markerVars, clickListener,
                   viewVars, storedVars, sessionVars, delayed>>

\* Mutant: an animation may interrupt another one.
animateCameraAlways ==
    /\ found
    /\ found' = FALSE
    /\ \E target \in CurrentPositions(flags) :
          Execute(Append(mCameraUpdates, [kind |-> "location", target |-> target]))
    /\ UNCHANGED <<phase, markerVars, clickListener, shown, favChecked, filter, storedVars,
                   sessionVars, locating, delayed>>

\* A location that arrives during an animation is dropped.
animateCamera ==
    /\ found
    /\ found' = FALSE
    /\ \/ /\ ~mAnimating
          /\ \E target \in CurrentPositions(flags) :
                Execute(Append(mCameraUpdates, [kind |-> "location", target |-> target]))
       \/ /\ mAnimating
          /\ UNCHANGED <<animatorVars, gestures, cameraVars, clickable>>
    /\ UNCHANGED <<phase, markerVars, clickListener, shown, favChecked, filter, storedVars,
                   sessionVars, locating, delayed>>

-----------------------------------------------------------------------------
(* The session *)

\* While a session is open the map is still: no clicks, no gestures, no info window.
onSessionStarted ==
    /\ session = "asked"
    /\ session' = "open"
    /\ crossed' = mAnimating
    /\ shown' = (shown \cup {"fab0"}) \ ({"fab1", "fab2"} \cup
                                         (IF selected = NULL THEN {} ELSE {"fab3"}))
    /\ info' = IF info = selected THEN NULL ELSE info
    /\ clickListener' = "swallow"
    /\ gestures' = FALSE
    /\ UNCHANGED <<animatorVars, cameraVars, phase, level, z, visible, view, flags, clickable,
                   favChecked, filter, storedVars, announced, requestVars>>

onSessionFinished ==
    /\ session = "open"
    /\ session' = "none"
    /\ crossed' = mAnimating
    /\ shown' = shown \cup {"fab0", "fab1", "fab2"} \cup
                     (IF selected = NULL THEN {} ELSE {"fab3"})
    /\ info' = IF selected = NULL THEN info ELSE selected
    /\ clickListener' = "tower"
    /\ gestures' = TRUE
    /\ UNCHANGED <<animatorVars, cameraVars, phase, level, z, visible, view, flags, clickable,
                   favChecked, filter, storedVars, announced, requestVars>>

\* The user declines, or JuiceSSH gives up; only the latter is told to the tower, which
\* shows the connect button again.
onSessionCancelled ==
    /\ session = "asked"
    /\ session' = "none"
    /\ \/ UNCHANGED shown
       \/ shown' = shown \cup {"fab0"}
    /\ UNCHANGED <<animatorVars, gestures, cameraVars, phase, markerVars, clickListener,
                   clickable, favChecked, filter, storedVars, announced, crossed, requestVars>>

-----------------------------------------------------------------------------
(* The whole *)

Camera == onAnimationFinish \/ CameraIdle

User ==
    \/ UserMoves \/ ConnectClick \/ onInfoWindowClick \/ onMapClick
    \/ \E m \in Markers : onMarkerClick(m)
    \/ toggleFavoriteMarker \/ showCountryFilterDialog \/ onCancel \/ LocationClick
    \/ \E passing \in SUBSET Countries \ {{}} : onSelected(passing)

Requests == updateMasterMarkerWithDelay \/ DelayOver \/ createGeoJson \/ animateCamera

Session == onSessionStarted \/ onSessionFinished \/ onSessionCancelled

Next ==
    \/ showData \/ onMapLoaded \/ onDestroy
    \/ Camera
    \/ User
    \/ Requests
    \/ Session

Spec == Init /\ [][Next]_vars

\* A camera that moves comes to rest and tells its listener.
FairSpec == Spec /\ WF_vars(Camera)

-----------------------------------------------------------------------------
(* Properties *)

Buttons == {"fab0", "fab1", "fab2", "fab3"}

MarkerTypes ==
    /\ level \in [Markers -> {0, 1}]
    /\ z \in [Markers -> {"plain", "favorite", "selected"}]
    /\ visible \subseteq Markers
    /\ info \in Markers \cup {NULL}
    /\ view \subseteq Markers
    /\ flags \subseteq Countries
    /\ favorites \subseteq Markers
    /\ prefFlags \subseteq Countries

ViewTypes ==
    /\ phase \in {"loading", "ready", "loaded"}
    /\ clickListener \in {"none", "tower", "swallow"}
    /\ shown \subseteq Buttons
    /\ clickable \in BOOLEAN
    /\ favChecked \in BOOLEAN
    /\ filter \in BOOLEAN

SessionTypes ==
    /\ session \in {"none", "asked", "open"}
    /\ announced \in Markers \cup {NULL}
    /\ crossed \in BOOLEAN
    /\ locating \in BOOLEAN
    /\ found \in BOOLEAN
    /\ delayed \in Nat

\* Every variable has its type.
TypeOK == AnimatorTypes /\ MarkerTypes /\ ViewTypes /\ SessionTypes

\* At most one marker is selected.  Every handler works on the first selected marker it
\* finds, and the animation of the start selects without looking for another one.
AtMostOneSelected == \A m, n \in Selected : m = n

\* Icons, levels and stored favourites agree: a marker that is not selected shows the star
\* exactly if it is a favourite, and the favourites on the map are the stored ones,
\* whatever was selected, starred, filtered or reloaded meanwhile.
FavoritesAgree ==
    phase # "loading" =>
        \A m \in Markers :
            /\ level[m] = 1 <=> m \in favorites
            /\ m \notin Selected => z[m] = Icon(m)

\* The favourite button is on screen only with a selected marker to act on, and its star is
\* that marker's, through filters, camera moves and sessions.
FavoriteButtonAgrees ==
    "fab3" \in shown => selected # NULL /\ (favChecked <=> level[selected] = 1)

\* "After animation completes, only the lazy markers whose location are within the visible
\* bounds of the map are made visible" (README.md): with the camera at rest exactly the
\* markers in the region that pass the filter are visible, and the selected one is among
\* them.
VisibleAtRest ==
    phase = "loaded" /\ ~mAnimating /\ ~moving =>
        /\ visible = {m \in view : Flag[m] \in flags}
        /\ Selected \subseteq visible

\* The map can be moved exactly when no session is open, however many animations have saved
\* and restored the setting, unless the session started or ended during one.
GesturesFollowSession ==
    phase = "loaded" /\ ~mAnimating /\ ~crossed => gestures = (session # "open")

\* Every animation ends, whatever the user does to the camera meanwhile: the animator gives
\* back the listener and the buttons work again.
AnimationEnds == mAnimating ~> ~mAnimating /\ clickable

\* "Are you sure you want to connect to" the selected marker (the dialog's message): the
\* marker openpyn is started for is the one the dialog has named.
SessionUsesAnnounced ==
    [][session = "asked" /\ session' = "open" => selected = announced]_vars
============================================================================
