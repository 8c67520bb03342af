------------------------ MODULE MapControlTowerProofs ------------------------
(***************************************************************************)
(* Proofs about MapControlTower, for any markers, countries, default       *)
(* position, number of preloading moves and number of delayed requests.    *)
(***************************************************************************)
EXTENDS MapControlTower, SequenceTheorems, TLAPS

-----------------------------------------------------------------------------
(* The inductive invariant *)

\* An animation of the start can only be the last of a queue.
ClosestIsLast(q) == \A i \in 1 .. Len(q) : q[i].kind = "closest" => i = Len(q)

\* An animation of the start is in a queue.
ClosestIn(q) == \E i \in 1 .. Len(q) : q[i].kind = "closest"

\* The animator and the phases of the tower: who listens to the camera, when updates may wait
\* in the queue, and that the animation of the start is the last of the updates it came with.
AnimatorShape ==
    /\ phase # "loaded" => idleListener = "none" /\ ~mAnimating /\ running = NULL
    /\ phase = "loaded" => idleListener = IF mAnimating THEN "animator" ELSE "tower"
    /\ phase = "loaded" /\ ~mAnimating => mCameraUpdates = <<>> /\ running = NULL
    /\ phase = "loading" => mCameraUpdates = <<>>
    /\ phase = "ready" => mCameraUpdates # <<>>
    /\ ClosestIsLast(mCameraUpdates)
    /\ running # NULL /\ running.kind = "closest" => mCameraUpdates = <<>>

\* The animation of the start has not finished yet.
Starting ==
    \/ phase # "loaded"
    \/ ClosestIn(mCameraUpdates)
    \/ running # NULL /\ running.kind = "closest"

\* Until then there is nothing on the map to click on, so nothing is selected, asked for or
\* opened.
NothingYet ==
    Starting => /\ shown = {} /\ visible = {} /\ info = NULL /\ Selected = {}
                /\ session = "none" /\ ~crossed /\ ~filter
                /\ ~locating /\ ~found /\ delayed = 0

\* The star is that of the selected marker also while a session hides the button.
StarAgrees ==
    /\ "fab3" \in shown => Selected # {}
    /\ \A m \in Selected : favChecked <=> level[m] = 1

\* What an animation will give back is what the gestures would be without it.
SavedFollowsSession ==
    /\ phase = "ready" => gestures
    /\ phase = "loaded" /\ mAnimating /\ ~crossed => (saved <=> session # "open")
    /\ phase = "loaded" /\ ~mAnimating /\ ~crossed => (gestures <=> session # "open")

IInv ==
    /\ TypeOK /\ AnimatorShape /\ NothingYet
    /\ AtMostOneSelected /\ FavoritesAgree /\ StarAgrees
    /\ VisibleAtRest /\ SavedFollowsSession

-----------------------------------------------------------------------------
(* Lemmas about the operators *)

\* The first selected marker is there exactly when some marker is selected.
LEMMA SelectedIsSelected ==
    /\ selected # NULL <=> Selected # {}
    /\ selected # NULL => selected \in Selected
<1>1. \A m \in Selected : m # NULL
  BY MarkersAssumption DEF Selected
<1>2. Selected # {} => (CHOOSE m \in Selected : TRUE) \in Selected
  OBVIOUS
<1> QED
  BY <1>1, <1>2 DEF selected

\* The updates of the start are updates, and only the last is not a preloading move.
LEMMA FirstAnimationsShape ==
    ASSUME NEW target \in Markers \cup {NULL}
    PROVE  /\ FirstAnimations(target) \in Seq(Animation)
           /\ FirstAnimations(target) # <<>>
           /\ Len(FirstAnimations(target)) = Tiles + 1
           /\ FirstAnimations(target)[Tiles + 1].kind = "closest"
           /\ \A i \in 1 .. Tiles : FirstAnimations(target)[i].kind = "tile"
<1> DEFINE tiles == [i \in 1 .. Tiles |-> [kind |-> "tile", target |-> NULL]]
           last == [kind |-> "closest", target |-> target]
<1>1. Tiles \in Nat
  BY TowerAssumption
<1>2. /\ [kind |-> "tile", target |-> NULL] \in Animation
      /\ last \in Animation
  BY DEF Animation
<1>3. tiles \in Seq(Animation) /\ Len(tiles) = Tiles
  <2>1. tiles \in [1 .. Tiles -> Animation]
    BY <1>2
  <2> QED
    BY <1>1, <2>1, SeqDef, LenProperties
<1>4. \A i \in 1 .. Tiles : tiles[i].kind = "tile"
  OBVIOUS
<1>5. <<last>> \in Seq(Animation) /\ Len(<<last>>) = 1 /\ <<last>>[1].kind = "closest"
  BY <1>2
<1> HIDE DEF tiles, last
<1>6. FirstAnimations(target) = tiles \o <<last>>
  BY DEF FirstAnimations, tiles, last
<1>7. /\ tiles \o <<last>> \in Seq(Animation)
      /\ Len(tiles \o <<last>>) = Tiles + 1
      /\ (tiles \o <<last>>)[Tiles + 1] = <<last>>[1]
      /\ \A i \in 1 .. Tiles : (tiles \o <<last>>)[i] = tiles[i]
  BY <1>1, <1>3, <1>5, ConcatProperties
<1> QED
  BY <1>1, <1>4, <1>5, <1>6, <1>7, EmptySeq

\* Taking the first update of a queue.
LEMMA TailShape ==
    ASSUME NEW q \in Seq(Animation), q # <<>>
    PROVE  /\ Head(q) \in Animation /\ Head(q) = q[1]
           /\ Tail(q) \in Seq(Animation)
           /\ Len(q) \in Nat /\ Len(q) > 0 /\ Len(Tail(q)) = Len(q) - 1
           /\ \A i \in 1 .. Len(Tail(q)) : Tail(q)[i] = q[i + 1]
  BY HeadTailProperties, ElementOfSeq, LenProperties, EmptySeq

\* The positions an animation may aim at are markers or none.
LEMMA PositionsAreMarkers ==
    ASSUME NEW passing
    PROVE  CurrentPositions(passing) \subseteq Markers \cup {NULL}
  BY TowerAssumption DEF CurrentPositions

\* Preparing and starting an animation keeps the animator's types.
LEMMA ExecuteTypes ==
    ASSUME AnimatorTypes, NEW q \in Seq(Animation), q # <<>>, execute(q)
    PROVE  AnimatorTypes'
<1>1. Head(q) \in Animation /\ Tail(q) \in Seq(Animation)
  BY TailShape
<1>2. Head(q).target \in Markers \cup {NULL}
  BY <1>1 DEF Animation
<1>3. mCameraUpdates' = Tail(q) /\ moving' = TRUE /\ aim' = Head(q).target
  BY DEF execute, executeNext, startAnimation, MoveTo
<1>4. running' \in Animation \cup {NULL}
  BY <1>1 DEF execute, executeNext, startAnimation, MoveTo
<1>5. mAnimating' = TRUE /\ gestures' = FALSE /\ saved' = gestures /\ idleListener' = "animator"
  BY DEF execute, onAnimationStart, setUiSettings
<1> QED
  BY <1>1, <1>2, <1>3, <1>4, <1>5 DEF AnimatorTypes

-----------------------------------------------------------------------------
(* Types *)

\* Steps that leave the animator, the camera, the markers and the stored favourites alone.
Quiet ==
    \/ ConnectClick \/ onInfoWindowClick \/ showCountryFilterDialog \/ onCancel
    \/ LocationClick \/ updateMasterMarkerWithDelay \/ DelayOver \/ createGeoJson
    \/ onSessionCancelled \/ UNCHANGED vars

\* What a quiet step leaves unchanged.
LEMMA QuietStep ==
    ASSUME Quiet
    PROVE  /\ UNCHANGED animatorVars /\ UNCHANGED gestures /\ UNCHANGED cameraVars
           /\ UNCHANGED phase /\ UNCHANGED markerVars /\ UNCHANGED clickListener
           /\ UNCHANGED clickable /\ UNCHANGED favChecked /\ UNCHANGED storedVars
           /\ UNCHANGED crossed
<1>1. CASE ConnectClick
  BY <1>1 DEF ConnectClick, toggleCommand, viewVars, sessionVars
<1>2. CASE onInfoWindowClick
  BY <1>2 DEF onInfoWindowClick, toggleCommand, viewVars, sessionVars
<1>3. CASE showCountryFilterDialog \/ onCancel
  BY <1>3 DEF showCountryFilterDialog, onCancel, sessionVars
<1>4. CASE LocationClick \/ updateMasterMarkerWithDelay \/ DelayOver \/ createGeoJson
  BY <1>4 DEF LocationClick, updateMasterMarkerWithDelay, DelayOver, createGeoJson, viewVars,
              sessionVars
<1>5. CASE onSessionCancelled
  BY <1>5 DEF onSessionCancelled
<1>6. CASE UNCHANGED vars
  BY <1>6 DEF vars, viewVars, sessionVars
<1> QED
  BY <1>1, <1>2, <1>3, <1>4, <1>5, <1>6 DEF Quiet

\* The steps of the specification, the quiet ones apart.
LEMMA StepCases ==
    [Next]_vars =>
        \/ Quiet \/ showData \/ onMapLoaded \/ onDestroy \/ onAnimationFinish \/ CameraIdle
        \/ UserMoves \/ onMapClick \/ (\E m \in Markers : onMarkerClick(m))
        \/ toggleFavoriteMarker
        \/ (\E passing \in SUBSET Countries \ {{}} : onSelected(passing))
        \/ animateCamera \/ onSessionStarted \/ onSessionFinished
  BY DEF Next, Camera, User, Requests, Session, Quiet

\* Every step keeps the animator's types.
LEMMA AnimatorTypesStep == TypeOK /\ AnimatorShape /\ [Next]_vars => AnimatorTypes'
<1> SUFFICES ASSUME TypeOK, AnimatorShape, [Next]_vars
             PROVE  AnimatorTypes'
  OBVIOUS
<1>0. AnimatorTypes
  BY DEF TypeOK
<1>1. CASE Quiet
  BY <1>0, <1>1, QuietStep DEF AnimatorTypes, animatorVars, cameraVars
<1>2. CASE showData
  <2>1. PICK target \in CurrentPositions(prefFlags) : mCameraUpdates' = FirstAnimations(target)
    BY <1>2 DEF showData
  <2>2. mCameraUpdates' \in Seq(Animation)
    BY <2>1, PositionsAreMarkers, FirstAnimationsShape
  <2>3. gestures' = TRUE /\ UNCHANGED <<mAnimating, saved, idleListener, moving, running, aim>>
    BY <1>2 DEF showData, cameraVars
  <2> QED
    BY <1>0, <2>2, <2>3 DEF AnimatorTypes
<1>3. CASE onMapLoaded
  <2>1. execute(mCameraUpdates) /\ mCameraUpdates \in Seq(Animation) /\ mCameraUpdates # <<>>
    BY <1>0, <1>3 DEF onMapLoaded, Execute, AnimatorTypes, AnimatorShape
  <2> QED
    BY <1>0, <2>1, ExecuteTypes
<1>4. CASE onDestroy
  <2>1. <<>> \in Seq(Animation)
    OBVIOUS
  <2> QED
    BY <1>4, <2>1 DEF onDestroy, AnimatorTypes
<1>5. CASE onAnimationFinish
  <2>1. running' = NULL /\ UNCHANGED animatorVars /\ UNCHANGED gestures
        /\ UNCHANGED <<moving, aim>>
    BY <1>5 DEF onAnimationFinish
  <2> QED
    BY <1>0, <2>1 DEF AnimatorTypes, animatorVars
<1>6. CASE CameraIdle
  <2>1. CASE idleListener = "none" \/ idleListener = "tower"
    <3>1. moving' = FALSE /\ UNCHANGED animatorVars /\ UNCHANGED gestures
          /\ UNCHANGED <<running, aim>>
      BY <1>6, <2>1 DEF CameraIdle
    <3> QED
      BY <1>0, <3>1 DEF AnimatorTypes, animatorVars
  <2>2. CASE idleListener = "animator" /\ mCameraUpdates # <<>>
    <3>1. Head(mCameraUpdates) \in Animation /\ Tail(mCameraUpdates) \in Seq(Animation)
      BY <1>0, <2>2, TailShape DEF AnimatorTypes
    <3>2. /\ startAnimation(Head(mCameraUpdates)) /\ mCameraUpdates' = Tail(mCameraUpdates)
          /\ UNCHANGED <<mAnimating, saved, idleListener, gestures>>
      BY <1>6, <2>2 DEF CameraIdle, executeNext
    <3>3. moving' = TRUE /\ aim' \in Markers \cup {NULL} /\ running' \in Animation \cup {NULL}
      BY <3>1, <3>2 DEF startAnimation, MoveTo, Animation
    <3> QED
      BY <1>0, <3>1, <3>2, <3>3 DEF AnimatorTypes
  <2>3. CASE idleListener = "animator" /\ mCameraUpdates = <<>>
    <3>1. moving' = FALSE /\ onAnimationEnd
      BY <1>6, <2>3 DEF CameraIdle
    <3> QED
      BY <1>0, <3>1 DEF AnimatorTypes, onAnimationEnd
  <2> QED
    BY <1>0, <2>1, <2>2, <2>3 DEF AnimatorTypes
<1>7. CASE UserMoves
  BY <1>0, <1>7 DEF UserMoves, MoveTo, AnimatorTypes, animatorVars
<1>8. CASE \E m \in Markers : onMarkerClick(m)
  BY <1>0, <1>8 DEF onMarkerClick, MoveTo, AnimatorTypes, animatorVars
<1>9. CASE \/ onMapClick \/ toggleFavoriteMarker
           \/ \E passing \in SUBSET Countries \ {{}} : onSelected(passing)
  <2>1. UNCHANGED animatorVars /\ UNCHANGED gestures /\ UNCHANGED cameraVars
    BY <1>9 DEF onMapClick, toggleFavoriteMarker, onSelected
  <2> QED
    BY <1>0, <2>1 DEF AnimatorTypes, animatorVars, cameraVars
<1>10. CASE animateCamera
  <2>1. CASE mAnimating
    BY <1>0, <1>10, <2>1 DEF animateCamera, AnimatorTypes, animatorVars, cameraVars
  <2>2. CASE ~mAnimating
    <3>1. PICK target \in CurrentPositions(flags) :
             Execute(Append(mCameraUpdates, [kind |-> "location", target |-> target]))
      BY <1>10, <2>2 DEF animateCamera
    <3>2. [kind |-> "location", target |-> target] \in Animation
      BY PositionsAreMarkers DEF Animation
    <3> DEFINE q == Append(mCameraUpdates, [kind |-> "location", target |-> target])
    <3>3. q \in Seq(Animation) /\ q # <<>>
      BY <1>0, <3>2, AppendProperties, EmptySeq DEF AnimatorTypes
    <3>4. execute(q)
      BY <3>1 DEF Execute
    <3> HIDE DEF q
    <3> QED
      BY <1>0, <3>3, <3>4, ExecuteTypes
  <2> QED
    BY <2>1, <2>2
<1>11. CASE onSessionStarted \/ onSessionFinished
  <2>1. UNCHANGED animatorVars /\ UNCHANGED cameraVars /\ gestures' \in BOOLEAN
    BY <1>11 DEF onSessionStarted, onSessionFinished
  <2> QED
    BY <1>0, <2>1 DEF AnimatorTypes, animatorVars, cameraVars
<1> QED
  BY <1>1, <1>2, <1>3, <1>4, <1>5, <1>6, <1>7, <1>8, <1>9, <1>10, <1>11, StepCases

\* Deselecting keeps the icons' type.
LEMMA DeselectTypes ==
    ASSUME MarkerTypes, NEW markers, Deselect(markers)
    PROVE  z' \in [Markers -> {"plain", "favorite", "selected"}]
<1>1. \A m \in Markers : (IF m \in markers THEN Icon(m) ELSE z[m])
                             \in {"plain", "favorite", "selected"}
  BY DEF MarkerTypes, Icon
<1> QED
  BY <1>1 DEF Deselect

\* Every step keeps the types of the markers and of what is stored.
LEMMA MarkerTypesStep == TypeOK /\ [Next]_vars => MarkerTypes'
<1> SUFFICES ASSUME TypeOK, [Next]_vars
             PROVE  MarkerTypes'
  OBVIOUS
<1>0. MarkerTypes
  BY DEF TypeOK
<1>1. CASE Quiet
  BY <1>0, <1>1, QuietStep DEF MarkerTypes, markerVars, storedVars
<1>2. CASE showData
  BY <1>0, <1>2 DEF showData, createMarkers, showPrintArray, MarkerTypes, storedVars
<1>3. CASE onMapLoaded \/ UserMoves \/ animateCamera
  <2>1. UNCHANGED markerVars /\ UNCHANGED storedVars
    BY <1>3 DEF onMapLoaded, UserMoves, animateCamera
  <2> QED
    BY <1>0, <2>1 DEF MarkerTypes, markerVars, storedVars
<1>4. CASE onDestroy
  BY <1>0, <1>4 DEF onDestroy, MarkerTypes, storedVars
<1>5. CASE onAnimationFinish
  <2>1. UNCHANGED <<level, view, flags, favorites, prefFlags>>
    BY <1>5 DEF onAnimationFinish, storedVars
  <2>2. running.target \in Markers \cup {NULL}
    BY <1>5 DEF onAnimationFinish, TypeOK, AnimatorTypes, Animation
  <2>3. CASE UNCHANGED <<z, visible, info>>
    BY <1>0, <2>1, <2>3 DEF MarkerTypes
  <2>4. CASE /\ running.target # NULL
             /\ z' = [z EXCEPT ![running.target] = "selected"]
             /\ visible' = visible \cup {running.target}
             /\ info' = running.target
    BY <1>0, <2>1, <2>2, <2>4 DEF MarkerTypes
  <2> QED
    BY <1>5, <2>3, <2>4 DEF onAnimationFinish
<1>6. CASE CameraIdle
  <2>1. UNCHANGED <<level, flags, favorites, prefFlags>>
    BY <1>6 DEF CameraIdle, storedVars
  <2>2. CASE UNCHANGED <<z, visible, info, view>>
    BY <1>0, <2>1, <2>2 DEF MarkerTypes
  <2>3. ASSUME NEW region \in SUBSET Markers, view' = region, onCameraIdle(region, flags)
        PROVE  MarkerTypes'
    <3>1. z' \in [Markers -> {"plain", "favorite", "selected"}]
      BY <1>0, <2>3, DeselectTypes DEF onCameraIdle
    <3>2. visible' \subseteq Markers /\ info' \in Markers \cup {NULL}
      BY <1>0, <2>3 DEF onCameraIdle, MarkerTypes
    <3> QED
      BY <1>0, <2>1, <2>3, <3>1, <3>2 DEF MarkerTypes
  <2> QED
    BY <1>6, <2>2, <2>3 DEF CameraIdle
<1>7. CASE onMapClick
  <2>1. z' \in [Markers -> {"plain", "favorite", "selected"}]
    BY <1>0, <1>7, DeselectTypes DEF onMapClick
  <2> QED
    BY <1>0, <1>7, <2>1 DEF onMapClick, MarkerTypes, storedVars
<1>8. CASE \E m \in Markers : onMarkerClick(m)
  <2>1. PICK m \in Markers : onMarkerClick(m)
    BY <1>8
  <2>2. info' = m /\ UNCHANGED <<level, visible, view, flags, favorites, prefFlags>>
    BY <2>1 DEF onMarkerClick, storedVars
  <2>3. z' \in [Markers -> {"plain", "favorite", "selected"}]
    BY <1>0, <2>1 DEF onMarkerClick, MarkerTypes, Icon
  <2> QED
    BY <1>0, <2>2, <2>3 DEF MarkerTypes
<1>9. CASE toggleFavoriteMarker
  <2>1. selected \in Markers
    BY <1>9, SelectedIsSelected DEF toggleFavoriteMarker, Selected
  <2>2. level' \in [Markers -> {0, 1}]
    BY <1>0, <1>9, <2>1 DEF toggleFavoriteMarker, MarkerTypes
  <2>3. favorites' \subseteq Markers
    BY <1>0, <1>9, <2>1 DEF toggleFavoriteMarker, addFavorite, removeFavorite, MarkerTypes
  <2> QED
    BY <1>0, <1>9, <2>2, <2>3 DEF toggleFavoriteMarker, MarkerTypes
<1>10. CASE \E passing \in SUBSET Countries \ {{}} : onSelected(passing)
  <2>1. PICK passing \in SUBSET Countries \ {{}} : onSelected(passing)
    BY <1>10
  <2>2. /\ flags' = passing /\ prefFlags' = passing /\ UNCHANGED <<level, view, favorites>>
    BY <2>1 DEF onSelected
  <2>3. PICK region \in SUBSET Markers : onCameraIdle(region, passing)
    BY <1>0, <2>1 DEF onSelected, MarkerTypes
  <2>4. z' \in [Markers -> {"plain", "favorite", "selected"}]
    BY <1>0, <2>3, DeselectTypes DEF onCameraIdle
  <2>5. visible' \subseteq Markers /\ info' \in Markers \cup {NULL}
    BY <1>0, <2>3 DEF onCameraIdle, MarkerTypes
  <2> QED
    BY <1>0, <2>2, <2>4, <2>5 DEF MarkerTypes
<1>11. CASE onSessionStarted \/ onSessionFinished
  <2>1. UNCHANGED <<level, z, visible, view, flags, favorites, prefFlags>>
    BY <1>11 DEF onSessionStarted, onSessionFinished, storedVars
  <2>2. info' \in {info, selected, NULL}
    BY <1>11 DEF onSessionStarted, onSessionFinished
  <2>3. selected \in Markers \cup {NULL}
    BY SelectedIsSelected DEF Selected
  <2> QED
    BY <1>0, <2>1, <2>2, <2>3 DEF MarkerTypes
<1> QED
  BY <1>1, <1>2, <1>3, <1>4, <1>5, <1>6, <1>7, <1>8, <1>9, <1>10, <1>11, StepCases

\* Every step keeps the types of the screen.
LEMMA ViewTypesStep == TypeOK /\ [Next]_vars => ViewTypes'
<1> SUFFICES ASSUME TypeOK, [Next]_vars
             PROVE  ViewTypes'
  OBVIOUS
<1>0. ViewTypes
  BY DEF TypeOK
<1> USE DEF Buttons
<1>1. CASE Quiet
  <2>1. shown' \subseteq Buttons
    BY <1>0, <1>1 DEF Quiet, ConnectClick, onInfoWindowClick, showCountryFilterDialog, onCancel,
         LocationClick, updateMasterMarkerWithDelay, DelayOver, createGeoJson,
         onSessionCancelled, ViewTypes, vars, viewVars
  <2>2. filter' \in BOOLEAN
    BY <1>0, <1>1 DEF Quiet, ConnectClick, onInfoWindowClick, showCountryFilterDialog, onCancel,
         LocationClick, updateMasterMarkerWithDelay, DelayOver, createGeoJson,
         onSessionCancelled, ViewTypes, vars, viewVars
  <2> QED
    BY <1>0, <1>1, <2>1, <2>2, QuietStep DEF ViewTypes
<1>2. CASE showData \/ UserMoves
  BY <1>0, <1>2 DEF showData, UserMoves, ViewTypes, viewVars
<1>3. CASE onMapLoaded
  BY <1>0, <1>3 DEF onMapLoaded, Execute, ViewTypes
<1>4. CASE onDestroy
  BY <1>4 DEF onDestroy, ViewTypes
<1>5. CASE onAnimationFinish
  <2>1. UNCHANGED <<phase, clickListener, clickable, filter>>
    BY <1>5 DEF onAnimationFinish
  <2>2. shown' \subseteq Buttons
    BY <1>0, <1>5 DEF onAnimationFinish, ViewTypes
  <2>3. favChecked' \in BOOLEAN
    BY <1>0, <1>5 DEF onAnimationFinish, ViewTypes
  <2> QED
    BY <1>0, <2>1, <2>2, <2>3 DEF ViewTypes
<1>6. CASE CameraIdle
  <2>1. UNCHANGED <<phase, clickListener, favChecked, filter>>
    BY <1>6 DEF CameraIdle
  <2>2. shown' \subseteq Buttons
    BY <1>0, <1>6 DEF CameraIdle, onCameraIdle, ViewTypes
  <2>3. clickable' \in BOOLEAN
    BY <1>0, <1>6 DEF CameraIdle, ViewTypes
  <2> QED
    BY <1>0, <2>1, <2>2, <2>3 DEF ViewTypes
<1>7. CASE onMapClick
  BY <1>0, <1>7 DEF onMapClick, ViewTypes
<1>8. CASE \E m \in Markers : onMarkerClick(m)
  <2>1. PICK m \in Markers : onMarkerClick(m)
    BY <1>8
  <2>2. UNCHANGED <<phase, clickListener, clickable, filter>>
    BY <2>1 DEF onMarkerClick
  <2>3. shown' \subseteq Buttons /\ favChecked' \in BOOLEAN
    BY <1>0, <2>1 DEF onMarkerClick, toggleFavoriteButton, ViewTypes
  <2> QED
    BY <1>0, <2>2, <2>3 DEF ViewTypes
<1>9. CASE toggleFavoriteMarker
  BY <1>0, <1>9 DEF toggleFavoriteMarker, ViewTypes
<1>10. CASE \E passing \in SUBSET Countries \ {{}} : onSelected(passing)
  <2>1. PICK passing \in SUBSET Countries \ {{}} : onSelected(passing)
    BY <1>10
  <2>2. shown' \subseteq Buttons
    BY <1>0, <2>1 DEF onSelected, onCameraIdle, ViewTypes
  <2> QED
    BY <1>0, <2>1, <2>2 DEF onSelected, ViewTypes
<1>11. CASE animateCamera
  <2>1. clickable' \in BOOLEAN
    BY <1>0, <1>11 DEF animateCamera, Execute, ViewTypes
  <2> QED
    BY <1>0, <1>11, <2>1 DEF animateCamera, ViewTypes
<1>12. CASE onSessionStarted \/ onSessionFinished
  <2>1. UNCHANGED <<phase, clickable, favChecked, filter>>
    BY <1>12 DEF onSessionStarted, onSessionFinished
  <2>2. shown' \subseteq Buttons /\ clickListener' \in {"tower", "swallow"}
    BY <1>0, <1>12 DEF onSessionStarted, onSessionFinished, ViewTypes
  <2> QED
    BY <1>0, <2>1, <2>2 DEF ViewTypes
<1> QED
  BY <1>1, <1>2, <1>3, <1>4, <1>5, <1>6, <1>7, <1>8, <1>9, <1>10, <1>11, <1>12, StepCases

\* Every step keeps the types of the session and of the requests.
LEMMA SessionTypesStep == TypeOK /\ [Next]_vars => SessionTypes'
<1> SUFFICES ASSUME TypeOK, [Next]_vars
             PROVE  SessionTypes'
  OBVIOUS
<1>0. SessionTypes
  BY DEF TypeOK
<1>1. CASE UNCHANGED sessionVars /\ UNCHANGED requestVars
  BY <1>0, <1>1 DEF SessionTypes, sessionVars, requestVars
<1>2. CASE toggleCommand /\ UNCHANGED requestVars
  <2>1. selected \in Markers \cup {NULL}
    BY SelectedIsSelected DEF Selected
  <2>2. session' \in {"none", "asked", "open"} /\ announced' \in Markers \cup {NULL}
    BY <1>0, <1>2, <2>1 DEF toggleCommand, SessionTypes, sessionVars
  <2>3. UNCHANGED crossed
    BY <1>2 DEF toggleCommand, sessionVars
  <2> QED
    BY <1>0, <1>2, <2>2, <2>3 DEF SessionTypes, requestVars
<1>3. CASE onDestroy
  BY <1>3 DEF onDestroy, SessionTypes
<1>4. CASE LocationClick \/ updateMasterMarkerWithDelay \/ DelayOver \/ createGeoJson
           \/ animateCamera
  <2>1. UNCHANGED sessionVars
    BY <1>4 DEF LocationClick, updateMasterMarkerWithDelay, DelayOver, createGeoJson,
         animateCamera
  <2>2. locating' \in BOOLEAN
    BY <1>0, <1>4 DEF LocationClick, updateMasterMarkerWithDelay, DelayOver, createGeoJson,
         animateCamera, updateMasterMarker, SessionTypes
  <2>3. found' \in BOOLEAN
    BY <1>0, <1>4 DEF LocationClick, updateMasterMarkerWithDelay, DelayOver, createGeoJson,
         animateCamera, SessionTypes
  <2>4. delayed' \in Nat
    BY <1>0, <1>4 DEF LocationClick, updateMasterMarkerWithDelay, DelayOver, createGeoJson,
         animateCamera, SessionTypes
  <2> QED
    BY <1>0, <2>1, <2>2, <2>3, <2>4 DEF SessionTypes, sessionVars
<1>5. CASE onSessionStarted \/ onSessionFinished \/ onSessionCancelled
  <2>1. session' \in {"none", "open"} /\ UNCHANGED announced /\ UNCHANGED requestVars
    BY <1>5 DEF onSessionStarted, onSessionFinished, onSessionCancelled
  <2>2. crossed' = mAnimating \/ crossed' = crossed
    BY <1>5 DEF onSessionStarted, onSessionFinished, onSessionCancelled
  <2>3. crossed' \in BOOLEAN
    BY <1>0, <2>2 DEF SessionTypes, TypeOK, AnimatorTypes
  <2> QED
    BY <1>0, <2>1, <2>3 DEF SessionTypes, requestVars
<1>6. CASE ConnectClick \/ onInfoWindowClick
  BY <1>2, <1>6 DEF ConnectClick, onInfoWindowClick
<1>7. CASE \E m \in Markers : onMarkerClick(m)
  BY <1>1, <1>2, <1>7 DEF onMarkerClick
<1>8. CASE showData \/ onMapLoaded \/ onAnimationFinish \/ CameraIdle \/ UserMoves \/ onMapClick
           \/ toggleFavoriteMarker \/ showCountryFilterDialog \/ onCancel
           \/ \E passing \in SUBSET Countries \ {{}} : onSelected(passing)
  BY <1>1, <1>8 DEF showData, onMapLoaded, onAnimationFinish, CameraIdle, UserMoves, onMapClick,
       toggleFavoriteMarker, showCountryFilterDialog, onCancel, onSelected
<1>9. CASE UNCHANGED vars
  BY <1>1, <1>9 DEF vars
<1> QED
  BY <1>3, <1>4, <1>5, <1>6, <1>7, <1>8, <1>9 DEF Next, Camera, User, Requests, Session

-----------------------------------------------------------------------------
(* The animator, and the map before the first animation has finished *)

\* Starting the first update of a queue: the animation of the start is started last, and does
\* not appear from nowhere.
LEMMA ExecuteNextShape ==
    ASSUME NEW q \in Seq(Animation), q # <<>>, ClosestIsLast(q), executeNext(q)
    PROVE  /\ ClosestIsLast(mCameraUpdates')
           /\ running' # NULL /\ running'.kind = "closest" => mCameraUpdates' = <<>>
           /\ ClosestIn(mCameraUpdates') => ClosestIn(q)
           /\ running' # NULL /\ running'.kind = "closest" => ClosestIn(q)
<1>1. /\ Head(q) = q[1] /\ Tail(q) \in Seq(Animation)
      /\ Len(q) \in Nat /\ Len(q) > 0 /\ Len(Tail(q)) = Len(q) - 1
      /\ \A i \in 1 .. Len(Tail(q)) : Tail(q)[i] = q[i + 1]
  BY TailShape
<1>2. mCameraUpdates' = Tail(q)
  BY DEF executeNext
<1>3. running' # NULL => running' = q[1]
  BY <1>1 DEF executeNext, startAnimation, MoveTo
<1>4. ClosestIsLast(Tail(q))
  <2> SUFFICES ASSUME NEW i \in 1 .. Len(Tail(q)), Tail(q)[i].kind = "closest"
               PROVE  i = Len(Tail(q))
    BY DEF ClosestIsLast
  <2>1. i + 1 \in 1 .. Len(q)
    BY <1>1
  <2>2. q[i + 1].kind = "closest"
    BY <1>1
  <2>3. i + 1 = Len(q)
    BY <2>1, <2>2 DEF ClosestIsLast
  <2>4. i \in Int /\ Len(q) \in Int /\ Len(Tail(q)) = Len(q) - 1
    BY <1>1
  <2> QED
    BY <2>3, <2>4
<1>5. ClosestIn(Tail(q)) => ClosestIn(q)
  BY <1>1 DEF ClosestIn
<1>6. ASSUME running' # NULL, running'.kind = "closest"
      PROVE  Tail(q) = <<>> /\ ClosestIn(q)
  <2>1. q[1].kind = "closest" /\ 1 \in 1 .. Len(q)
    BY <1>1, <1>3, <1>6
  <2>2. Len(q) = 1
    BY <2>1 DEF ClosestIsLast
  <2>3. Len(Tail(q)) = 0
    BY <1>1, <2>2
  <2>4. Tail(q) = <<>>
    BY <1>1, <2>3, EmptySeq
  <2> QED
    BY <2>1, <2>4 DEF ClosestIn
<1> QED
  BY <1>2, <1>4, <1>5, <1>6

\* Every step keeps the shape of the animator.
LEMMA AnimatorShapeStep == TypeOK /\ AnimatorShape /\ NothingYet /\ [Next]_vars => AnimatorShape'
<1> SUFFICES ASSUME TypeOK, AnimatorShape, NothingYet, [Next]_vars
             PROVE  AnimatorShape'
  OBVIOUS
<1>0. mCameraUpdates \in Seq(Animation) /\ ClosestIsLast(mCameraUpdates)
  BY DEF TypeOK, AnimatorTypes, AnimatorShape, ClosestIsLast
<1>1. CASE UNCHANGED animatorVars /\ UNCHANGED running /\ UNCHANGED phase
  BY <1>1 DEF AnimatorShape, animatorVars
<1>2. CASE UNCHANGED animatorVars /\ running' = NULL /\ UNCHANGED phase
  BY <1>2 DEF AnimatorShape, animatorVars
<1>3. CASE showData
  <2>1. PICK target \in CurrentPositions(prefFlags) : mCameraUpdates' = FirstAnimations(target)
    BY <1>3 DEF showData
  <2> DEFINE q == FirstAnimations(target)
  <2>2. /\ q # <<>> /\ Len(q) = Tiles + 1
        /\ \A i \in 1 .. Tiles : q[i].kind = "tile"
    BY PositionsAreMarkers, FirstAnimationsShape
  <2> HIDE DEF q
  <2>3. \A i \in 1 .. Len(q) : q[i].kind = "closest" => i = Len(q)
    BY <2>2, TowerAssumption
  <2>4. mCameraUpdates' = q
    BY <2>1 DEF q
  <2>5. phase' = "ready" /\ idleListener' = "none" /\ ~mAnimating' /\ running' = NULL
    BY <1>3 DEF showData, AnimatorShape, cameraVars
  <2> QED
    BY <2>2, <2>3, <2>4, <2>5 DEF AnimatorShape, ClosestIsLast
<1>4. CASE onMapLoaded
  <2>1. /\ phase' = "loaded" /\ mAnimating' = TRUE /\ idleListener' = "animator"
        /\ executeNext(mCameraUpdates) /\ mCameraUpdates # <<>>
    BY <1>4 DEF onMapLoaded, Execute, execute, onAnimationStart, AnimatorShape
  <2>2. /\ ClosestIsLast(mCameraUpdates')
        /\ running' # NULL /\ running'.kind = "closest" => mCameraUpdates' = <<>>
    BY <1>0, <2>1, ExecuteNextShape
  <2> QED
    BY <2>1, <2>2 DEF AnimatorShape, ClosestIsLast
<1>5. CASE onDestroy
  BY <1>5 DEF onDestroy, AnimatorShape, ClosestIsLast
<1>6. CASE CameraIdle
  <2>0. running = NULL /\ UNCHANGED phase
    BY <1>6 DEF CameraIdle
  <2>1. CASE idleListener = "none" \/ idleListener = "tower"
    <3>1. UNCHANGED animatorVars /\ UNCHANGED running
      BY <1>6, <2>1 DEF CameraIdle
    <3> QED
      BY <1>1, <2>0, <3>1
  <2>2. CASE idleListener = "animator" /\ mCameraUpdates # <<>>
    <3>1. executeNext(mCameraUpdates) /\ UNCHANGED <<mAnimating, idleListener>>
      BY <1>6, <2>2 DEF CameraIdle
    <3>2. /\ ClosestIsLast(mCameraUpdates')
          /\ running' # NULL /\ running'.kind = "closest" => mCameraUpdates' = <<>>
      BY <1>0, <2>2, <3>1, ExecuteNextShape
    <3>3. phase = "loaded" /\ mAnimating
      BY <2>2 DEF AnimatorShape
    <3> QED
      BY <2>0, <2>2, <3>1, <3>2, <3>3 DEF AnimatorShape, ClosestIsLast
  <2>3. CASE idleListener = "animator" /\ mCameraUpdates = <<>>
    <3>1. onAnimationEnd
      BY <1>6, <2>3 DEF CameraIdle
    <3>2. phase = "loaded"
      BY <2>3 DEF AnimatorShape
    <3> QED
      BY <2>0, <2>3, <3>1, <3>2 DEF AnimatorShape, onAnimationEnd
  <2> QED
    BY <2>1, <2>2, <2>3 DEF TypeOK, AnimatorTypes
<1>7. CASE animateCamera
  <2>0. UNCHANGED phase
    BY <1>7 DEF animateCamera
  <2>1. CASE mAnimating
    <3>1. UNCHANGED animatorVars /\ UNCHANGED cameraVars
      BY <1>7, <2>1 DEF animateCamera
    <3> QED
      BY <1>1, <2>0, <3>1 DEF cameraVars
  <2>2. CASE ~mAnimating
    <3>1. PICK target \in CurrentPositions(flags) :
             Execute(Append(mCameraUpdates, [kind |-> "location", target |-> target]))
      BY <1>7, <2>2 DEF animateCamera
    <3> DEFINE a == [kind |-> "location", target |-> target]
    <3>2. phase = "loaded" /\ mCameraUpdates = <<>>
      BY <1>7, <2>2 DEF animateCamera, NothingYet, Starting, AnimatorShape
    <3>3. Append(mCameraUpdates, a) = <<a>> /\ Tail(<<a>>) = <<>> /\ Head(<<a>>) = a
      BY <3>2
    <3>4. /\ mAnimating' = TRUE /\ idleListener' = "animator" /\ mCameraUpdates' = <<>>
      BY <3>1, <3>3 DEF Execute, execute, onAnimationStart, executeNext
    <3> QED
      BY <2>0, <3>2, <3>4 DEF AnimatorShape
  <2> QED
    BY <2>1, <2>2
<1>8. CASE Quiet
  BY <1>1, <1>8, QuietStep DEF cameraVars
<1>9. CASE \/ onMapClick \/ toggleFavoriteMarker \/ onSessionStarted \/ onSessionFinished
           \/ \E passing \in SUBSET Countries \ {{}} : onSelected(passing)
  <2>1. UNCHANGED animatorVars /\ UNCHANGED cameraVars /\ UNCHANGED phase
    BY <1>9 DEF onMapClick, toggleFavoriteMarker, onSessionStarted, onSessionFinished, onSelected
  <2> QED
    BY <1>1, <2>1 DEF cameraVars
<1>10. CASE onAnimationFinish \/ UserMoves \/ \E m \in Markers : onMarkerClick(m)
  BY <1>2, <1>10 DEF onAnimationFinish, UserMoves, onMarkerClick, MoveTo
<1> QED
  BY <1>3, <1>4, <1>5, <1>6, <1>7, <1>8, <1>9, <1>10, StepCases

\* The animation of the start begins with the activity, and no later step brings it back.
LEMMA StartingStep ==
    TypeOK /\ AnimatorShape /\ NothingYet /\ [Next]_vars => onDestroy \/ (Starting' => Starting)
<1> SUFFICES ASSUME TypeOK, AnimatorShape, NothingYet, [Next]_vars, ~onDestroy, ~Starting
             PROVE  ~Starting'
  OBVIOUS
<1>0. /\ mCameraUpdates \in Seq(Animation) /\ ClosestIsLast(mCameraUpdates)
      /\ phase = "loaded" /\ ~ClosestIn(mCameraUpdates)
      /\ ~(running # NULL /\ running.kind = "closest")
  BY DEF TypeOK, AnimatorTypes, AnimatorShape, ClosestIsLast, ClosestIn, Starting
<1>1. CASE UNCHANGED animatorVars /\ UNCHANGED phase /\ (UNCHANGED running \/ running' = NULL)
  BY <1>0, <1>1 DEF Starting, animatorVars, ClosestIn
<1>2. CASE CameraIdle
  <2>0. UNCHANGED phase
    BY <1>2 DEF CameraIdle
  <2>1. CASE idleListener = "none" \/ idleListener = "tower"
    <3>1. UNCHANGED animatorVars /\ UNCHANGED running
      BY <1>2, <2>1 DEF CameraIdle
    <3> QED
      BY <1>1, <2>0, <3>1
  <2>2. CASE idleListener = "animator" /\ mCameraUpdates # <<>>
    <3>1. executeNext(mCameraUpdates)
      BY <1>2, <2>2 DEF CameraIdle
    <3>2. ~ClosestIn(mCameraUpdates') /\ ~(running' # NULL /\ running'.kind = "closest")
      BY <1>0, <2>2, <3>1, ExecuteNextShape
    <3> QED
      BY <1>0, <2>0, <3>2 DEF Starting, ClosestIn
  <2>3. CASE idleListener = "animator" /\ mCameraUpdates = <<>>
    <3>1. onAnimationEnd
      BY <1>2, <2>3 DEF CameraIdle
    <3> QED
      BY <1>0, <2>0, <3>1 DEF onAnimationEnd, Starting, ClosestIn
  <2> QED
    BY <2>1, <2>2, <2>3 DEF TypeOK, AnimatorTypes
<1>3. CASE animateCamera
  <2>0. UNCHANGED phase
    BY <1>3 DEF animateCamera
  <2>1. CASE mAnimating
    <3>1. UNCHANGED animatorVars /\ UNCHANGED cameraVars
      BY <1>3, <2>1 DEF animateCamera
    <3> QED
      BY <1>1, <2>0, <3>1 DEF cameraVars
  <2>2. CASE ~mAnimating
    <3>1. PICK target \in CurrentPositions(flags) :
             Execute(Append(mCameraUpdates, [kind |-> "location", target |-> target]))
      BY <1>3, <2>2 DEF animateCamera
    <3> DEFINE a == [kind |-> "location", target |-> target]
    <3>2. mCameraUpdates = <<>>
      BY <1>0, <2>2 DEF AnimatorShape
    <3>3. Append(mCameraUpdates, a) = <<a>> /\ Tail(<<a>>) = <<>> /\ Head(<<a>>) = a
      BY <3>2
    <3>4. mCameraUpdates' = <<>> /\ running' = a
      BY <3>1, <3>3 DEF Execute, execute, executeNext, startAnimation, MoveTo
    <3> QED
      BY <1>0, <2>0, <3>4 DEF Starting, ClosestIn
  <2> QED
    BY <2>1, <2>2
<1>4. CASE Quiet
  BY <1>1, <1>4, QuietStep DEF cameraVars
<1>5. CASE \/ onMapClick \/ toggleFavoriteMarker \/ onSessionStarted \/ onSessionFinished
           \/ \E passing \in SUBSET Countries \ {{}} : onSelected(passing)
  <2>1. UNCHANGED animatorVars /\ UNCHANGED cameraVars /\ UNCHANGED phase
    BY <1>5 DEF onMapClick, toggleFavoriteMarker, onSessionStarted, onSessionFinished, onSelected
  <2> QED
    BY <1>1, <2>1 DEF cameraVars
<1>6. CASE onAnimationFinish \/ UserMoves \/ \E m \in Markers : onMarkerClick(m)
  BY <1>1, <1>6 DEF onAnimationFinish, UserMoves, onMarkerClick, MoveTo
<1>7. CASE showData \/ onMapLoaded
  BY <1>0, <1>7 DEF showData, onMapLoaded
<1> QED
  BY <1>2, <1>3, <1>4, <1>5, <1>6, <1>7, StepCases

\* Before the animation of the start has finished there is nothing to act on.
LEMMA NothingYetStep == TypeOK /\ AnimatorShape /\ NothingYet /\ [Next]_vars => NothingYet'
<1> SUFFICES ASSUME TypeOK, AnimatorShape, NothingYet, [Next]_vars, Starting'
             PROVE  /\ shown' = {} /\ visible' = {} /\ info' = NULL /\ Selected' = {}
                    /\ session' = "none" /\ ~crossed' /\ ~filter'
                    /\ ~locating' /\ ~found' /\ delayed' = 0
  BY DEF NothingYet
<1>1. CASE onDestroy
  BY <1>1 DEF onDestroy, Selected
<1>2. CASE ~onDestroy
  <2>0. Starting
    BY <1>2, StartingStep
  <2>1. /\ shown = {} /\ visible = {} /\ info = NULL /\ Selected = {}
        /\ session = "none" /\ ~crossed /\ ~filter /\ ~locating /\ ~found /\ delayed = 0
    BY <2>0 DEF NothingYet
  <2>2. selected = NULL
    BY <2>1 DEF selected
  <2>3. CASE showData
    <3>1. Selected' = {}
      BY <2>3 DEF showData, createMarkers, Selected
    <3> QED
      BY <2>1, <2>3, <3>1 DEF showData, viewVars, sessionVars, requestVars
  <2>4. CASE onMapLoaded
    BY <2>1, <2>4 DEF onMapLoaded, markerVars, sessionVars, requestVars, Selected
  <2>5. CASE onAnimationFinish
    <3>1. UNCHANGED animatorVars /\ running' = NULL /\ running # NULL /\ UNCHANGED phase
      BY <2>5 DEF onAnimationFinish
    <3>2. phase = "loaded"
      BY <3>1 DEF AnimatorShape
    <3>3. ClosestIn(mCameraUpdates)
      BY <3>1, <3>2 DEF Starting, animatorVars, ClosestIn
    <3>4. mCameraUpdates # <<>>
      BY <3>3 DEF ClosestIn
    <3>5. running.kind # "closest"
      BY <3>1, <3>4 DEF AnimatorShape
    <3>6. UNCHANGED <<z, visible, info, favChecked, shown>>
      BY <2>5, <3>5 DEF onAnimationFinish
    <3> QED
      BY <2>1, <2>5, <3>6 DEF onAnimationFinish, sessionVars, requestVars, Selected
  <2>6. CASE CameraIdle
    <3>1. UNCHANGED sessionVars /\ UNCHANGED requestVars /\ UNCHANGED filter /\ UNCHANGED phase
      BY <2>6 DEF CameraIdle
    <3>2. UNCHANGED <<z, visible, info, shown>>
      <4>1. CASE phase # "loaded"
        BY <2>6, <4>1 DEF CameraIdle, AnimatorShape
      <4>2. CASE phase = "loaded"
        <5>1. running = NULL
          BY <2>6 DEF CameraIdle
        <5>2. ClosestIn(mCameraUpdates)
          BY <2>0, <4>2, <5>1 DEF Starting, ClosestIn
        <5>3. mCameraUpdates # <<>>
          BY <5>2 DEF ClosestIn
        <5>4. idleListener = "animator"
          BY <4>2, <5>3 DEF AnimatorShape
        <5> QED
          BY <2>6, <5>3, <5>4 DEF CameraIdle
      <4> QED
        BY <4>1, <4>2
    <3> QED
      BY <2>1, <3>1, <3>2 DEF sessionVars, requestVars, Selected
  <2>7. CASE UserMoves
    BY <2>1, <2>7 DEF UserMoves, markerVars, viewVars, sessionVars, requestVars, Selected
  <2>8. CASE UNCHANGED vars
    BY <2>1, <2>8 DEF vars, markerVars, viewVars, sessionVars, requestVars, Selected
  <2>9. CASE \/ ConnectClick \/ onInfoWindowClick \/ onMapClick \/ toggleFavoriteMarker
             \/ showCountryFilterDialog \/ onCancel \/ LocationClick
             \/ (\E m \in Markers : onMarkerClick(m))
             \/ (\E passing \in SUBSET Countries \ {{}} : onSelected(passing))
    BY <2>1, <2>2, <2>9 DEF ConnectClick, onInfoWindowClick, onMapClick, toggleFavoriteMarker,
         showCountryFilterDialog, onCancel, LocationClick, onMarkerClick, onSelected
  <2>10. CASE Requests \/ Session
    BY <2>1, <2>10 DEF Requests, Session, updateMasterMarkerWithDelay, DelayOver, createGeoJson,
         animateCamera, onSessionStarted, onSessionFinished, onSessionCancelled
  <2> QED
    BY <1>2, <2>3, <2>4, <2>5, <2>6, <2>7, <2>8, <2>9, <2>10 DEF Next, Camera, User
<1> QED
  BY <1>1, <1>2

-----------------------------------------------------------------------------
(* Selection, favourites and visibility *)

\* Deselecting markers removes exactly these from the selected ones, and gives them the icon
\* of their level.
LEMMA DeselectEffect ==
    ASSUME MarkerTypes, NEW markers, Deselect(markers)
    PROVE  /\ Selected' = Selected \ markers
           /\ \A m \in Markers : z'[m] = IF m \in markers THEN Icon(m) ELSE z[m]
<1>1. \A m \in Markers : z'[m] = IF m \in markers THEN Icon(m) ELSE z[m]
  BY DEF Deselect
<1>2. \A m \in Markers : Icon(m) # "selected"
  BY DEF Icon
<1> QED
  BY <1>1, <1>2 DEF Selected

\* Refreshing the markers leaves visible those of the region that pass, and a selected one
\* stays selected exactly if it is among them.
LEMMA CameraIdleEffect ==
    ASSUME MarkerTypes, NEW region, NEW passing, onCameraIdle(region, passing)
    PROVE  /\ visible' = {m \in region : Flag[m] \in passing}
           /\ Selected' = Selected \cap visible'
           /\ \A m \in Markers : z'[m] = z[m] \/ (m \in Selected /\ z'[m] = Icon(m))
           /\ shown' = IF Selected' = Selected THEN shown ELSE shown \ {"fab3"}
<1> DEFINE stay == {m \in region : Flag[m] \in passing}
           gone == Selected \ stay
<1>1. visible' = stay /\ Deselect(gone) /\ shown' = IF gone = {} THEN shown ELSE shown \ {"fab3"}
  BY DEF onCameraIdle
<1> HIDE DEF stay
<1>2. /\ Selected' = Selected \ gone
      /\ \A m \in Markers : z'[m] = IF m \in gone THEN Icon(m) ELSE z[m]
  BY <1>1, DeselectEffect
<1>3. Selected' = Selected \cap visible'
  BY <1>1, <1>2
<1>4. gone = {} <=> Selected' = Selected
  BY <1>2
<1> QED
  BY <1>1, <1>2, <1>3, <1>4 DEF stay

\* With at most one selected marker, the first one found is every selected one.
LEMMA SelectedIsTheOne ==
    ASSUME AtMostOneSelected, NEW m \in Selected
    PROVE  selected = m
  BY SelectedIsSelected DEF AtMostOneSelected

\* A click on a marker that is not selected selects it alone.
LEMMA MarkerClickEffect ==
    ASSUME MarkerTypes, AtMostOneSelected, NEW m \in Markers, onMarkerClick(m)
    PROVE  \/ /\ UNCHANGED <<z, favChecked, shown>> /\ m \in Selected
           \/ /\ Selected' = {m} /\ m \notin Selected
              /\ \A n \in Markers \ {m} : z'[n] = z[n] \/ (n \in Selected /\ z'[n] = Icon(n))
              /\ favChecked' = (level[m] = 1)
<1>1. CASE z[m] = "selected"
  BY <1>1 DEF onMarkerClick, Selected
<1>2. CASE z[m] # "selected"
  <2>1. z' = [n \in Markers |-> IF n = m THEN "selected"
                                ELSE IF n = selected THEN Icon(n) ELSE z[n]]
    BY <1>2 DEF onMarkerClick
  <2>2. favChecked' = (level[m] = 1)
    BY <1>2 DEF onMarkerClick, toggleFavoriteButton
  <2>3. \A n \in Markers : n \in Selected' <=> n = m
    <3> SUFFICES ASSUME NEW n \in Markers, n # m
                 PROVE  z'[n] # "selected"
      BY <2>1 DEF Selected
    <3>1. CASE n = selected
      BY <2>1, <3>1 DEF Icon
    <3>2. CASE n # selected
      <4>1. n \notin Selected
        BY <3>2, SelectedIsTheOne
      <4> QED
        BY <2>1, <3>2, <4>1 DEF Selected
    <3> QED
      BY <3>1, <3>2
  <2>4. Selected' = {m}
    BY <2>3 DEF Selected
  <2>5. \A n \in Markers : n = selected => n \in Selected
    BY MarkersAssumption, SelectedIsSelected
  <2> QED
    BY <1>2, <2>1, <2>2, <2>4, <2>5 DEF Selected
<1> QED
  BY <1>1, <1>2

\* An animation of the start ends on a map where nothing is selected yet.
LEMMA FinishEffect ==
    ASSUME TypeOK, AnimatorShape, NothingYet, onAnimationFinish
    PROVE  \/ UNCHANGED <<z, favChecked>> /\ ("fab3" \in shown' => "fab3" \in shown)
           \/ \E m \in Markers :
                 /\ z' = [z EXCEPT ![m] = "selected"]
                 /\ Selected = {} /\ Selected' = {m}
                 /\ favChecked' = (level[m] = 1)
<1>1. CASE /\ running.kind = "closest"
           /\ running.target # NULL /\ Flag[running.target] \in flags
  <2> DEFINE m == running.target
  <2>1. m \in Markers
    BY <1>1 DEF onAnimationFinish, TypeOK, AnimatorTypes, Animation
  <2>2. Selected = {}
    BY <1>1 DEF onAnimationFinish, NothingYet, Starting
  <2>3. z' = [z EXCEPT ![m] = "selected"]
    BY <1>1 DEF onAnimationFinish
  <2>4. favChecked' = (level[m] = 1)
    BY <1>1 DEF onAnimationFinish
  <2> HIDE DEF m
  <2>5. Selected' = {m}
    BY <2>1, <2>2, <2>3 DEF Selected, TypeOK, MarkerTypes
  <2> QED
    BY <2>1, <2>2, <2>3, <2>4, <2>5
<1>2. CASE ~(/\ running.kind = "closest"
             /\ running.target # NULL /\ Flag[running.target] \in flags)
  BY <1>2 DEF onAnimationFinish
<1> QED
  BY <1>1, <1>2

\* Every step leaves at most one marker selected.
LEMMA AtMostOneSelectedStep == IInv /\ [Next]_vars => AtMostOneSelected'
<1> SUFFICES ASSUME IInv, [Next]_vars
             PROVE  AtMostOneSelected'
  OBVIOUS
<1>0. MarkerTypes /\ AtMostOneSelected
  BY DEF IInv, TypeOK
<1>1. CASE Selected' \subseteq Selected
  BY <1>0, <1>1 DEF AtMostOneSelected
<1>2. CASE UNCHANGED z
  BY <1>1, <1>2 DEF Selected
<1>3. CASE showData \/ onDestroy
  <2>1. Selected' = {}
    BY <1>3 DEF showData, createMarkers, onDestroy, Selected
  <2> QED
    BY <2>1 DEF AtMostOneSelected
<1>4. CASE onAnimationFinish
  <2>1. UNCHANGED z \/ \E m \in Markers : Selected' = {m}
    BY <1>4, FinishEffect DEF IInv
  <2> QED
    BY <1>2, <2>1 DEF AtMostOneSelected
<1>5. CASE CameraIdle
  <2>1. UNCHANGED z \/ \E region \in SUBSET Markers : onCameraIdle(region, flags)
    BY <1>5 DEF CameraIdle
  <2> QED
    BY <1>0, <1>1, <1>2, <2>1, CameraIdleEffect
<1>6. CASE onMapClick
  BY <1>0, <1>1, <1>6, DeselectEffect DEF onMapClick
<1>7. CASE \E m \in Markers : onMarkerClick(m)
  <2>1. UNCHANGED z \/ \E m \in Markers : Selected' = {m}
    BY <1>0, <1>7, MarkerClickEffect
  <2> QED
    BY <1>2, <2>1 DEF AtMostOneSelected
<1>8. CASE \E passing \in SUBSET Countries \ {{}} : onSelected(passing)
  <2>1. \E region, passing : onCameraIdle(region, passing)
    BY <1>8 DEF onSelected
  <2> QED
    BY <1>0, <1>1, <2>1, CameraIdleEffect
<1>9. CASE Quiet
  BY <1>2, <1>9, QuietStep DEF markerVars
<1>10. CASE onMapLoaded \/ UserMoves \/ toggleFavoriteMarker \/ animateCamera
            \/ onSessionStarted \/ onSessionFinished
  BY <1>2, <1>10 DEF onMapLoaded, UserMoves, toggleFavoriteMarker, animateCamera,
       onSessionStarted, onSessionFinished, markerVars
<1> QED
  BY <1>3, <1>4, <1>5, <1>6, <1>7, <1>8, <1>9, <1>10, StepCases

\* The favourites of the map, its icons and the stored favourites stay in agreement.
LEMMA FavoritesAgreeStep == IInv /\ [Next]_vars => FavoritesAgree'
<1> SUFFICES ASSUME IInv, [Next]_vars, phase' # "loading", NEW m \in Markers
             PROVE  /\ (level[m] = 1 <=> m \in favorites)'
                    /\ (m \notin Selected => z[m] = Icon(m))'
  BY DEF FavoritesAgree
<1>0. MarkerTypes /\ AtMostOneSelected
  BY DEF IInv, TypeOK
<1>1. CASE showData
  <2>1. /\ level'[m] = IF m \in favorites THEN 1 ELSE 0
        /\ z'[m] = IF m \in favorites THEN "favorite" ELSE "plain"
        /\ UNCHANGED favorites
    BY <1>1 DEF showData, createMarkers, storedVars
  <2> QED
    BY <2>1 DEF Icon
<1>2. CASE onDestroy
  BY <1>2 DEF onDestroy
<1>3. CASE ~showData /\ ~onDestroy
  <2>0. phase # "loading"
    <3>1. \/ UNCHANGED phase \/ onMapLoaded
      BY <1>3, StepCases, QuietStep DEF onAnimationFinish, CameraIdle, UserMoves, onMapClick,
           onMarkerClick, toggleFavoriteMarker, onSelected, animateCamera, onSessionStarted,
           onSessionFinished
    <3> QED
      BY <3>1 DEF onMapLoaded
  <2>1. /\ level[m] = 1 <=> m \in favorites
        /\ m \notin Selected => z[m] = Icon(m)
    BY <2>0 DEF IInv, FavoritesAgree
  <2>2. CASE UNCHANGED <<level, z, favorites>>
    BY <2>1, <2>2 DEF Icon, Selected
  <2>3. CASE /\ UNCHANGED <<level, favorites>>
             /\ z'[m] = z[m] \/ (m \in Selected /\ z'[m] = Icon(m)) \/ z'[m] = "selected"
    BY <2>1, <2>3 DEF Icon, Selected
  <2>4. CASE onAnimationFinish
    <3>1. UNCHANGED <<level, favorites>>
      BY <2>4 DEF onAnimationFinish, storedVars
    <3>2. z'[m] = z[m] \/ z'[m] = "selected"
      BY <1>0, <2>4, FinishEffect DEF IInv, MarkerTypes
    <3> QED
      BY <2>3, <3>1, <3>2
  <2>5. CASE CameraIdle
    <3>1. UNCHANGED <<level, favorites>>
      BY <2>5 DEF CameraIdle, storedVars
    <3>2. UNCHANGED z \/ \E region \in SUBSET Markers : onCameraIdle(region, flags)
      BY <2>5 DEF CameraIdle
    <3>3. z'[m] = z[m] \/ (m \in Selected /\ z'[m] = Icon(m))
      BY <1>0, <3>2, CameraIdleEffect
    <3> QED
      BY <2>3, <3>1, <3>3
  <2>6. CASE onMapClick
    <3>1. UNCHANGED <<level, favorites>>
      BY <2>6 DEF onMapClick, storedVars
    <3>2. z'[m] = IF m \in {selected} THEN Icon(m) ELSE z[m]
      BY <1>0, <2>6, DeselectEffect DEF onMapClick
    <3>3. selected \in Selected
      BY <2>6, SelectedIsSelected DEF onMapClick
    <3> QED
      BY <2>3, <3>1, <3>2, <3>3
  <2>7. CASE \E n \in Markers : onMarkerClick(n)
    <3>1. PICK n \in Markers : onMarkerClick(n)
      BY <2>7
    <3>2. UNCHANGED <<level, favorites>>
      BY <3>1 DEF onMarkerClick, storedVars
    <3>3. z'[m] = z[m] \/ (m \in Selected /\ z'[m] = Icon(m)) \/ m \in Selected'
      BY <1>0, <3>1, MarkerClickEffect
    <3>4. m \in Selected' => z'[m] = "selected"
      BY DEF Selected
    <3> QED
      BY <2>3, <3>2, <3>3, <3>4
  <2>8. CASE toggleFavoriteMarker
    <3>1. selected \in Selected /\ selected \in Markers
      BY <2>8, SelectedIsSelected DEF toggleFavoriteMarker, Selected
    <3>2. UNCHANGED z
      BY <2>8 DEF toggleFavoriteMarker
    <3>3. CASE m = selected
      <4>1. level[m] \in {0, 1} /\ level'[m] = 1 - level[m]
        BY <1>0, <2>8, <3>1, <3>3 DEF toggleFavoriteMarker, MarkerTypes
      <4>2. m \in favorites' <=> level[m] = 0
        BY <2>8, <3>3 DEF toggleFavoriteMarker, addFavorite, removeFavorite
      <4>3. level'[m] = 1 <=> level[m] = 0
        BY <4>1
      <4>4. m \in Selected'
        BY <3>1, <3>2, <3>3 DEF Selected
      <4> QED
        BY <4>2, <4>3, <4>4
    <3>4. CASE m # selected
      <4>1. level'[m] = level[m]
        BY <1>0, <2>8, <3>1, <3>4 DEF toggleFavoriteMarker, MarkerTypes
      <4>2. m \in favorites' <=> m \in favorites
        BY <2>8, <3>4 DEF toggleFavoriteMarker, addFavorite, removeFavorite
      <4>3. m \in Selected' <=> m \in Selected
        BY <3>2 DEF Selected
      <4> QED
        BY <2>1, <3>2, <4>1, <4>2, <4>3 DEF Icon
    <3> QED
      BY <3>3, <3>4
  <2>9. CASE \E passing \in SUBSET Countries \ {{}} : onSelected(passing)
    <3>1. UNCHANGED <<level, favorites>>
      BY <2>9 DEF onSelected
    <3>2. \E region, passing : onCameraIdle(region, passing)
      BY <2>9 DEF onSelected
    <3>3. z'[m] = z[m] \/ (m \in Selected /\ z'[m] = Icon(m))
      BY <1>0, <3>2, CameraIdleEffect
    <3> QED
      BY <2>3, <3>1, <3>3
  <2>10. CASE Quiet
    BY <2>2, <2>10, QuietStep DEF markerVars, storedVars
  <2>11. CASE onMapLoaded \/ UserMoves \/ animateCamera \/ onSessionStarted \/ onSessionFinished
    BY <2>2, <2>11 DEF onMapLoaded, UserMoves, animateCamera, onSessionStarted,
         onSessionFinished, markerVars, storedVars
  <2> QED
    BY <1>3, <2>4, <2>5, <2>6, <2>7, <2>8, <2>9, <2>10, <2>11, StepCases
<1> QED
  BY <1>1, <1>2, <1>3

\* The star stays that of the selected marker.
LEMMA StarAgreesStep == IInv /\ [Next]_vars => StarAgrees'
<1> SUFFICES ASSUME IInv, [Next]_vars
             PROVE  StarAgrees'
  OBVIOUS
<1>0. MarkerTypes /\ AtMostOneSelected /\ StarAgrees
  BY DEF IInv, TypeOK
<1>1. CASE /\ "fab3" \in shown' => "fab3" \in shown
           /\ UNCHANGED <<z, level, favChecked>>
  <2>1. Selected' = Selected
    BY <1>1 DEF Selected
  <2> QED
    BY <1>0, <1>1, <2>1 DEF StarAgrees
<1>2. CASE showData
  <2>1. Selected' = {}
    BY <1>2 DEF showData, createMarkers, Selected
  <2>2. shown' = {}
    BY <1>2 DEF showData, viewVars, IInv, NothingYet, Starting
  <2> QED
    BY <2>1, <2>2 DEF StarAgrees
<1>3. CASE onDestroy
  <2>1. Selected' = {} /\ shown' = {}
    BY <1>3 DEF onDestroy, Selected
  <2> QED
    BY <2>1 DEF StarAgrees
<1>4. CASE onAnimationFinish
  <2>1. UNCHANGED level
    BY <1>4 DEF onAnimationFinish
  <2>2. CASE UNCHANGED <<z, favChecked>> /\ ("fab3" \in shown' => "fab3" \in shown)
    BY <1>1, <2>1, <2>2
  <2>3. ASSUME NEW m \in Markers, Selected' = {m}, favChecked' = (level[m] = 1)
        PROVE  StarAgrees'
    BY <2>1, <2>3 DEF StarAgrees
  <2> QED
    BY <1>4, <2>2, <2>3, FinishEffect DEF IInv
<1>5. ASSUME NEW region, NEW passing, onCameraIdle(region, passing), UNCHANGED <<level, favChecked>>
      PROVE  StarAgrees'
  <2>1. /\ Selected' \subseteq Selected
        /\ shown' = IF Selected' = Selected THEN shown ELSE shown \ {"fab3"}
    BY <1>0, <1>5, CameraIdleEffect
  <2>2. "fab3" \in shown' => Selected' # {}
    BY <1>0, <2>1 DEF StarAgrees
  <2>3. \A m \in Selected' : favChecked' <=> level'[m] = 1
    BY <1>0, <1>5, <2>1 DEF StarAgrees
  <2> QED
    BY <2>2, <2>3 DEF StarAgrees
<1>6. CASE CameraIdle
  <2>1. \/ UNCHANGED <<z, shown>> \/ \E region \in SUBSET Markers : onCameraIdle(region, flags)
    BY <1>6 DEF CameraIdle
  <2>2. UNCHANGED <<level, favChecked>>
    BY <1>6 DEF CameraIdle
  <2> QED
    BY <1>1, <1>5, <2>1, <2>2
<1>7. CASE \E passing \in SUBSET Countries \ {{}} : onSelected(passing)
  <2>1. \E region, passing : onCameraIdle(region, passing)
    BY <1>7 DEF onSelected
  <2>2. UNCHANGED <<level, favChecked>>
    BY <1>7 DEF onSelected
  <2> QED
    BY <1>5, <2>1, <2>2
<1>8. CASE onMapClick
  <2>1. Selected' = Selected \ {selected}
    BY <1>0, <1>8, DeselectEffect DEF onMapClick
  <2>2. Selected' = {}
    BY <1>0, <2>1, SelectedIsTheOne
  <2>3. "fab3" \notin shown'
    BY <1>8 DEF onMapClick
  <2> QED
    BY <2>2, <2>3 DEF StarAgrees
<1>9. CASE \E m \in Markers : onMarkerClick(m)
  <2>1. PICK m \in Markers : onMarkerClick(m)
    BY <1>9
  <2>2. UNCHANGED level
    BY <2>1 DEF onMarkerClick
  <2>3. CASE UNCHANGED <<z, favChecked, shown>>
    BY <1>1, <2>2, <2>3
  <2>4. CASE Selected' = {m} /\ favChecked' = (level[m] = 1)
    BY <2>2, <2>4 DEF StarAgrees
  <2> QED
    BY <1>0, <2>1, <2>3, <2>4, MarkerClickEffect
<1>10. CASE toggleFavoriteMarker
  <2>1. selected \in Selected /\ selected \in Markers
    BY <1>10, SelectedIsSelected DEF toggleFavoriteMarker, Selected
  <2>2. Selected' = Selected
    BY <1>10 DEF toggleFavoriteMarker, Selected
  <2>3. \A m \in Selected' : m = selected
    BY <1>0, <2>2, SelectedIsTheOne
  <2>4. level[selected] \in {0, 1} /\ level'[selected] = 1 - level[selected]
    BY <1>0, <1>10, <2>1 DEF toggleFavoriteMarker, MarkerTypes
  <2>5. level'[selected] = 1 <=> level[selected] = 0
    BY <2>4
  <2>6. favChecked' = (level[selected] = 0)
    BY <1>10 DEF toggleFavoriteMarker
  <2>7. \A m \in Selected' : favChecked' <=> level'[m] = 1
    <3> SUFFICES ASSUME NEW m \in Selected'
                 PROVE  favChecked' <=> level'[m] = 1
      OBVIOUS
    <3>1. m = selected
      BY <2>3
    <3> QED
      BY <2>5, <2>6, <3>1
  <2> QED
    BY <2>1, <2>2, <2>7 DEF StarAgrees
<1>11. CASE Quiet
  <2>1. shown' \subseteq shown \cup {"fab0"}
    BY <1>11 DEF Quiet, ConnectClick, onInfoWindowClick, showCountryFilterDialog, onCancel,
         LocationClick, updateMasterMarkerWithDelay, DelayOver, createGeoJson,
         onSessionCancelled, vars, viewVars
  <2> QED
    BY <1>1, <1>11, <2>1, QuietStep DEF markerVars
<1>12. CASE onMapLoaded \/ UserMoves \/ animateCamera \/ onSessionStarted
  <2>1. UNCHANGED <<z, level, favChecked>>
    BY <1>12 DEF onMapLoaded, UserMoves, animateCamera, onSessionStarted, markerVars, viewVars
  <2>2. "fab3" \in shown' => "fab3" \in shown
    BY <1>12 DEF onMapLoaded, UserMoves, animateCamera, onSessionStarted, viewVars
  <2> QED
    BY <1>1, <2>1, <2>2
<1>13. CASE onSessionFinished
  <2>1. UNCHANGED <<z, level, favChecked>>
    BY <1>13 DEF onSessionFinished
  <2>2. Selected' = Selected
    BY <2>1 DEF Selected
  <2>3. "fab3" \in shown' => Selected # {}
    BY <1>0, <1>13, SelectedIsSelected DEF onSessionFinished, StarAgrees
  <2> QED
    BY <1>0, <2>1, <2>2, <2>3 DEF StarAgrees
<1> QED
  BY <1>2, <1>3, <1>4, <1>6, <1>7, <1>8, <1>9, <1>10, <1>11, <1>12, <1>13, StepCases

\* With the camera at rest the visible markers stay those of the region that pass the filter.
LEMMA VisibleAtRestStep == IInv /\ [Next]_vars => VisibleAtRest'
<1> SUFFICES ASSUME IInv, [Next]_vars, phase' = "loaded", ~mAnimating', ~moving'
             PROVE  /\ visible' = {m \in view' : Flag[m] \in flags'}
                    /\ Selected' \subseteq visible'
  BY DEF VisibleAtRest
<1>0. MarkerTypes
  BY DEF IInv, TypeOK
<1>1. ASSUME UNCHANGED <<phase, mAnimating, moving>>
      PROVE  visible = {m \in view : Flag[m] \in flags} /\ Selected \subseteq visible
  BY <1>1 DEF IInv, VisibleAtRest
<1>2. CASE /\ UNCHANGED <<phase, mAnimating, moving, visible, view, flags>>
           /\ Selected' \subseteq Selected
  BY <1>1, <1>2
<1>3. CASE UNCHANGED <<phase, mAnimating, moving, visible, view, flags, z>>
  <2>1. Selected' = Selected
    BY <1>3 DEF Selected
  <2> QED
    BY <1>2, <1>3, <2>1
<1>4. CASE showData \/ onDestroy
  BY <1>4 DEF showData, onDestroy
<1>5. CASE onMapLoaded
  BY <1>5 DEF onMapLoaded, Execute, execute, onAnimationStart
<1>6. CASE onAnimationFinish
  <2>1. running # NULL /\ UNCHANGED phase /\ UNCHANGED mAnimating
    BY <1>6 DEF onAnimationFinish, animatorVars
  <2> QED
    BY <2>1 DEF IInv, AnimatorShape
<1>7. CASE CameraIdle
  <2>1. moving /\ UNCHANGED phase /\ UNCHANGED flags
    BY <1>7 DEF CameraIdle
  <2>2. idleListener # "none"
    BY <2>1 DEF IInv, AnimatorShape
  <2>3. CASE idleListener = "animator" /\ mCameraUpdates # <<>>
    BY <1>7, <2>3 DEF CameraIdle, executeNext, startAnimation, MoveTo
  <2>4. CASE \E region \in SUBSET Markers : view' = region /\ onCameraIdle(region, flags)
    BY <1>0, <2>1, <2>4, CameraIdleEffect
  <2> QED
    BY <1>7, <2>2, <2>3, <2>4 DEF CameraIdle
<1>8. CASE UserMoves \/ \E m \in Markers : onMarkerClick(m)
  BY <1>8 DEF UserMoves, onMarkerClick, MoveTo
<1>9. CASE onMapClick
  <2>1. Selected' \subseteq Selected
    BY <1>0, <1>9, DeselectEffect DEF onMapClick
  <2> QED
    BY <1>2, <1>9, <2>1 DEF onMapClick, animatorVars, cameraVars
<1>10. CASE \E passing \in SUBSET Countries \ {{}} : onSelected(passing)
  <2>1. PICK passing \in SUBSET Countries \ {{}} : onSelected(passing)
    BY <1>10
  <2>2. flags' = passing /\ UNCHANGED view /\ UNCHANGED moving
    BY <2>1 DEF onSelected, cameraVars
  <2>3. onCameraIdle(view, passing)
    BY <2>1, <2>2 DEF onSelected
  <2> QED
    BY <1>0, <2>2, <2>3, CameraIdleEffect
<1>11. CASE animateCamera
  <2>1. CASE mAnimating
    BY <1>11, <2>1 DEF animateCamera, animatorVars
  <2>2. CASE ~mAnimating
    BY <1>11, <2>2 DEF animateCamera, Execute, execute, onAnimationStart
  <2> QED
    BY <2>1, <2>2
<1>12. CASE Quiet
  BY <1>3, <1>12, QuietStep DEF animatorVars, cameraVars, markerVars
<1>13. CASE toggleFavoriteMarker \/ onSessionStarted \/ onSessionFinished
  BY <1>3, <1>13 DEF toggleFavoriteMarker, onSessionStarted, onSessionFinished, animatorVars,
       cameraVars
<1> QED
  BY <1>4, <1>5, <1>6, <1>7, <1>8, <1>9, <1>10, <1>11, <1>12, <1>13, StepCases

-----------------------------------------------------------------------------
(* Gestures *)

\* The gestures, or what the animator will give back, stay those the session calls for.
LEMMA SavedFollowsSessionStep == IInv /\ [Next]_vars => SavedFollowsSession'
<1> SUFFICES ASSUME IInv, [Next]_vars
             PROVE  SavedFollowsSession'
  OBVIOUS
<1>0. SavedFollowsSession
  BY DEF IInv
<1>1. CASE /\ UNCHANGED <<phase, mAnimating, saved, gestures, crossed>>
           /\ session' = "open" <=> session = "open"
  BY <1>0, <1>1 DEF SavedFollowsSession
<1>2. CASE showData
  BY <1>2 DEF showData, SavedFollowsSession
<1>3. CASE onMapLoaded
  <2>1. /\ phase' = "loaded" /\ mAnimating' = TRUE /\ saved' = gestures
        /\ phase = "ready" /\ UNCHANGED session
    BY <1>3 DEF onMapLoaded, Execute, execute, onAnimationStart, setUiSettings, sessionVars
  <2>2. gestures /\ session = "none"
    BY <1>0, <2>1 DEF SavedFollowsSession, IInv, NothingYet, Starting
  <2> QED
    BY <2>1, <2>2 DEF SavedFollowsSession
<1>4. CASE onDestroy
  BY <1>4 DEF onDestroy, SavedFollowsSession
<1>5. CASE CameraIdle
  <2>1. UNCHANGED phase /\ UNCHANGED session /\ UNCHANGED crossed
    BY <1>5 DEF CameraIdle, sessionVars
  <2>2. CASE UNCHANGED <<mAnimating, saved, gestures>>
    BY <1>1, <2>1, <2>2
  <2>3. CASE idleListener = "animator" /\ onAnimationEnd
    <3>1. phase = "loaded" /\ mAnimating
      BY <2>3 DEF IInv, AnimatorShape
    <3>2. mAnimating' = FALSE /\ gestures' = saved
      BY <2>3 DEF onAnimationEnd
    <3> QED
      BY <1>0, <2>1, <3>1, <3>2 DEF SavedFollowsSession
  <2> QED
    BY <1>5, <2>2, <2>3 DEF CameraIdle, animatorVars
<1>6. CASE animateCamera
  <2>1. UNCHANGED phase /\ UNCHANGED session /\ UNCHANGED crossed
    BY <1>6 DEF animateCamera, sessionVars
  <2>2. CASE mAnimating
    <3>1. UNCHANGED <<mAnimating, saved, gestures>>
      BY <1>6, <2>2 DEF animateCamera, animatorVars
    <3> QED
      BY <1>1, <2>1, <3>1
  <2>3. CASE ~mAnimating
    <3>1. mAnimating' = TRUE /\ saved' = gestures
      BY <1>6, <2>3 DEF animateCamera, Execute, execute, onAnimationStart, setUiSettings
    <3>2. phase = "loaded"
      BY <1>6 DEF animateCamera, IInv, NothingYet, Starting
    <3> QED
      BY <1>0, <2>1, <2>3, <3>1, <3>2 DEF SavedFollowsSession
  <2> QED
    BY <2>2, <2>3
<1>7. CASE onSessionStarted \/ onSessionFinished
  <2>1. /\ UNCHANGED <<phase, mAnimating, saved>> /\ crossed' = mAnimating
    BY <1>7 DEF onSessionStarted, onSessionFinished, animatorVars
  <2>2. gestures' <=> session' # "open"
    BY <1>7 DEF onSessionStarted, onSessionFinished
  <2>3. phase = "loaded"
    BY <1>7 DEF onSessionStarted, onSessionFinished, IInv, NothingYet, Starting
  <2> QED
    BY <2>1, <2>2, <2>3 DEF SavedFollowsSession
<1>8. CASE Quiet
  <2>1. session' = "open" <=> session = "open"
    BY <1>8 DEF Quiet, ConnectClick, onInfoWindowClick, toggleCommand, showCountryFilterDialog,
         onCancel, LocationClick, updateMasterMarkerWithDelay, DelayOver, createGeoJson,
         onSessionCancelled, vars, sessionVars
  <2> QED
    BY <1>1, <1>8, <2>1, QuietStep DEF animatorVars
<1>9. CASE onAnimationFinish \/ UserMoves \/ onMapClick \/ toggleFavoriteMarker
           \/ \E passing \in SUBSET Countries \ {{}} : onSelected(passing)
  <2>1. UNCHANGED <<phase, mAnimating, saved, gestures, crossed, session>>
    BY <1>9 DEF onAnimationFinish, UserMoves, onMapClick, toggleFavoriteMarker, onSelected,
         animatorVars, sessionVars
  <2> QED
    BY <1>1, <2>1
<1>10. CASE \E m \in Markers : onMarkerClick(m)
  <2>1. UNCHANGED <<phase, mAnimating, saved, gestures>>
    BY <1>10 DEF onMarkerClick, animatorVars
  <2>2. UNCHANGED crossed /\ (session' = "open" <=> session = "open")
    BY <1>10 DEF onMarkerClick, toggleCommand, sessionVars
  <2> QED
    BY <1>1, <2>1, <2>2
<1> QED
  BY <1>2, <1>3, <1>4, <1>5, <1>6, <1>7, <1>8, <1>9, <1>10, StepCases

-----------------------------------------------------------------------------
(* The theorems *)

\* The invariant holds of the activity that begins to load.
LEMMA InitIInv == Init => IInv
<1> SUFFICES ASSUME Init
             PROVE  IInv
  OBVIOUS
<1> USE DEF Init, InitAnimator
<1>1. TypeOK
  <2>1. AnimatorTypes
    <3>1. <<>> \in Seq(Animation)
      OBVIOUS
    <3> QED
      BY <3>1 DEF AnimatorTypes
  <2>2. MarkerTypes
    BY DEF MarkerTypes
  <2>3. ViewTypes /\ SessionTypes
    BY DEF ViewTypes, SessionTypes, Buttons
  <2> QED
    BY <2>1, <2>2, <2>3 DEF TypeOK
<1>2. Selected = {}
  BY DEF Selected
<1>3. AnimatorShape
  BY DEF AnimatorShape, ClosestIsLast
<1>4. NothingYet
  BY <1>2 DEF NothingYet
<1>5. AtMostOneSelected /\ FavoritesAgree /\ StarAgrees
  BY <1>2 DEF AtMostOneSelected, FavoritesAgree, StarAgrees
<1>6. VisibleAtRest /\ SavedFollowsSession
  BY DEF VisibleAtRest, SavedFollowsSession
<1> QED
  BY <1>1, <1>3, <1>4, <1>5, <1>6 DEF IInv

\* The invariant is inductive.
LEMMA NextIInv == IInv /\ [Next]_vars => IInv'
<1> SUFFICES ASSUME IInv, [Next]_vars
             PROVE  IInv'
  OBVIOUS
<1>1. TypeOK'
  BY AnimatorTypesStep, MarkerTypesStep, ViewTypesStep, SessionTypesStep DEF IInv, TypeOK
<1>2. AnimatorShape' /\ NothingYet'
  BY AnimatorShapeStep, NothingYetStep DEF IInv
<1>3. AtMostOneSelected' /\ FavoritesAgree' /\ StarAgrees'
  BY AtMostOneSelectedStep, FavoritesAgreeStep, StarAgreesStep
<1>4. VisibleAtRest' /\ SavedFollowsSession'
  BY VisibleAtRestStep, SavedFollowsSessionStep
<1> QED
  BY <1>1, <1>2, <1>3, <1>4 DEF IInv

\* The invariant holds in every reachable state.
LEMMA InvariantHolds == Spec => []IInv
  BY InitIInv, NextIInv, PTL DEF Spec

\* The variables of the map, its screen and its camera keep their types, for any number of
\* preloading moves and of delayed requests.
THEOREM TypeCorrect == Spec => []TypeOK
<1>1. IInv => TypeOK
  BY DEF IInv
<1> QED
  BY <1>1, InvariantHolds, PTL

\* At most one marker is ever selected, although the animation of the start selects its target
\* without looking for another one: until it has finished nothing can be selected.
THEOREM SelectionIsUnique == Spec => []AtMostOneSelected
<1>1. IInv => AtMostOneSelected
  BY DEF IInv
<1> QED
  BY <1>1, InvariantHolds, PTL

\* Icons, levels and the stored favourites agree once the map has its markers.
THEOREM FavoritesAreStored == Spec => []FavoritesAgree
<1>1. IInv => FavoritesAgree
  BY DEF IInv
<1> QED
  BY <1>1, InvariantHolds, PTL

\* The favourite button is on screen only for a selected marker, and shows that marker's star.
THEOREM StarIsTheSelected == Spec => []FavoriteButtonAgrees
<1>1. IInv => FavoriteButtonAgrees
  <2> SUFFICES ASSUME IInv, "fab3" \in shown
               PROVE  selected # NULL /\ (favChecked <=> level[selected] = 1)
    BY DEF FavoriteButtonAgrees
  <2>1. selected # NULL /\ selected \in Selected
    BY SelectedIsSelected DEF IInv, StarAgrees
  <2> QED
    BY <2>1 DEF IInv, StarAgrees
<1> QED
  BY <1>1, InvariantHolds, PTL

\* With the camera at rest exactly the markers of the region that pass the filter are visible,
\* and the selected one is among them.
THEOREM OnlyVisibleAtRest == Spec => []VisibleAtRest
<1>1. IInv => VisibleAtRest
  BY DEF IInv
<1> QED
  BY <1>1, InvariantHolds, PTL

\* Unless a session starts or ends during an animation, the map can be moved exactly when no
\* session is open.
THEOREM GesturesAreRestored == Spec => []GesturesFollowSession
<1>1. IInv => GesturesFollowSession
  <2> SUFFICES ASSUME IInv, phase = "loaded", ~mAnimating, ~crossed
               PROVE  gestures = (session # "open")
    BY DEF GesturesFollowSession
  <2>1. gestures <=> session # "open"
    BY DEF IInv, SavedFollowsSession
  <2>2. gestures \in BOOLEAN
    BY DEF IInv, TypeOK, AnimatorTypes
  <2> QED
    BY <2>1, <2>2
<1> QED
  BY <1>1, InvariantHolds, PTL

============================================================================
