--------------------------- MODULE OpenVPNService ---------------------------
(***************************************************************************)
(* The Android service that owns the management connection                 *)
(* (android/core/OpenVPNService.java), the dialog that stops it            *)
(* (android/activities/DisconnectVPN.java) and its launcher                *)
(* (android/VPNLaunchHelper.java).                                         *)
(*                                                                         *)
(* Lifecycle handlers run on the main thread.  The callbacks of the        *)
(* connection (onConnected, onConnectError, onDisconnected,                *)
(* onStateChanged, onByteCountChanged) run on the connection's threads and *)
(* touch the same unsynchronised fields.                                   *)
(***************************************************************************)
EXTENDS AbstractConnection

VARIABLES
    created,    \* a service instance exists; it is registered as listener exactly then
    started,    \* "no", "yes", "pending" (onStartCommand is still to run) or "cancelled"
                \* (so is it, but stopSelf has come first)
    bound,      \* DisconnectVPN is on screen and bound to the service
    mNotificationAlwaysVisible, mDisplayByteCount,
    notif,      \* level of the notification on screen, or "none"
    orphan      \* threads inside onStateChanged of an instance that was destroyed
                \* meanwhile, each with that instance's mNotificationAlwaysVisible

serviceVars == <<created, started, bound, mNotificationAlwaysVisible, mDisplayByteCount,
                 notif, orphan>>

NotificationLevels == ConnectionStatus \cup {"none"}

-----------------------------------------------------------------------------
(* Callbacks, as parts of the actions of the thread that makes them *)

\* stopForeground(REMOVE) and stopSelf.  A start already in the main thread's queue is
\* still delivered.
endVpnService ==
    /\ started' = IF started \in {"pending", "cancelled"} THEN "cancelled" ELSE "no"
    /\ notif' = "none"
    /\ UNCHANGED <<created, bound, mNotificationAlwaysVisible, mDisplayByteCount, orphan>>

\* onConnectError and onDisconnected do the same; the connection makes either call
\* only if a listener is set.
EndIfListening == IF created THEN endVpnService ELSE UNCHANGED serviceVars

\* onStateChanged on the registered instance, or (orphan) on one that is gone: its
\* fields are then nobody's, but the notification it posts is seen.
onStateChanged(t, state) ==
    LET level == getLevel(state)
        gone == \E v \in BOOLEAN : <<t, v>> \in orphan
        visible == IF gone THEN <<t, TRUE>> \in orphan ELSE mNotificationAlwaysVisible
    IN  /\ notif' = IF visible THEN level ELSE notif
        /\ mDisplayByteCount' = IF visible /\ ~gone
                                THEN level = "LEVEL_CONNECTED" ELSE mDisplayByteCount
        /\ orphan' = orphan \ ({t} \X BOOLEAN)
        /\ UNCHANGED <<created, started, bound, mNotificationAlwaysVisible>>

onByteCountChanged ==
    /\ notif' = IF created /\ mDisplayByteCount THEN "LEVEL_CONNECTED" ELSE notif
    /\ UNCHANGED <<created, started, bound, mNotificationAlwaysVisible, mDisplayByteCount,
                   orphan>>

-----------------------------------------------------------------------------
(* The main thread *)

\* VPNLaunchHelper.startOpenVPNService.  Bound: one call per member of Starts.
startOpenVPNService ==
    /\ started \in {"no", "yes"}
    /\ \E c \in Starts : pc[ConnectThread(c)] = "idle"
    /\ started' = "pending"
    /\ UNCHANGED <<created, bound, mNotificationAlwaysVisible, mDisplayByteCount, notif,
                   orphan, pc>>

\* A fresh instance with its fields at their defaults; the listeners are added.
onCreate ==
    /\ ~created
    /\ started = "pending" \/ bound
    /\ created' = TRUE
    /\ mNotificationAlwaysVisible' = FALSE
    /\ mDisplayByteCount' = FALSE
    /\ UNCHANGED <<started, bound, notif, orphan, pc>>

\* The launcher's intent has no action and asks for the notification.
onStartCommand(c) ==
    /\ created
    /\ started \in {"pending", "cancelled"}
    /\ pc[ConnectThread(c)] = "idle"
    /\ started' = IF started = "pending" THEN "yes" ELSE "no"
    /\ mNotificationAlwaysVisible' = TRUE
    /\ notif' = "LEVEL_NOT_CONNECTED"
    /\ pc' = [pc EXCEPT ![ConnectThread(c)] = "connect"]
    /\ UNCHANGED <<created, bound, mDisplayByteCount, orphan>>

\* The system destroys an instance that is neither started nor bound and removes
\* its foreground notification; onDestroy removes the listeners.
onDestroy ==
    /\ created
    /\ started = "no"
    /\ ~bound
    /\ created' = FALSE
    /\ notif' = "none"
    /\ orphan' = orphan \cup
                 {<<t, mNotificationAlwaysVisible>> :
                    t \in {u \in Threads : /\ pc[u] = "onStateChanged"
                                          /\ orphan \cap ({u} \X BOOLEAN) = {}}}
    /\ UNCHANGED <<started, bound, mNotificationAlwaysVisible, mDisplayByteCount, pc>>

\* DisconnectVPN is opened from the notification's action.  Bound: not after the last
\* member of Stops was used up.
onResume ==
    /\ ~bound
    /\ notif # "none"
    /\ \E s \in Stops : pc[StopThread(s)] = "idle"
    /\ bound' = TRUE
    /\ UNCHANGED <<created, started, mNotificationAlwaysVisible, mDisplayByteCount, notif,
                   orphan, pc>>

\* Cancelled or left without confirming.
onPause ==
    /\ bound
    /\ bound' = FALSE
    /\ UNCHANGED <<created, started, mNotificationAlwaysVisible, mDisplayByteCount, notif,
                   orphan, pc>>

\* The positive button: a StopTask thread if the service is connected, then finish(),
\* which ends in onPause.
onClick(s) ==
    /\ bound
    /\ created
    /\ pc[StopThread(s)] = "idle"
    /\ pc' = [pc EXCEPT ![StopThread(s)] = "stopTask"]
    /\ bound' = FALSE
    /\ UNCHANGED <<created, started, mNotificationAlwaysVisible, mDisplayByteCount, notif,
                   orphan>>
============================================================================
