----------------------------- MODULE SshSession -----------------------------
(***************************************************************************)
(* The SSH session through which the app runs openpyn on the router:       *)
(* ConnectionManager.kt, the controllers BaseController.kt and             *)
(* OpenpynController.kt, and the part of MainActivity.kt that drives them. *)
(*                                                                         *)
(* Callbacks and clicks run on the main thread, one at a time.  connect()  *)
(* and disconnect() each start a thread; the one of disconnect() sleeps    *)
(* five seconds and then reads mSessionId and mSessionKey, which the main  *)
(* thread may have changed by then.                                        *)
(*                                                                         *)
(* JuiceSSH is a separate app, bound as a service.  It is modelled from    *)
(* how the code uses its plugin library.                                   *)
(***************************************************************************)
EXTENDS Naturals, Sequences

CONSTANTS Sessions,     \* the ids JuiceSSH gives to the sessions it opens
          Disconnects,  \* bound: threads started by disconnect()
          MaxLosses     \* bound: times the JuiceSSH service goes away

ASSUME SessionAssumption == Sessions \subseteq Nat \ {0} /\ MaxLosses \in Nat

\* mSessionId is 0 and mSessionKey "" when there is no session.  The key JuiceSSH gives
\* to a session is known by the session's id, and "" by 0.
NoSession == 0

VARIABLES
    manager,          \* mConnectionManager: not yet created, live, or its activity destroyed
    dialog,           \* the dialog that asks whether to connect is shown
    mSessionId, mSessionKey, mSessionRunning,
    testOrNvram,      \* the controller's fields test and nvram: is one of them set
    pref,             \* the preferences pref_test and pref_nvram: is one of them set
    connector,        \* the thread of connect(): none, started, or waiting for JuiceSSH
    sleeper,          \* the threads of disconnect()
    readId,           \* what each of them has read from mSessionId
    callbacks,        \* what is queued for the main thread
    service,          \* the plugin client is bound to JuiceSSH
    losses,           \* times the service may still go away
    juice,            \* JuiceSSH's sessions
    listening,        \* the sessions that have a finish listener of this process
    command,          \* what was started in each session: nothing, openpyn for real ("run"),
                      \* or with --test or --nvram ("dry")
    killed            \* the sessions in which openpyn --kill was executed

managerVars == <<mSessionId, mSessionKey, mSessionRunning>>

juiceVars == <<service, losses, juice, listening, command, killed>>

vars == <<manager, dialog, managerVars, testOrNvram, pref, connector, sleeper, readId,
          callbacks, juiceVars>>

Init ==
    /\ manager = "none"
    /\ dialog = FALSE
    /\ mSessionId = NoSession /\ mSessionKey = NoSession /\ mSessionRunning = FALSE
    /\ testOrNvram = FALSE
    /\ pref \in BOOLEAN
    /\ connector = "none"
    /\ sleeper = [d \in Disconnects |-> "idle"]
    /\ readId = [d \in Disconnects |-> NoSession]
    /\ callbacks = <<>>
    /\ service = FALSE
    /\ losses = MaxLosses
    /\ juice = [s \in Sessions |-> "none"]
    /\ listening = {}
    /\ command = [s \in Sessions |-> "none"]
    /\ killed = {}

\* A Toast on a thread without a Looper throws in the handler of the exception it was to
\* report, and the process dies.  JuiceSSH and its sessions live on.
ProcessDeath ==
    /\ manager' = "none"
    /\ dialog' = FALSE
    /\ mSessionId' = NoSession /\ mSessionKey' = NoSession /\ mSessionRunning' = FALSE
    /\ testOrNvram' = FALSE
    /\ connector' = "none"
    /\ sleeper' = [d \in Disconnects |-> IF sleeper[d] = "idle" THEN "idle" ELSE "done"]
    /\ readId' = [d \in Disconnects |-> NoSession]
    /\ callbacks' = <<>>
    /\ service' = FALSE
    /\ listening' = {}
    /\ UNCHANGED <<pref, losses, juice, command, killed>>

-----------------------------------------------------------------------------
(* ConnectionManager and its controller, as parts of main-thread actions *)

isConnected == mSessionId > 0

\* Mutant: the kill decision is taken from the preferences as they are now.
killByPreference ==
    killed' = IF service /\ ~pref THEN killed \cup {mSessionId} ELSE killed

\* OpenpynController.kill: the fields start() set decide whether there is anything to kill.
kill == killed' = IF service /\ ~testOrNvram THEN killed \cup {mSessionId} ELSE killed

disconnect ==
    /\ kill
    /\ \E d \in Disconnects :
          /\ sleeper[d] = "idle"
          /\ sleeper' = [sleeper EXCEPT ![d] = "sleep"]
    /\ UNCHANGED <<connector, readId, service, losses, juice, listening, command>>

connect ==
    /\ connector' = "thread"
    /\ UNCHANGED <<sleeper, readId, juiceVars>>

\* Mutant: a toggle is not refused while another one is under way.
toggleTwice ==
    /\ mSessionRunning' = TRUE
    /\ IF isConnected THEN disconnect ELSE connect
    /\ UNCHANGED <<manager, mSessionId, mSessionKey, testOrNvram, pref, callbacks>>

toggleConnection ==
    /\ IF mSessionRunning
       THEN UNCHANGED <<mSessionRunning, connector, sleeper, readId, juiceVars>>
       ELSE /\ mSessionRunning' = TRUE
            /\ IF isConnected THEN disconnect ELSE connect
    /\ UNCHANGED <<manager, mSessionId, mSessionKey, testOrNvram, pref, callbacks>>

-----------------------------------------------------------------------------
(* The main thread: clicks and the activity's lifecycle *)

\* Creates the manager and asks for the JuiceSSH service.
onPermissionsGranted ==
    /\ manager = "none"
    /\ manager' = "live"
    /\ UNCHANGED <<dialog, managerVars, testOrNvram, pref, connector, sleeper, readId,
                   callbacks, juiceVars>>

\* The floating button: ask before connecting, disconnect at once.  It is out of reach
\* while a dialog is shown.
onClick ==
    /\ manager = "live"
    /\ ~dialog
    /\ IF isConnected
       THEN toggleConnection /\ UNCHANGED dialog
       ELSE /\ dialog' = TRUE
            /\ UNCHANGED <<manager, managerVars, testOrNvram, pref, connector, sleeper, readId,
                           callbacks, juiceVars>>

onDialogPositiveClick ==
    /\ manager = "live"
    /\ dialog
    /\ dialog' = FALSE
    /\ toggleConnection

onDialogNegativeClick ==
    /\ dialog
    /\ dialog' = FALSE
    /\ UNCHANGED <<manager, managerVars, testOrNvram, pref, connector, sleeper, readId,
                   callbacks, juiceVars>>

\* A preference is changed, at any time.
SettingsChange ==
    /\ pref' = ~pref
    /\ UNCHANGED <<manager, dialog, managerVars, testOrNvram, connector, sleeper, readId,
                   callbacks, juiceVars>>

\* The client is unbound at once, five seconds before disconnect()'s thread needs it.
onDestroy ==
    /\ manager = "live"
    /\ manager' = "destroyed"
    /\ dialog' = FALSE
    /\ \/ /\ isConnected
          /\ kill
          /\ \E d \in Disconnects :
                /\ sleeper[d] = "idle"
                /\ sleeper' = [sleeper EXCEPT ![d] = "sleep"]
       \/ ~isConnected /\ UNCHANGED <<killed, sleeper>>
    /\ service' = FALSE
    /\ UNCHANGED <<managerVars, testOrNvram, pref, connector, readId, callbacks, losses,
                   juice, listening, command>>

-----------------------------------------------------------------------------
(* The main thread: callbacks of JuiceSSH, in the order they were queued *)

Queued(kind) ==
    /\ manager = "live"
    /\ callbacks # <<>>
    /\ Head(callbacks).kind = kind
    /\ callbacks' = Tail(callbacks)

\* Mutant: the stop command is sent in place of the start command.
startSendsStop(s) ==
    /\ testOrNvram' = pref
    /\ command' = [command EXCEPT ![s] = IF ~service THEN @ ELSE IF pref THEN "dry" ELSE "kill"]

\* OpenpynController.start: reads the preferences, remembers which kind of command they ask
\* for, and sends it if the service is there.
start(s) ==
    /\ testOrNvram' = pref
    /\ command' = [command EXCEPT ![s] = IF ~service THEN @ ELSE IF pref THEN "dry" ELSE "run"]

\* The listener needs the service, too.
onSessionStarted ==
    LET s == Head(callbacks).id IN
    /\ Queued("started")
    /\ mSessionId' = s /\ mSessionKey' = s /\ mSessionRunning' = FALSE
    /\ listening' = IF service THEN listening \cup {s} ELSE listening
    /\ start(s)
    /\ UNCHANGED <<manager, dialog, pref, connector, sleeper, readId, service, losses, juice,
                   killed>>

\* Mutant: the flag of the toggle that closed the session stays set.
onSessionFinishedStillRunning ==
    /\ Queued("finished")
    /\ mSessionId' = NoSession /\ mSessionKey' = NoSession
    /\ UNCHANGED <<mSessionRunning, manager, dialog, testOrNvram, pref, connector, sleeper,
                   readId, juiceVars>>

onSessionFinished ==
    /\ Queued("finished")
    /\ mSessionId' = NoSession /\ mSessionKey' = NoSession /\ mSessionRunning' = FALSE
    /\ UNCHANGED <<manager, dialog, testOrNvram, pref, connector, sleeper, readId, juiceVars>>

onSessionCancelled ==
    /\ Queued("cancelled")
    /\ mSessionRunning' = FALSE
    /\ UNCHANGED <<manager, dialog, mSessionId, mSessionKey, testOrNvram, pref, connector,
                   sleeper, readId, juiceVars>>

-----------------------------------------------------------------------------
(* The threads of connect() and disconnect() *)

ConnectThread ==
    /\ connector = "thread"
    /\ \/ /\ service
          /\ connector' = "asked"
          /\ UNCHANGED <<manager, dialog, managerVars, testOrNvram, pref, sleeper, readId,
                         callbacks, juiceVars>>
       \/ ~service /\ ProcessDeath

\* Thread.sleep is over; the arguments of the call are read one after the other.
Wake(d) ==
    /\ sleeper[d] = "sleep"
    /\ sleeper' = [sleeper EXCEPT ![d] = "call"]
    /\ readId' = [readId EXCEPT ![d] = mSessionId]
    /\ UNCHANGED <<manager, dialog, managerVars, testOrNvram, pref, connector, callbacks,
                   juiceVars>>

\* A session that ends is reported to its listener while the client is bound.
Closes(s) ==
    /\ juice' = [juice EXCEPT ![s] = "closed"]
    /\ callbacks' = IF service /\ s \in listening
                    THEN Append(callbacks, [kind |-> "finished", id |-> s]) ELSE callbacks

\* JuiceSSH closes a session only for the caller that has its key.
CallDisconnect(d) ==
    LET s == readId[d]
        accepted == s = mSessionKey /\ s # NoSession /\ juice[s] = "open"
    IN
    /\ sleeper[d] = "call"
    /\ \/ /\ service
          /\ sleeper' = [sleeper EXCEPT ![d] = "done"]
          /\ readId' = [readId EXCEPT ![d] = NoSession]
          /\ IF accepted THEN Closes(s) ELSE UNCHANGED <<juice, callbacks>>
          /\ UNCHANGED <<manager, dialog, managerVars, testOrNvram, pref, connector, service,
                         losses, listening, command, killed>>
       \/ ~service /\ ProcessDeath

-----------------------------------------------------------------------------
(* JuiceSSH *)

ServiceConnected ==
    /\ manager = "live" /\ ~service
    /\ service' = TRUE
    /\ UNCHANGED <<manager, dialog, managerVars, testOrNvram, pref, connector, sleeper, readId,
                   callbacks, losses, juice, listening, command, killed>>

\* JuiceSSH dies, its sessions with it; nobody is told.
ServiceLost ==
    /\ service /\ losses > 0
    /\ service' = FALSE
    /\ losses' = losses - 1
    /\ juice' = [s \in Sessions |-> IF juice[s] = "open" THEN "closed" ELSE juice[s]]
    /\ listening' = {}
    /\ UNCHANGED <<manager, dialog, managerVars, testOrNvram, pref, connector, sleeper, readId,
                   callbacks, command, killed>>

\* The answer to connect(), an activity result.
SessionOpens(s) ==
    /\ connector = "asked"
    /\ juice[s] = "none"
    /\ juice' = [juice EXCEPT ![s] = "open"]
    /\ connector' = "none"
    /\ callbacks' = Append(callbacks, [kind |-> "started", id |-> s])
    /\ UNCHANGED <<manager, dialog, managerVars, testOrNvram, pref, sleeper, readId, service,
                   losses, listening, command, killed>>

ConnectCancelled ==
    /\ connector = "asked"
    /\ connector' = "none"
    /\ callbacks' = Append(callbacks, [kind |-> "cancelled", id |-> NoSession])
    /\ UNCHANGED <<manager, dialog, managerVars, testOrNvram, pref, sleeper, readId, juiceVars>>

\* The session ends by itself: the router drops it, or the user closes it in JuiceSSH.
SessionCloses(s) ==
    /\ juice[s] = "open"
    /\ Closes(s)
    /\ UNCHANGED <<manager, dialog, managerVars, testOrNvram, pref, connector, sleeper, readId,
                   service, losses, listening, command, killed>>

-----------------------------------------------------------------------------
(* The whole *)

Callback == onSessionStarted \/ onSessionFinished \/ onSessionCancelled

User ==
    \/ onPermissionsGranted \/ onClick \/ onDialogPositiveClick \/ onDialogNegativeClick
    \/ SettingsChange \/ onDestroy

JuiceSSH ==
    \/ ServiceConnected \/ ServiceLost \/ ConnectCancelled
    \/ \E s \in Sessions : SessionOpens(s) \/ SessionCloses(s)

Next ==
    \/ User
    \/ Callback
    \/ ConnectThread
    \/ \E d \in Disconnects : Wake(d) \/ CallDisconnect(d)
    \/ JuiceSSH

Spec == Init /\ [][Next]_vars

\* The main thread runs what is queued, threads run, and JuiceSSH, which covers the app
\* while it connects, answers.
Fairness ==
    /\ WF_vars(Callback)
    /\ WF_vars(ConnectThread)
    /\ \A d \in Disconnects : WF_vars(Wake(d) \/ CallDisconnect(d))
    /\ WF_vars(ConnectCancelled \/ \E s \in Sessions : SessionOpens(s))

FairSpec == Spec /\ Fairness

-----------------------------------------------------------------------------
(* Properties *)

Callbacks ==
    [kind : {"started", "finished"}, id : Sessions] \cup [kind : {"cancelled"}, id : {NoSession}]

ThreadTypes ==
    /\ manager \in {"none", "live", "destroyed"}
    /\ connector \in {"none", "thread", "asked"}
    /\ sleeper \in [Disconnects -> {"idle", "sleep", "call", "done"}]
    /\ readId \in [Disconnects -> Sessions \cup {NoSession}]

FlagTypes ==
    /\ dialog \in BOOLEAN
    /\ mSessionRunning \in BOOLEAN
    /\ testOrNvram \in BOOLEAN
    /\ pref \in BOOLEAN
    /\ service \in BOOLEAN

SessionTypes ==
    /\ mSessionId \in Sessions \cup {NoSession}
    /\ mSessionKey \in Sessions \cup {NoSession}
    /\ losses \in Nat
    /\ juice \in [Sessions -> {"none", "open", "closed"}]
    /\ listening \subseteq Sessions
    /\ command \in [Sessions -> {"none", "run", "dry"}]
    /\ killed \subseteq Sessions

QueueTypes == callbacks \in Seq(Callbacks)

\* Every variable has its type.
TypeOK ==
    /\ ThreadTypes
    /\ FlagTypes
    /\ SessionTypes
    /\ QueueTypes

\* The manager never loses an open session it subscribed to: until JuiceSSH closes it, it
\* is the one mSessionId names, so the button can still end it.  Otherwise a second
\* session would hide it behind its own id.
OpenSessionIsCurrent ==
    \A s \in listening : juice[s] = "open" => mSessionId = s /\ mSessionKey = s

\* openpyn --kill is for an openpyn that was started for real, whatever has been done to
\* the preferences since: a router that was only tested or had its NVRAM written is left
\* alone, and a running VPN is always killed by the disconnect that ends its session.
KillMatchesStart ==
    [][\A d \in Disconnects :
        sleeper[d] = "idle" /\ sleeper'[d] = "sleep" /\ service
        => /\ command[mSessionId] = "run" => mSessionId \in killed'
           /\ command[mSessionId] = "dry" => mSessionId \notin killed']_vars

\* A toggle comes to an end and the button works again: a connect is answered, and a
\* disconnect of a session that is still open brings its onSessionFinished, whichever
\* other delayed disconnects are asleep, as long as JuiceSSH has never gone away.  (With its
\* activity destroyed, the manager has no button any more.)
ToggleEnds ==
    mSessionRunning /\ (mSessionId = NoSession \/ juice[mSessionId] = "open")
        ~> ~mSessionRunning \/ manager # "live" \/ losses < MaxLosses

\* "Are you sure you want to connect to" (the dialog's text): agreeing never disconnects.
AgreeingNeverDisconnects ==
    [][dialog /\ ~dialog' /\ manager' = "live"
       => \A d \in Disconnects : sleeper[d] = "idle" => sleeper'[d] = "idle"]_vars

-----------------------------------------------------------------------------
(* What the safety of OpenSessionIsCurrent and KillMatchesStart rests on *)

\* When a callback is queued: a connect that is over but not yet known to be, or the end of
\* the session the manager knows.
Due(callback) ==
    LET s == callback.id IN
    \/ /\ callback.kind = "started"
       /\ mSessionId = NoSession /\ mSessionRunning
       /\ juice[s] # "none" /\ s \notin listening /\ s \notin killed /\ command[s] = "none"
    \/ /\ callback.kind = "cancelled"
       /\ mSessionId = NoSession /\ mSessionRunning
    \/ /\ callback.kind = "finished"
       /\ mSessionId = s /\ juice[s] = "closed"

\* Never more than one callback is queued.
OneCallback ==
    callbacks = <<>> \/ \E callback \in Callbacks : callbacks = <<callback>> /\ Due(callback)

\* A connect that is under way keeps every other toggle out.
ConnectAlone ==
    connector # "none" => callbacks = <<>> /\ mSessionId = NoSession /\ mSessionRunning

\* Nothing has happened to a session that does not exist yet.
Unused ==
    \A s \in Sessions :
        juice[s] = "none" => s \notin listening /\ s \notin killed /\ command[s] = "none"

\* The manager's session exists, and the controller's fields describe its command.
FieldsDescribe ==
    mSessionId # NoSession
    => /\ juice[mSessionId] # "none"
       /\ command[mSessionId] = "run" => ~testOrNvram
       /\ command[mSessionId] = "dry" => testOrNvram /\ mSessionId \notin killed

IInv ==
    /\ TypeOK
    /\ mSessionKey = mSessionId
    /\ OneCallback
    /\ ConnectAlone
    /\ Unused
    /\ FieldsDescribe
    /\ OpenSessionIsCurrent

============================================================================
