----------------------------- MODULE VpnManager -----------------------------
(***************************************************************************)
(* The composition: the service and its dialog, the threads of the         *)
(* management connection, and the OpenVPN daemon at the other end of the   *)
(* socket.  The daemon is not part of the repository; its actions are      *)
(* what the code above relies on.                                          *)
(***************************************************************************)
EXTENDS ManagementConnection

-----------------------------------------------------------------------------
(* The daemon *)

\* It serves one client at a time; further connections wait in the backlog.
DaemonAccept(c) ==
    /\ daemonUp /\ client = NULL /\ sock[c] = "open"
    /\ client' = c
    /\ UNCHANGED <<pc, locals, connVars, stream, serviceVars, mgmtVars, daemonUp, dstate,
                   subscribed, events, inbox>>

DaemonDropsClient ==
    /\ client # NULL /\ sock[client] # "open"
    /\ client' = NULL
    /\ subscribed' = FALSE
    /\ inbox' = [inbox EXCEPT ![client] = <<>>]
    /\ UNCHANGED <<pc, locals, connVars, stream, serviceVars, mgmtVars, daemonUp, dstate,
                   events>>

Serving == daemonUp /\ client # NULL /\ sock[client] = "open"

Emit(newLines) ==
    stream' = IF sock[client] = "open" THEN [stream EXCEPT ![client] = @ \o newLines]
                                       ELSE stream

\* The daemon goes away: every connection ends once what it had sent is read.
HangUp ==
    /\ daemonUp' = FALSE
    /\ client' = NULL
    /\ subscribed' = FALSE
    /\ inbox' = [c \in Starts |-> <<>>]
    /\ sock' = [c \in Starts |-> IF sock[c] = "open" THEN "eof" ELSE sock[c]]
    /\ UNCHANGED <<mSocket, mBufferedReader, mBufferedWriter, readerClosed, writerClosed, lock>>

StateLine(state) == [kind |-> "state", state |-> state]

Handled == inbox' = [inbox EXCEPT ![client] = Tail(@)]

\* What a client wrote before it closed its end still arrives.
DaemonCommand ==
    LET command == Head(inbox[client]) IN
    /\ daemonUp /\ client # NULL
    /\ inbox[client] # <<>>
    /\ \/ /\ command = "state"
          /\ Handled
          /\ Emit(<<[kind |-> "reply", state |-> dstate], Plain("end")>>)
          /\ UNCHANGED <<connVars, daemonVars>>
       \/ /\ command = "setup"
          /\ Handled
          /\ Emit(<<Plain("success")>>)
          /\ subscribed' = TRUE
          /\ UNCHANGED <<connVars, daemonUp, dstate, client, events>>
       \/ /\ command = "auth"
          /\ Handled
          /\ Emit(<<Plain("success")>>)
          /\ UNCHANGED <<connVars, daemonVars>>
       \/ /\ command = "sigterm"
          /\ Emit(IF subscribed THEN <<StateLine(DaemonExiting)>> ELSE <<>>)
          /\ HangUp
          /\ dstate' = DaemonExiting
          /\ UNCHANGED events
    /\ UNCHANGED <<pc, locals, serviceVars, mgmtVars>>

DaemonState(state) ==
    /\ daemonUp /\ events > 0
    /\ state # dstate
    /\ dstate' = state
    /\ events' = events - 1
    /\ IF Serving /\ subscribed THEN Emit(<<StateLine(state)>>) ELSE UNCHANGED stream
    /\ UNCHANGED <<pc, locals, connVars, serviceVars, mgmtVars, daemonUp, client, subscribed,
                   inbox>>

DaemonLine(kind) ==
    /\ Serving /\ subscribed /\ events > 0
    /\ Emit(<<Plain(kind)>>)
    /\ events' = events - 1
    /\ UNCHANGED <<pc, locals, connVars, serviceVars, mgmtVars, daemonUp, dstate, client,
                   subscribed, inbox>>

DaemonDies ==
    /\ daemonUp
    /\ HangUp
    /\ dstate' = DaemonExiting
    /\ UNCHANGED <<pc, locals, stream, serviceVars, mgmtVars, events>>

DaemonRestarts ==
    /\ ~daemonUp /\ events > 0
    /\ daemonUp' = TRUE
    /\ dstate' = DaemonStart
    /\ events' = events - 1
    /\ UNCHANGED <<pc, locals, connVars, stream, serviceVars, mgmtVars, client, subscribed, inbox>>

Daemon ==
    \/ \E c \in Starts : DaemonAccept(c)
    \/ DaemonDropsClient
    \/ DaemonCommand
    \/ \E state \in Reported : DaemonState(state)
    \/ \E kind \in Requests : DaemonLine(kind)
    \/ DaemonDies
    \/ DaemonRestarts

-----------------------------------------------------------------------------
(* The whole *)

MainThread ==
    /\ \/ onCreate \/ onDestroy \/ \E c \in Starts : onStartCommand(c)
    /\ UNCHANGED <<locals, connVars, stream, mgmtVars, daemonVars, inbox>>

User ==
    /\ \/ startOpenVPNService \/ onResume \/ onPause \/ \E s \in Stops : onClick(s)
    /\ UNCHANGED <<locals, connVars, stream, mgmtVars, daemonVars, inbox>>

\* All a thread can do, whatever its role.
ConnectStep(c) ==
    \/ Connect(c)
    \/ ConnectFailed(c)
    \/ Announce(ConnectThread(c))
    \/ Read(ConnectThread(c))

ManagementStep(c) ==
    \/ Run(c)
    \/ Announce(ManagementThread(c))
    \/ Read(ManagementThread(c))
    \/ Disconnect(ManagementThread(c))

StopStep(s) == Stop(s) \/ Disconnect(StopThread(s))

Next ==
    \/ \E c \in Starts : ConnectStep(c)
    \/ \E c \in Starts : ManagementStep(c)
    \/ \E s \in Stops : StopStep(s)
    \/ MainThread
    \/ User
    \/ Daemon

Spec == Init /\ [][Next]_vars

\* A runnable thread runs, the main thread handles what is queued for it, and a live
\* daemon answers its client.  Neither the user nor a spontaneous step of the daemon is
\* owed to anybody.
Fairness ==
    /\ \A c \in Starts : WF_vars(ConnectStep(c)) /\ WF_vars(ManagementStep(c))
    /\ \A s \in Stops : WF_vars(StopStep(s))
    /\ WF_vars(MainThread)
    /\ WF_vars(DaemonDropsClient) /\ WF_vars(DaemonCommand)
    /\ \A c \in Starts : WF_vars(DaemonAccept(c))

FairSpec == Spec /\ Fairness

-----------------------------------------------------------------------------
(* Types *)

Places ==
    {"idle", "connect", "superConnect", "newSocket", "setSocket", "getInputStream", "newReader",
     "getOutputStream", "newWriter", "setOptions", "onConnected", "executeCommand",
     "writeCommand", "readLine", "reading", "gotLine", "parseReply", "failed", "processState",
     "notifyListeners", "onStateChanged", "setLevel", "run", "setup", "close", "closeReader",
     "closeWriter", "closeSocket", "onDisconnected", "end", "stopTask", "stopOpenVPN",
     "stopCheck", "done"}

ThreadTypes ==
    /\ pc \in [Threads -> Places]
    /\ in \in [Threads -> Starts \cup {NULL}]
    /\ line \in [Threads -> Lines \cup {NoLine}]
    /\ last \in [Threads -> Lines \cup {NoLine}]
    /\ shown \in [Threads -> States \cup {NULL}]

SocketTypes ==
    /\ mSocket \in Starts \cup {NULL}
    /\ mBufferedReader \in Starts \cup {NULL}
    /\ mBufferedWriter \in Starts \cup {NULL}
    /\ sock \in [Starts -> {"none", "open", "eof", "closed"}]
    /\ readerClosed \subseteq Starts
    /\ writerClosed \subseteq Starts
    /\ lock \in [Starts -> Threads \cup {NULL}]

WireTypes ==
    /\ stream \in [Starts -> Seq(Lines)]
    /\ inbox \in [Starts -> Seq(Commands)]

ServiceTypes ==
    /\ created \in BOOLEAN
    /\ started \in {"no", "pending", "cancelled", "yes"}
    /\ bound \in BOOLEAN
    /\ mNotificationAlwaysVisible \in BOOLEAN
    /\ mDisplayByteCount \in BOOLEAN
    /\ notif \in NotificationLevels
    /\ orphan \subseteq Threads \X BOOLEAN

ManagementTypes ==
    /\ isRunning \in BOOLEAN
    /\ mLastLevel \in ConnectionStatus
    /\ mState \in States \cup {NULL}

DaemonTypes ==
    /\ daemonUp \in BOOLEAN
    /\ dstate \in States
    /\ client \in Starts \cup {NULL}
    /\ subscribed \in BOOLEAN
    /\ events \in Nat

\* Every variable has its type.
TypeOK ==
    /\ ThreadTypes
    /\ SocketTypes
    /\ WireTypes
    /\ ServiceTypes
    /\ ManagementTypes
    /\ DaemonTypes

-----------------------------------------------------------------------------
(* Safety *)

Alive(t) == pc[t] \notin {"idle", "done"}

\* When the last thread has ended, no socket to the daemon is left open: whichever of
\* the management thread and stopOpenVPN closed, and whatever the other was doing then.
NoLeakedSocket ==
    (\A t \in Threads : ~Alive(t)) => \A c \in Starts : sock[c] \in {"none", "closed"}

\* A service that shows its notification has a thread that will end it: no path through
\* connect(), run() and stopOpenVPN() leaves a started service with nobody working for it.
NoZombieService == started = "yes" => \E t \in Threads : Alive(t)

Running == {"setup", "readLine", "reading", "gotLine", "processState", "notifyListeners",
            "onStateChanged", "setLevel", "close", "closeReader", "closeWriter",
            "closeSocket", "onDisconnected", "end"}

Closing == {"close", "closeReader", "closeWriter", "closeSocket", "onDisconnected"}

\* isRunning tells stopOpenVPN that some management thread will close the connection,
\* so it must never outlive the last of them.
RunningHasThread == isRunning => \E c \in Starts : pc[ManagementThread(c)] \in Running

\* run() returns only with its connection closed (the last assertion of
\* ConnectionTest.testRun).
RunLeavesDisconnected ==
    \A c \in Starts : pc[ManagementThread(c)] \in {"end", "done"} => sock[c] = "closed"

\* run() always finds a reader and a writer: whichever connect threads overlap in the
\* unsynchronised assignments of connect(), and whoever closes meanwhile, a management
\* thread that has still to send or to read does not meet a null field, which nobody would
\* catch.  (The two may be those of different sockets.)
RunHasStreams ==
    \A c \in Starts :
        pc[ManagementThread(c)] \in {"run"} \cup (Running \ (Closing \cup {"end"}))
            => mBufferedReader # NULL /\ mBufferedWriter # NULL

\* The service is given up only when its connection is: onConnectError and
\* onDisconnected, the two callbacks that end it, never find the socket open.
NeverAbandonsConnection ==
    [][started # "no" /\ started' = "no" => \A c \in Starts : sock[c] \in {"none", "closed"}]_vars

-----------------------------------------------------------------------------
(* What the safety of RunHasStreams and RunningHasThread rests on *)

\* A thread's locals are set where they are used: a stream to put a reader or a writer on,
\* a captured reader to read from or to close, a line with a state to process, and a state to show.
LocalsSet ==
    \A t \in Threads :
        /\ pc[t] \in {"readLine", "reading", "gotLine", "parseReply", "processState",
                     "notifyListeners", "onStateChanged", "setLevel", "closeReader",
                     "newReader", "newWriter"}
              => in[t] # NULL
        /\ pc[t] \in {"processState", "notifyListeners", "onStateChanged", "setLevel"}
              => line[t].kind \in {"state", "reply"}
        /\ pc[t] = "notifyListeners" => mState \in States
        /\ pc[t] = "onStateChanged" => shown[t] \in States

\* The reader is created before the writer and neither becomes null again.
ReaderFirst ==
    (mBufferedWriter # NULL
        \/ \E c \in Starts : pc[ConnectThread(c)] \in {"getOutputStream", "newWriter"})
        => mBufferedReader # NULL

\* A writer was created before a management thread is started.
WriterBeforeRun ==
    \A c \in Starts :
        pc[ConnectThread(c)] \in {"setOptions", "onConnected"} \/ pc[ManagementThread(c)] # "idle"
            => mBufferedWriter # NULL

Opening == {"connect", "superConnect", "newSocket", "setSocket", "getInputStream", "newReader",
            "getOutputStream", "newWriter", "setOptions", "onConnected"}

\* The management thread is started by onConnected, the end of the opening.
ManagementAfterOpening ==
    \A c \in Starts :
        pc[ConnectThread(c)] \in Opening \cup {"idle"} => pc[ManagementThread(c)] = "idle"

IInv ==
    /\ TypeOK
    /\ LocalsSet
    /\ ReaderFirst
    /\ ManagementAfterOpening
    /\ WriterBeforeRun
    /\ RunningHasThread

-----------------------------------------------------------------------------
(* Liveness *)

\* Once the daemon is gone for good, every thread ends and the service stops, restarts
\* of a crashed process included: nobody waits for ever in readLine or for its monitor.
ShutsDown ==
    <>[]~daemonUp => <>[](started = "no" /\ \A t \in Threads : ~Alive(t))

\* A confirmed stop comes to an end although close() may have to wait for the monitor
\* a thread blocked in readLine holds: the daemon's answer to SIGTERM frees it.
StopReturns ==
    \A s \in Stops : pc[StopThread(s)] = "stopTask" ~> ~Alive(StopThread(s))

-----------------------------------------------------------------------------
(* What the comments of the code promise *)

\* "Close connection if AUTH has failed" (ManagementConnection.processHold): when the
\* last state the management thread announced is the authentication failure, the hold
\* it reads next closes the connection.
HoldAfterAuthFailureCloses ==
    [][\A c \in Starts :
        LET t == ManagementThread(c) IN
        /\ pc[t] = "gotLine" /\ line[t].kind = "hold"
        /\ shown[t] # NULL /\ getLevel(shown[t]) = "LEVEL_AUTH_FAILED"
        => pc'[t] \in {"gotLine", "close", "idle"}]_vars
============================================================================
