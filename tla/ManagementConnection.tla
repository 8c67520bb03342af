------------------------ MODULE ManagementConnection ------------------------
(***************************************************************************)
(* The singleton management connection (net/ManagementConnection.java):    *)
(* connect() on the thread of onStartCommand, run() on the management      *)
(* thread, stopOpenVPN() on the thread of the stop dialog, all three over  *)
(* one socket, against an OpenVPN daemon that may die and come back and an *)
(* Android process that dies of any uncaught exception.                    *)
(***************************************************************************)
EXTENDS OpenVPNService, FiniteSets

CONSTANTS Reported,   \* the states the daemon goes through
          Requests,   \* the kinds of line it sends of its own accord, besides states
          MaxEvents   \* bound: spontaneous steps of the daemon

ASSUME DaemonAssumption ==
    /\ Reported \subseteq States
    /\ Requests \subseteq {"bytecount", "hold", "password", "unsupported"}
    /\ MaxEvents \in Nat

VARIABLES
    last,         \* the last line executeCommand put into its result
    shown,        \* the state a thread's notifyListeners loop read from mState
    isRunning, mLastLevel, mState,
    daemonUp,     \* the daemon is running
    dstate,       \* its current state
    client,       \* the socket it serves: one at a time, others wait in the backlog
    subscribed,   \* the client has asked for real-time events
    inbox,        \* commands written to each socket and not yet handled
    events        \* spontaneous steps the daemon may still take

locals == <<in, line, last, shown>>

mgmtVars == <<isRunning, mLastLevel, mState>>

daemonVars == <<daemonUp, dstate, client, subscribed, events>>

vars == <<pc, locals, connVars, stream, serviceVars, mgmtVars, daemonVars, inbox>>

Commands == {"state", "setup", "auth", "sigterm"}

DaemonStart == [name |-> "CONNECTING", authFailure |-> FALSE]

DaemonExiting == [name |-> "EXITING", authFailure |-> FALSE]

\* The state of a process that has just been created.
FreshProcess ==
    /\ pc = [t \in Threads |-> "idle"]
    /\ in = [t \in Threads |-> NULL]
    /\ line = [t \in Threads |-> NoLine]
    /\ last = [t \in Threads |-> NoLine]
    /\ shown = [t \in Threads |-> NULL]
    /\ mSocket = NULL /\ mBufferedReader = NULL /\ mBufferedWriter = NULL
    /\ sock = [c \in Starts |-> "none"]
    /\ readerClosed = {} /\ writerClosed = {}
    /\ lock = [c \in Starts |-> NULL]
    /\ stream = [c \in Starts |-> <<>>]
    /\ inbox = [c \in Starts |-> <<>>]
    /\ isRunning = FALSE
    /\ mLastLevel = "LEVEL_NOT_CONNECTED"
    /\ mState = NULL
    /\ created = FALSE /\ bound = FALSE
    /\ mNotificationAlwaysVisible = FALSE /\ mDisplayByteCount = FALSE
    /\ notif = "none"
    /\ orphan = {}
    /\ client = NULL
    /\ subscribed = FALSE

Init ==
    /\ FreshProcess
    /\ started = "no"
    /\ daemonUp = TRUE
    /\ dstate = DaemonStart
    /\ events = MaxEvents

\* An uncaught exception kills the process.  A started service is started again with
\* the intent redelivered (onStartCommand returns START_REDELIVER_INTENT).
ProcessDeath ==
    /\ pc' = [t \in Threads |-> "idle"]
    /\ in' = [t \in Threads |-> NULL]
    /\ line' = [t \in Threads |-> NoLine]
    /\ last' = [t \in Threads |-> NoLine]
    /\ shown' = [t \in Threads |-> NULL]
    /\ mSocket' = NULL /\ mBufferedReader' = NULL /\ mBufferedWriter' = NULL
    /\ sock' = [c \in Starts |-> "none"]
    /\ readerClosed' = {} /\ writerClosed' = {}
    /\ lock' = [c \in Starts |-> NULL]
    /\ stream' = [c \in Starts |-> <<>>]
    /\ inbox' = [c \in Starts |-> <<>>]
    /\ isRunning' = FALSE
    /\ mLastLevel' = "LEVEL_NOT_CONNECTED"
    /\ mState' = NULL
    /\ created' = FALSE /\ bound' = FALSE
    /\ mNotificationAlwaysVisible' = FALSE /\ mDisplayByteCount' = FALSE
    /\ notif' = "none"
    /\ orphan' = {}
    /\ client' = NULL
    /\ subscribed' = FALSE
    /\ started' = IF started \in {"no", "cancelled"} THEN "no" ELSE "pending"
    /\ UNCHANGED <<daemonUp, dstate, events>>

-----------------------------------------------------------------------------
(* connect(host, port), on ConnectThread(c) *)

\* Mutant: the failure is not reported.
ConnectErrorSwallowed(t) ==
    /\ pc' = [pc EXCEPT ![t] = "executeCommand"]
    /\ UNCHANGED <<serviceVars, connVars, locals, stream, mgmtVars, daemonVars, inbox>>

\* Every failure inside super.connect is reported to the listener, and connect()
\* goes on to executeCommand all the same.
ConnectError(t) ==
    /\ EndIfListening
    /\ pc' = [pc EXCEPT ![t] = "executeCommand"]
    /\ UNCHANGED <<connVars, locals, stream, mgmtVars, daemonVars, inbox>>

Goto(t, place) ==
    /\ pc' = [pc EXCEPT ![t] = place]
    /\ UNCHANGED <<connVars, locals, stream, serviceVars, mgmtVars, daemonVars, inbox>>

\* A thread ends and its local variables with it.
Finish(t) ==
    /\ pc' = [pc EXCEPT ![t] = "done"]
    /\ in' = [in EXCEPT ![t] = NULL]
    /\ line' = [line EXCEPT ![t] = NoLine]
    /\ last' = [last EXCEPT ![t] = NoLine]
    /\ shown' = [shown EXCEPT ![t] = NULL]

ConnectIfNotConnected(c) ==
    LET t == ConnectThread(c) IN
    /\ pc[t] = "connect"
    /\ Goto(t, IF isConnected THEN "executeCommand" ELSE "superConnect")

\* AbstractConnection.connect tests again and throws "already connected".
SuperConnect(c) ==
    LET t == ConnectThread(c) IN
    /\ pc[t] = "superConnect"
    /\ IF isConnected THEN ConnectError(t) ELSE Goto(t, "newSocket")

OpenSocket(c) ==
    LET t == ConnectThread(c) IN
    /\ pc[t] = "newSocket"
    /\ \/ /\ daemonUp
          /\ NewSocket(c)
          /\ pc' = [pc EXCEPT ![t] = "setSocket"]
          /\ UNCHANGED <<locals, stream, serviceVars, mgmtVars, daemonVars, inbox>>
       \/ ConnectError(t)

KeepSocket(c) ==
    LET t == ConnectThread(c) IN
    /\ pc[t] = "setSocket"
    /\ SetSocket(c)
    /\ pc' = [pc EXCEPT ![t] = "getInputStream"]
    /\ UNCHANGED <<locals, stream, serviceVars, mgmtVars, daemonVars, inbox>>

OpenStream(c, from, to) ==
    LET t == ConnectThread(c) IN
    /\ pc[t] = from
    /\ \/ /\ GetStream(t)
          /\ pc' = [pc EXCEPT ![t] = to]
          /\ UNCHANGED <<line, last, shown, stream, serviceVars, mgmtVars, daemonVars, inbox>>
       \/ ~isConnected /\ ConnectError(t)

\* Neither a reader nor a writer cares whether the socket under its stream is still open.
OpenReader(c) ==
    LET t == ConnectThread(c) IN
    /\ pc[t] = "newReader"
    /\ NewReader(t)
    /\ pc' = [pc EXCEPT ![t] = "getOutputStream"]
    /\ UNCHANGED <<line, last, shown, stream, serviceVars, mgmtVars, daemonVars, inbox>>

OpenWriter(c) ==
    LET t == ConnectThread(c) IN
    /\ pc[t] = "newWriter"
    /\ NewWriter(t)
    /\ pc' = [pc EXCEPT ![t] = "setOptions"]
    /\ UNCHANGED <<line, last, shown, stream, serviceVars, mgmtVars, daemonVars, inbox>>

SetOptions(c) ==
    LET t == ConnectThread(c) IN
    /\ pc[t] = "setOptions"
    /\ IF isConnected THEN Goto(t, "onConnected") ELSE ConnectError(t)

\* The service's onConnected starts the management thread.
OnConnected(c) ==
    LET t == ConnectThread(c) IN
    /\ pc[t] = "onConnected"
    /\ pc' = [pc EXCEPT ![t] = "executeCommand",
                        ![ManagementThread(c)] = IF created THEN "run" ELSE @]
    /\ UNCHANGED <<connVars, locals, stream, serviceVars, mgmtVars, daemonVars, inbox>>

\* executeCommand: test, capture the reader, then write through the current writer.
\* The exceptions it throws, null pointers included, end in onStartCommand's catch.
ExecuteCommand(c) ==
    LET t == ConnectThread(c) IN
    /\ pc[t] = "executeCommand"
    /\ IF isConnected
       THEN /\ in' = [in EXCEPT ![t] = mBufferedReader]
            /\ pc' = [pc EXCEPT ![t] = "writeCommand"]
            /\ UNCHANGED <<line, last, shown>>
       ELSE Finish(t)
    /\ UNCHANGED <<connVars, stream, serviceVars, mgmtVars, daemonVars, inbox>>

\* A command written to a socket the daemon has left is lost.
Send(w, command) ==
    inbox' = IF sock[w] = "open" THEN [inbox EXCEPT ![w] = Append(@, command)] ELSE inbox

WriteCommand(c) ==
    LET t == ConnectThread(c)
        w == mBufferedWriter
    IN  /\ pc[t] = "writeCommand"
        /\ \/ /\ WriteOK(w)
              /\ Send(w, "state")
              /\ IF in[t] = NULL
                 THEN Finish(t)
                 ELSE pc' = [pc EXCEPT ![t] = "readLine"] /\ UNCHANGED locals
           \/ /\ w = NULL \/ WriteFails(w)
              /\ Finish(t)
              /\ UNCHANGED inbox
        /\ UNCHANGED <<connVars, stream, serviceVars, mgmtVars, daemonVars>>

\* The loop body: ready() needs the monitor and throws on a closed reader, and END counts
\* only when no further input is ready.
CollectLine(c) ==
    LET t == ConnectThread(c)
        r == in[t]
    IN  /\ pc[t] = "gotLine"
        /\ lock[r] = NULL
        /\ \/ r \in readerClosed /\ Finish(t)
           \/ \E ready \in Ready(r) :
              LET ends == line[t].kind = "end" /\ ~ready IN
              /\ r \notin readerClosed
              /\ last' = [last EXCEPT ![t] = IF ends THEN @ ELSE line[t]]
              /\ line' = [line EXCEPT ![t] = NoLine]
              /\ pc' = [pc EXCEPT ![t] = IF ends THEN "parseReply" ELSE "readLine"]
              /\ UNCHANGED <<in, shown>>
        /\ UNCHANGED <<connVars, stream, serviceVars, mgmtVars, daemonVars, inbox>>

\* Only the last line of the result is looked at.  A line without the commas of a
\* state makes processState throw, into onStartCommand's catch.
ParseReply(c) ==
    LET t == ConnectThread(c)
        carriesState == last[t].kind \in {"state", "reply"}
    IN  /\ pc[t] = "parseReply"
        /\ IF carriesState /\ ~last[t].state.authFailure
           THEN /\ line' = [line EXCEPT ![t] = last[t]]
                /\ last' = [last EXCEPT ![t] = NoLine]
                /\ pc' = [pc EXCEPT ![t] = "processState"]
                /\ UNCHANGED <<in, shown>>
           ELSE Finish(t)
        /\ UNCHANGED <<connVars, stream, serviceVars, mgmtVars, daemonVars, inbox>>

Connect(c) ==
    \/ ConnectIfNotConnected(c) \/ SuperConnect(c) \/ OpenSocket(c) \/ KeepSocket(c)
    \/ OpenStream(c, "getInputStream", "newReader") \/ OpenReader(c)
    \/ OpenStream(c, "getOutputStream", "newWriter") \/ OpenWriter(c)
    \/ SetOptions(c) \/ OnConnected(c)
    \/ ExecuteCommand(c) \/ WriteCommand(c) \/ CollectLine(c) \/ ParseReply(c)

-----------------------------------------------------------------------------
(* processState(argument), on the connect thread or the management thread *)

Processors == ConnectThreads \cup ManagementThreads

\* The connect thread is finished, the management thread goes on to the next line.
NextLine(t) ==
    IF t \in ConnectThreads
    THEN Finish(t)
    ELSE /\ pc' = [pc EXCEPT ![t] = "readLine"]
         /\ line' = [line EXCEPT ![t] = NoLine]
         /\ UNCHANGED <<in, last, shown>>

\* setState stores the state in the field all threads share.
ProcessState(t) ==
    LET state == line[t].state
        ignored == mLastLevel = "LEVEL_CONNECTED" /\ Ignorable(state)
    IN  /\ pc[t] = "processState"
        /\ IF ignored
           THEN NextLine(t) /\ UNCHANGED mState
           ELSE /\ mState' = state
                /\ pc' = [pc EXCEPT ![t] = "notifyListeners"]
                /\ UNCHANGED locals
        /\ UNCHANGED <<isRunning, mLastLevel, connVars, stream, serviceVars, daemonVars, inbox>>

\* notifyListeners reads the field back for each listener.
NotifyListeners(t) ==
    /\ pc[t] = "notifyListeners"
    /\ shown' = [shown EXCEPT ![t] = IF created THEN mState ELSE @]
    /\ pc' = [pc EXCEPT ![t] = IF created THEN "onStateChanged" ELSE "setLevel"]
    /\ UNCHANGED <<connVars, in, line, last, stream, serviceVars, mgmtVars, daemonVars,
                   inbox>>

OnStateChanged(t) ==
    /\ pc[t] = "onStateChanged"
    /\ onStateChanged(t, shown[t])
    /\ pc' = [pc EXCEPT ![t] = "setLevel"]
    /\ UNCHANGED <<connVars, locals, stream, mgmtVars, daemonVars, inbox>>

\* Mutant: the state's name is stored where its level belongs.
SetLevelName(t) ==
    /\ pc[t] = "setLevel"
    /\ mLastLevel' = line[t].state.name
    /\ NextLine(t)
    /\ UNCHANGED <<isRunning, mState, connVars, stream, serviceVars, daemonVars, inbox>>

SetLevel(t) ==
    /\ pc[t] = "setLevel"
    /\ mLastLevel' = getLevel(line[t].state)
    /\ NextLine(t)
    /\ UNCHANGED <<isRunning, mState, connVars, stream, serviceVars, daemonVars, inbox>>

Announce(t) ==
    ProcessState(t) \/ NotifyListeners(t) \/ OnStateChanged(t) \/ SetLevel(t)

-----------------------------------------------------------------------------
(* readLine and close(), shared by the threads *)

Read(t) ==
    /\ \/ ReadLock(t)
       \/ ReadReturns(t)
       \/ ReadEOF(t, IF t \in ConnectThreads THEN "parseReply" ELSE "close")
       \/ ReadThrows(t, IF t \in ConnectThreads THEN "failed" ELSE "close")
    /\ UNCHANGED <<last, shown, serviceVars, mgmtVars, daemonVars, inbox>>

\* The connect thread's IOException arrives in onStartCommand's catch.
ConnectFailed(c) ==
    /\ pc[ConnectThread(c)] = "failed"
    /\ Finish(ConnectThread(c))
    /\ UNCHANGED <<connVars, stream, serviceVars, mgmtVars, daemonVars, inbox>>

Closers == ManagementThreads \cup StopThreads

\* disconnect(): closeQuietly, then onDisconnected.
Disconnect(t) ==
    \/ /\ Close(t)
       /\ UNCHANGED <<last, shown, serviceVars, mgmtVars, daemonVars, inbox>>
    \/ /\ pc[t] = "onDisconnected"
       /\ EndIfListening
       /\ IF t \in ManagementThreads
          THEN pc' = [pc EXCEPT ![t] = "end"] /\ UNCHANGED locals
          ELSE Finish(t)
       /\ UNCHANGED <<connVars, stream, mgmtVars, daemonVars, inbox>>

-----------------------------------------------------------------------------
(* run(), on ManagementThread(c) *)

\* Not connected any more: a RuntimeException nobody catches.
RunBegin(c) ==
    LET t == ManagementThread(c) IN
    /\ pc[t] = "run"
    /\ \/ ~isConnected /\ ProcessDeath
       \/ /\ isConnected
          /\ isRunning' = TRUE
          /\ pc' = [pc EXCEPT ![t] = "setup"]
          /\ UNCHANGED <<connVars, locals, stream, serviceVars, mLastLevel, mState,
                         daemonVars, inbox>>

\* Mutant: a failed command ends run() without disconnect().
RunSetupReturns(c) ==
    LET t == ManagementThread(c)
        w == mBufferedWriter
    IN  /\ pc[t] = "setup"
        /\ \/ /\ isConnected /\ WriteOK(w)
              /\ Send(w, "setup")
              /\ in' = [in EXCEPT ![t] = mBufferedReader]
              /\ pc' = [pc EXCEPT ![t] = "readLine"]
              /\ UNCHANGED <<connVars, line, last, shown, stream, serviceVars, mgmtVars,
                             daemonVars>>
           \/ /\ ~isConnected \/ WriteFails(w)
              /\ Goto(t, "end")

\* The five commands that turn events on and release the hold, as one write: they fail
\* alike, and the replies to them are told apart by nobody.  Neither reader nor writer is
\* null here (RunHasStreams).
RunSetup(c) ==
    LET t == ManagementThread(c)
        w == mBufferedWriter
    IN  /\ pc[t] = "setup"
        /\ \/ /\ isConnected /\ WriteOK(w)
              /\ Send(w, "setup")
              /\ in' = [in EXCEPT ![t] = mBufferedReader]
              /\ pc' = [pc EXCEPT ![t] = "readLine"]
              /\ UNCHANGED <<connVars, line, last, shown, stream, serviceVars, mgmtVars,
                             daemonVars>>
           \/ /\ ~isConnected \/ WriteFails(w)
              /\ Goto(t, "close")

\* Nothing to do for this line.
Skip(t) ==
    /\ NextLine(t)
    /\ UNCHANGED <<connVars, stream, serviceVars, mgmtVars, daemonVars, inbox>>

\* >HOLD: the connection is dropped if authentication has failed.
ProcessHold(t) == IF mLastLevel = "LEVEL_AUTH_FAILED" THEN Goto(t, "close") ELSE Skip(t)

\* >PASSWORD:Need 'Auth': user name and password are sent.
ProcessPassword(t) ==
    LET w == mBufferedWriter IN
    \/ /\ isConnected /\ WriteOK(w)
       /\ Send(w, "auth")
       /\ NextLine(t)
       /\ UNCHANGED <<connVars, stream, serviceVars, mgmtVars, daemonVars>>
    \/ /\ ~isConnected \/ WriteFails(w)
       /\ Goto(t, "close")

ProcessByteCount(t) ==
    /\ onByteCountChanged
    /\ NextLine(t)
    /\ UNCHANGED <<connVars, stream, mgmtVars, daemonVars, inbox>>

\* The UnsupportedOperationException for the requests the client does not know is
\* not among the exceptions run() catches.  Lines that are no event are only logged.
ParseInput(c) ==
    LET t == ManagementThread(c)
        kind == line[t].kind
    IN  /\ pc[t] = "gotLine"
        /\ \/ kind = "state" /\ Goto(t, "processState")
           \/ kind = "bytecount" /\ ProcessByteCount(t)
           \/ kind = "hold" /\ ProcessHold(t)
           \/ kind = "password" /\ ProcessPassword(t)
           \/ kind = "unsupported" /\ ProcessDeath
           \/ kind \in {"reply", "end", "success"} /\ Skip(t)

\* Mutant: isRunning is not reset.
RunEndStillRunning(c) ==
    LET t == ManagementThread(c) IN
    /\ pc[t] = "end"
    /\ Finish(t)
    /\ UNCHANGED <<isRunning, connVars, stream, serviceVars, mLastLevel, mState, daemonVars,
                   inbox>>

RunEnd(c) ==
    LET t == ManagementThread(c) IN
    /\ pc[t] = "end"
    /\ isRunning' = FALSE
    /\ Finish(t)
    /\ UNCHANGED <<connVars, stream, serviceVars, mLastLevel, mState, daemonVars, inbox>>

Run(c) == RunBegin(c) \/ RunSetup(c) \/ ParseInput(c) \/ RunEnd(c)

-----------------------------------------------------------------------------
(* stopOpenVPN(), on StopThread(s) *)

\* StopTask holds the service weakly: once it is destroyed the reference may be gone.
StopBegin(s) ==
    LET t == StopThread(s) IN
    /\ pc[t] = "stopTask"
    /\ \/ Goto(t, "stopOpenVPN")
       \/ ~created /\ Goto(t, "done")

\* Mutant: the command is written and not flushed.
StopCommandUnflushed(s) ==
    LET t == StopThread(s)
        w == mBufferedWriter
    IN  /\ pc[t] = "stopOpenVPN"
        /\ \/ isConnected /\ WriteOK(w) /\ Goto(t, "stopCheck")
           \/ (~isConnected \/ WriteFails(w)) /\ Goto(t, "done")
           \/ isConnected /\ w = NULL /\ ProcessDeath

\* stopVPN catches the IOException of the command, but not a null writer.
StopCommand(s) ==
    LET t == StopThread(s)
        w == mBufferedWriter
    IN  /\ pc[t] = "stopOpenVPN"
        /\ \/ /\ isConnected /\ WriteOK(w)
              /\ Send(w, "sigterm")
              /\ pc' = [pc EXCEPT ![t] = "stopCheck"]
              /\ UNCHANGED <<connVars, locals, stream, serviceVars, mgmtVars, daemonVars>>
           \/ /\ ~isConnected \/ WriteFails(w)
              /\ Goto(t, "done")
           \/ /\ isConnected /\ w = NULL
              /\ ProcessDeath

\* Mutant: the service is told without closing anything.
StopCheckNoClose(s) ==
    LET t == StopThread(s) IN
    /\ pc[t] = "stopCheck"
    /\ Goto(t, IF isRunning THEN "done" ELSE "onDisconnected")

\* With a management thread running, closing is left to it.
StopCheck(s) ==
    LET t == StopThread(s) IN
    /\ pc[t] = "stopCheck"
    /\ Goto(t, IF isRunning THEN "done" ELSE "close")

Stop(s) == StopBegin(s) \/ StopCommand(s) \/ StopCheck(s)
============================================================================
