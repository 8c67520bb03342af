-------------------------- MODULE VpnManagerProofs --------------------------
(***************************************************************************)
(* Proofs about VpnManager, for any number of onStartCommand calls and     *)
(* stop dialogs and any daemon.                                            *)
(***************************************************************************)
EXTENDS VpnManager, TLAPS

-----------------------------------------------------------------------------
(* Threads *)

\* A thread belongs to one start or stop and has one role.
LEMMA ThreadFacts ==
    /\ \A c \in Starts : ConnectThread(c) \in Threads /\ ManagementThread(c) \in Threads
    /\ \A s \in Stops : StopThread(s) \in Threads
    /\ \A c, d \in Starts : ConnectThread(c) # ManagementThread(d)
    /\ \A c, d \in Starts : ConnectThread(c) = ConnectThread(d) <=> c = d
    /\ \A c, d \in Starts : ManagementThread(c) = ManagementThread(d) <=> c = d
    /\ \A c \in Starts, s \in Stops :
          StopThread(s) # ConnectThread(c) /\ StopThread(s) # ManagementThread(c)
  BY DEF Threads, ConnectThreads, ManagementThreads, StopThreads, ConnectThread,
         ManagementThread, StopThread

\* Which of the role tests of the shared actions a thread passes.
LEMMA RoleFacts ==
    /\ \A c \in Starts : /\ ConnectThread(c) \in ConnectThreads
                         /\ ConnectThread(c) \notin ManagementThreads
    /\ \A c \in Starts : /\ ManagementThread(c) \notin ConnectThreads
                         /\ ManagementThread(c) \in ManagementThreads
    /\ \A s \in Stops : /\ StopThread(s) \notin ConnectThreads
                        /\ StopThread(s) \notin ManagementThreads
  BY DEF ConnectThreads, ManagementThreads, StopThreads, ConnectThread,
         ManagementThread, StopThread

\* Every state has a level.
LEMMA LevelType == \A state \in States : getLevel(state) \in ConnectionStatus
  BY DEF getLevel, ConnectionStatus, States

\* A line of a kind that carries a state carries one.
LEMMA LineState ==
    \A l \in Lines \cup {NoLine} :
        l.kind \in {"state", "reply"} => l \in Lines /\ l.state \in States
  BY DEF Lines, NoLine, PlainKinds

\* What the daemon puts on the wire is a line.
LEMMA LineTypes ==
    /\ \A state \in States : StateLine(state) \in Lines
    /\ \A state \in States : [kind |-> "reply", state |-> state] \in Lines
    /\ \A kind \in PlainKinds : Plain(kind) \in Lines
  BY DEF Lines, StateLine, Plain

\* The inductive invariant holds initially.
LEMMA InitIInv == Init => IInv
  <1> SUFFICES ASSUME Init PROVE IInv
    OBVIOUS
  <1> USE DEF Init, FreshProcess
  <1>1. TypeOK
    <2>1. ThreadTypes
      BY DEF ThreadTypes, Places
    <2>2. SocketTypes
      BY DEF SocketTypes
    <2>3. WireTypes
      BY DEF WireTypes
    <2>4. ServiceTypes
      BY DEF ServiceTypes, NotificationLevels
    <2>5. ManagementTypes
      BY DEF ManagementTypes, ConnectionStatus
    <2>6. DaemonTypes
      BY DaemonAssumption DEF DaemonTypes, DaemonStart, States, StateNames, mNoReply
    <2> QED
      BY <2>1, <2>2, <2>3, <2>4, <2>5, <2>6 DEF TypeOK
  <1>2. LocalsSet
    BY DEF LocalsSet
  <1>3. ReaderFirst
    BY ThreadFacts DEF ReaderFirst
  <1>4. ManagementAfterOpening
    BY ThreadFacts DEF ManagementAfterOpening
  <1>5. WriterBeforeRun /\ RunningHasThread
    BY ThreadFacts DEF WriterBeforeRun, RunningHasThread
  <1> QED
    BY <1>1, <1>2, <1>3, <1>4, <1>5 DEF IInv

-----------------------------------------------------------------------------
(* Steps that leave a group of variables alone *)

\* A step that leaves the connection, the service or the daemon alone keeps what the
\* invariant says of it.
LEMMA Keep ==
    /\ UNCHANGED connVars => (SocketTypes => SocketTypes')
    /\ UNCHANGED <<stream, inbox>> => (WireTypes => WireTypes')
    /\ UNCHANGED serviceVars => (ServiceTypes => ServiceTypes')
    /\ UNCHANGED mgmtVars => (ManagementTypes => ManagementTypes')
    /\ UNCHANGED daemonVars => (DaemonTypes => DaemonTypes')
  BY DEF connVars, serviceVars, mgmtVars, daemonVars, SocketTypes, WireTypes, ServiceTypes,
         ManagementTypes, DaemonTypes

\* A step that ends a thread or moves it elsewhere keeps the types of its locals.
LEMMA ThreadStep ==
    ASSUME ThreadTypes, NEW t \in Threads
    PROVE  /\ Finish(t) => ThreadTypes'
           /\ NextLine(t) => ThreadTypes'
           /\ \A place \in Places :
                 pc' = [pc EXCEPT ![t] = place] /\ UNCHANGED locals => ThreadTypes'
  BY DEF ThreadTypes, Finish, NextLine, locals, Places

\* endVpnService, as the callbacks make it, keeps the service's types.
LEMMA EndTypes == ServiceTypes /\ EndIfListening => ServiceTypes'
  BY DEF ServiceTypes, EndIfListening, endVpnService, serviceVars, NotificationLevels

\* A new process satisfies the invariant.
LEMMA DeathIInv == IInv /\ ProcessDeath => IInv'
  <1> SUFFICES ASSUME IInv, ProcessDeath PROVE IInv'
    OBVIOUS
  <1> USE DEF ProcessDeath
  <1>1. ThreadTypes'
    BY DEF ThreadTypes, Places
  <1>2. SocketTypes' /\ WireTypes'
    BY DEF SocketTypes, WireTypes
  <1>3. ServiceTypes'
    BY DEF IInv, TypeOK, ServiceTypes, NotificationLevels
  <1>4. ManagementTypes'
    BY DEF ManagementTypes, ConnectionStatus
  <1>5. DaemonTypes'
    BY DEF IInv, TypeOK, DaemonTypes
  <1>6. LocalsSet' /\ ReaderFirst' /\ ManagementAfterOpening'
    BY ThreadFacts DEF LocalsSet, ReaderFirst, ManagementAfterOpening
  <1>7. WriterBeforeRun' /\ RunningHasThread'
    BY ThreadFacts DEF WriterBeforeRun, RunningHasThread
  <1> QED
    BY <1>1, <1>2, <1>3, <1>4, <1>5, <1>6, <1>7 DEF IInv, TypeOK

-----------------------------------------------------------------------------
(* Steps of one thread *)

\* What a step of thread t needs to preserve the relations between the threads and the
\* fields: it assigns no field and does not go back to the opening.
\* RunningHasThread follows if it neither starts nor leaves the running part of run().
LEMMA Move ==
    ASSUME IInv, NEW t \in Threads, NEW place \in Places,
           pc' = [pc EXCEPT ![t] = place],
           UNCHANGED <<mSocket, mBufferedReader, mBufferedWriter>>,
           place \notin {"getOutputStream", "newWriter"},
           place \in {"setOptions", "onConnected"} => pc[t] = "setOptions",
           place \in Opening \cup {"idle"} => pc[t] \in Opening \cup {"idle"},
           t \in ManagementThreads => pc[t] # "idle"
    PROVE  /\ ReaderFirst' /\ ManagementAfterOpening' /\ WriterBeforeRun'
           /\ /\ isRunning' => isRunning
              /\ t \in ManagementThreads /\ pc[t] \in Running => place \in Running
              => RunningHasThread'
  <1> USE ThreadFacts, RoleFacts DEF IInv, TypeOK, ThreadTypes
  <1>1. ReaderFirst'
    BY DEF ReaderFirst
  <1>2. ManagementAfterOpening'
    BY DEF ManagementAfterOpening
  <1>3. WriterBeforeRun'
    BY DEF WriterBeforeRun
  <1>4. ASSUME isRunning' => isRunning,
               t \in ManagementThreads /\ pc[t] \in Running => place \in Running
        PROVE  RunningHasThread'
    BY <1>4 DEF RunningHasThread
  <1> QED
    BY <1>1, <1>2, <1>3, <1>4

\* The same for a step of processState or of run() that stays within run(), were it on the
\* management thread.
LEMMA RunningMove ==
    ASSUME IInv, NEW t \in Threads, NEW place \in Running,
           pc' = [pc EXCEPT ![t] = place], pc[t] # "idle",
           UNCHANGED <<mSocket, mBufferedReader, mBufferedWriter, isRunning>>
    PROVE  ReaderFirst' /\ ManagementAfterOpening' /\ WriterBeforeRun' /\ RunningHasThread'
  <1>1. /\ place \in Places /\ place \notin Opening \cup {"idle"}
        /\ place \notin {"getOutputStream", "newWriter", "setOptions", "onConnected"}
    BY DEF Running, Places, Opening
  <1> QED
    BY <1>1, Move

\* The same for a step in which no thread moves.
LEMMA Still ==
    ASSUME IInv,
           UNCHANGED <<pc, locals, mSocket, mBufferedReader, mBufferedWriter, mState,
                       isRunning>>
    PROVE  /\ ThreadTypes' /\ LocalsSet'
           /\ ReaderFirst' /\ ManagementAfterOpening' /\ WriterBeforeRun' /\ RunningHasThread'
  <1>1. ThreadTypes' /\ LocalsSet'
    BY DEF IInv, TypeOK, ThreadTypes, LocalsSet, locals
  <1>2. ReaderFirst' /\ ManagementAfterOpening' /\ WriterBeforeRun' /\ RunningHasThread'
    BY DEF IInv, ReaderFirst, ManagementAfterOpening, WriterBeforeRun, RunningHasThread
  <1> QED
    BY <1>1, <1>2

\* A connect or stop thread that ends.
LEMMA FinishStep ==
    ASSUME IInv, NEW t \in Threads, Finish(t), t \notin ManagementThreads,
           pc[t] \notin Opening \cup {"idle"},
           UNCHANGED <<mSocket, mBufferedReader, mBufferedWriter, sock, mState, isRunning>>
    PROVE  /\ ThreadTypes' /\ LocalsSet'
           /\ ReaderFirst' /\ ManagementAfterOpening' /\ WriterBeforeRun' /\ RunningHasThread'
  <1>1. ThreadTypes'
    BY ThreadStep DEF IInv, TypeOK
  <1>2. LocalsSet'
    BY DEF IInv, TypeOK, ThreadTypes, LocalsSet, Finish
  <1>3. "done" \in Places /\ "done" \notin Opening
    BY DEF Places, Opening
  <1>4. ReaderFirst' /\ ManagementAfterOpening' /\ WriterBeforeRun' /\ RunningHasThread'
    BY <1>3, Move DEF Finish
  <1> QED
    BY <1>1, <1>2, <1>4

\* A thread that only changes its place, to one whose locals it has already.
LEMMA GotoStep ==
    ASSUME IInv, NEW t \in Threads, NEW place \in Places, Goto(t, place),
           place \notin {"getOutputStream", "newWriter"},
           place \in {"setOptions", "onConnected"} => pc[t] = "setOptions",
           place \in Opening \cup {"idle"} => pc[t] \in Opening \cup {"idle"},
           t \in ManagementThreads => pc[t] # "idle" /\ place \in Running,
           place \notin {"newReader", "readLine", "reading", "gotLine", "parseReply",
                         "closeReader", "notifyListeners", "onStateChanged", "setLevel"},
           place = "processState" => in[t] # NULL /\ line[t].kind \in {"state", "reply"}
    PROVE  IInv'
  <1>1. ThreadTypes' /\ SocketTypes' /\ WireTypes' /\ ServiceTypes' /\ ManagementTypes'
            /\ DaemonTypes'
    BY ThreadStep, Keep DEF IInv, TypeOK, Goto
  <1>2. LocalsSet'
    BY DEF IInv, TypeOK, ThreadTypes, LocalsSet, Goto, locals, mgmtVars
  <1>3. ReaderFirst' /\ ManagementAfterOpening' /\ WriterBeforeRun' /\ RunningHasThread'
    BY Move DEF Goto, connVars, mgmtVars
  <1> QED
    BY <1>1, <1>2, <1>3 DEF IInv, TypeOK

-----------------------------------------------------------------------------
(* connect() *)

\* A reported failure ends the service and leaves the connection as it is.
LEMMA ConnectErrorStep ==
    ASSUME IInv, NEW c \in Starts, ConnectError(ConnectThread(c)),
           pc[ConnectThread(c)] \in Opening
    PROVE  IInv'
  <1> USE ThreadFacts, RoleFacts DEF IInv, TypeOK, ConnectError
  <1>1. ThreadTypes' /\ SocketTypes' /\ WireTypes' /\ ServiceTypes' /\ ManagementTypes'
            /\ DaemonTypes'
    BY ThreadStep, EndTypes, Keep DEF Places
  <1>2. LocalsSet'
    BY DEF ThreadTypes, LocalsSet, locals, mgmtVars
  <1>3. ReaderFirst' /\ ManagementAfterOpening' /\ WriterBeforeRun' /\ RunningHasThread'
    BY Move DEF Places, Opening, connVars, mgmtVars
  <1> QED
    BY <1>1, <1>2, <1>3

\* The steps of connect() that assign a field or a local: the socket is opened, put in its
\* field, and gets its reader and its writer, each through a stream in a local.  A thread
\* in the opening has no management thread yet.
LEMMA OpeningStep ==
    ASSUME IInv, NEW c \in Starts, NEW place \in Opening,
           pc[ConnectThread(c)] \in Opening,
           pc' = [pc EXCEPT ![ConnectThread(c)] = place],
           UNCHANGED <<line, last, shown, stream, serviceVars, mgmtVars, daemonVars, inbox>>
    PROVE  /\ WireTypes' /\ ServiceTypes' /\ ManagementTypes' /\ DaemonTypes'
           /\ ManagementAfterOpening' /\ RunningHasThread'
  <1> USE ThreadFacts, RoleFacts DEF IInv, TypeOK
  <1>1. WireTypes' /\ ServiceTypes' /\ ManagementTypes' /\ DaemonTypes'
    BY Keep
  <1>2. ManagementAfterOpening'
    BY DEF ThreadTypes, ManagementAfterOpening, Opening
  <1>3. RunningHasThread'
    BY DEF ThreadTypes, RunningHasThread, mgmtVars
  <1> QED
    BY <1>1, <1>2, <1>3

\* new Socket(host, port): the daemon takes the connection or it fails.
LEMMA OpenSocketStep ==
    ASSUME IInv, NEW c \in Starts, OpenSocket(c) PROVE IInv'
  <1> DEFINE t == ConnectThread(c)
  <1>1. CASE ConnectError(t)
    BY <1>1, ConnectErrorStep DEF OpenSocket, Opening
  <1>2. CASE /\ NewSocket(c)
             /\ pc' = [pc EXCEPT ![t] = "setSocket"]
             /\ UNCHANGED <<locals, stream, serviceVars, mgmtVars, daemonVars, inbox>>
    <2> USE <1>2, ThreadFacts, RoleFacts DEF IInv, TypeOK
    <2>1. pc[t] \in Opening /\ "setSocket" \in Opening
      BY DEF OpenSocket, Opening
    <2>2. /\ WireTypes' /\ ServiceTypes' /\ ManagementTypes' /\ DaemonTypes'
          /\ ManagementAfterOpening' /\ RunningHasThread'
      BY <2>1, OpeningStep DEF locals
    <2>3. ThreadTypes'
      BY ThreadStep DEF Places
    <2>4. SocketTypes'
      BY DEF SocketTypes, NewSocket
    <2>5. LocalsSet'
      BY DEF ThreadTypes, LocalsSet, locals, mgmtVars
    <2>6. ReaderFirst' /\ WriterBeforeRun'
      BY DEF ThreadTypes, ReaderFirst, WriterBeforeRun, NewSocket
    <2> QED
      BY <2>2, <2>3, <2>4, <2>5, <2>6
  <1> QED
    BY <1>1, <1>2 DEF OpenSocket

\* setSocket: the field gets the socket this thread opened, whatever it held.
LEMMA KeepSocketStep ==
    ASSUME IInv, NEW c \in Starts, KeepSocket(c) PROVE IInv'
  <1> DEFINE t == ConnectThread(c)
  <1> USE ThreadFacts, RoleFacts DEF IInv, TypeOK, KeepSocket, SetSocket
  <1>1. pc[t] \in Opening /\ "getInputStream" \in Opening
    BY DEF Opening
  <1>2. /\ WireTypes' /\ ServiceTypes' /\ ManagementTypes' /\ DaemonTypes'
        /\ ManagementAfterOpening' /\ RunningHasThread'
    BY <1>1, OpeningStep DEF locals
  <1>3. ThreadTypes'
    BY ThreadStep DEF Places
  <1>4. SocketTypes'
    BY DEF SocketTypes
  <1>5. LocalsSet'
    BY DEF ThreadTypes, LocalsSet, locals, mgmtVars
  <1>6. ReaderFirst' /\ WriterBeforeRun'
    BY DEF ThreadTypes, ReaderFirst, WriterBeforeRun
  <1> QED
    BY <1>2, <1>3, <1>4, <1>5, <1>6

\* getInputStream and getOutputStream read whatever socket the field holds by then, or fail;
\* either way the thread that asks for an output stream has a reader behind it.
LEMMA OpenStreamStep ==
    ASSUME IInv, NEW c \in Starts, NEW from \in Opening, NEW to \in {"newReader", "newWriter"},
           to = "newWriter" => from = "getOutputStream",
           OpenStream(c, from, to)
    PROVE  IInv'
  <1> DEFINE t == ConnectThread(c)
  <1>1. CASE ~isConnected /\ ConnectError(t)
    BY <1>1, ConnectErrorStep DEF OpenStream
  <1>2. CASE /\ GetStream(t)
             /\ pc' = [pc EXCEPT ![t] = to]
             /\ UNCHANGED <<line, last, shown, stream, serviceVars, mgmtVars, daemonVars,
                            inbox>>
    <2> USE <1>2, ThreadFacts, RoleFacts DEF IInv, TypeOK
    <2>1. pc[t] = from /\ pc[t] \in Opening /\ to \in Opening
      BY DEF OpenStream, Opening
    <2>2. /\ WireTypes' /\ ServiceTypes' /\ ManagementTypes' /\ DaemonTypes'
          /\ ManagementAfterOpening' /\ RunningHasThread'
      BY <2>1, OpeningStep
    <2>3. mSocket \in Starts /\ mSocket # NULL
      BY DEF GetStream, isConnected, SocketTypes
    <2>4. ThreadTypes' /\ SocketTypes'
      BY <2>3 DEF ThreadTypes, SocketTypes, Places, GetStream, connVars
    <2>5. LocalsSet'
      BY <2>3 DEF ThreadTypes, LocalsSet, GetStream, mgmtVars
    <2>6. ReaderFirst' /\ WriterBeforeRun'
      BY <2>1 DEF ThreadTypes, ReaderFirst, WriterBeforeRun, GetStream, connVars
    <2> QED
      BY <2>2, <2>4, <2>5, <2>6
  <1> QED
    BY <1>1, <1>2 DEF OpenStream

\* The reader is put in its field, on the socket its stream was taken from.
LEMMA OpenReaderStep ==
    ASSUME IInv, NEW c \in Starts, OpenReader(c) PROVE IInv'
  <1> DEFINE t == ConnectThread(c)
  <1> USE ThreadFacts, RoleFacts DEF IInv, TypeOK, OpenReader, NewReader
  <1>1. pc[t] \in Opening /\ "getOutputStream" \in Opening
    BY DEF Opening
  <1>2. /\ WireTypes' /\ ServiceTypes' /\ ManagementTypes' /\ DaemonTypes'
        /\ ManagementAfterOpening' /\ RunningHasThread'
    BY <1>1, OpeningStep
  <1>3. in[t] \in Starts /\ in[t] # NULL
    BY DEF ThreadTypes, LocalsSet
  <1>4. ThreadTypes' /\ SocketTypes'
    BY <1>3 DEF ThreadTypes, SocketTypes, Places
  <1>5. LocalsSet'
    BY DEF ThreadTypes, LocalsSet, mgmtVars
  <1>6. ReaderFirst' /\ WriterBeforeRun'
    BY <1>3 DEF ThreadTypes, ReaderFirst, WriterBeforeRun
  <1> QED
    BY <1>2, <1>4, <1>5, <1>6

\* The same for the writer, after the reader.
LEMMA OpenWriterStep ==
    ASSUME IInv, NEW c \in Starts, OpenWriter(c) PROVE IInv'
  <1> DEFINE t == ConnectThread(c)
  <1> USE ThreadFacts, RoleFacts DEF IInv, TypeOK, OpenWriter, NewWriter
  <1>1. pc[t] \in Opening /\ "setOptions" \in Opening
    BY DEF Opening
  <1>2. /\ WireTypes' /\ ServiceTypes' /\ ManagementTypes' /\ DaemonTypes'
        /\ ManagementAfterOpening' /\ RunningHasThread'
    BY <1>1, OpeningStep
  <1>3. in[t] \in Starts /\ in[t] # NULL
    BY DEF ThreadTypes, LocalsSet
  <1>4. ThreadTypes' /\ SocketTypes'
    BY <1>3 DEF ThreadTypes, SocketTypes, Places
  <1>5. LocalsSet'
    BY DEF ThreadTypes, LocalsSet, mgmtVars
  <1>6. ReaderFirst' /\ WriterBeforeRun'
    BY <1>3 DEF ThreadTypes, ReaderFirst, WriterBeforeRun
  <1> QED
    BY <1>2, <1>4, <1>5, <1>6

\* A command appended to an inbox.
LEMMA SendTypes ==
    ASSUME IInv, NEW command \in Commands, mBufferedWriter # NULL,
           Send(mBufferedWriter, command), UNCHANGED stream
    PROVE  WireTypes'
  BY DEF IInv, TypeOK, SocketTypes, WireTypes, Send

\* Every step of connect() and of the executeCommand in it preserves the invariant.
LEMMA ConnectIInv ==
    ASSUME IInv, NEW c \in Starts, Connect(c) PROVE IInv'
  <1> DEFINE t == ConnectThread(c)
  <1> USE ThreadFacts, RoleFacts DEF IInv, TypeOK
  <1>1. CASE ConnectIfNotConnected(c)
    BY <1>1, GotoStep DEF ConnectIfNotConnected, Places, Opening
  <1>2. CASE SuperConnect(c)
    <2>1. CASE isConnected
      BY <1>2, <2>1, ConnectErrorStep DEF SuperConnect, Opening
    <2>2. CASE ~isConnected
      BY <1>2, <2>2, GotoStep DEF SuperConnect, Places, Opening
    <2> QED
      BY <2>1, <2>2
  <1>3. CASE OpenSocket(c) \/ KeepSocket(c)
    BY <1>3, OpenSocketStep, KeepSocketStep
  <1>4. CASE OpenReader(c) \/ OpenWriter(c)
    BY <1>4, OpenReaderStep, OpenWriterStep
  <1>5. CASE \/ OpenStream(c, "getInputStream", "newReader")
             \/ OpenStream(c, "getOutputStream", "newWriter")
    BY <1>5, OpenStreamStep DEF Opening
  <1>6. CASE SetOptions(c)
    <2>1. CASE isConnected
      BY <1>6, <2>1, GotoStep DEF SetOptions, Places, Opening
    <2>2. CASE ~isConnected
      BY <1>6, <2>2, ConnectErrorStep DEF SetOptions, Opening
    <2> QED
      BY <2>1, <2>2
  <1>7. CASE OnConnected(c)
    <2> USE <1>7 DEF OnConnected
    <2>1. SocketTypes' /\ WireTypes' /\ ServiceTypes' /\ ManagementTypes' /\ DaemonTypes'
      BY Keep
    <2>2. ThreadTypes'
      BY DEF ThreadTypes, Places, locals
    <2>3. LocalsSet'
      BY DEF ThreadTypes, LocalsSet, locals, mgmtVars
    <2>4. ReaderFirst' /\ WriterBeforeRun'
      BY DEF ThreadTypes, ReaderFirst, WriterBeforeRun, connVars
    <2>5. ManagementAfterOpening'
      BY DEF ThreadTypes, ManagementAfterOpening, Opening
    <2>6. RunningHasThread'
      BY DEF ThreadTypes, RunningHasThread, ManagementAfterOpening, Opening, Running, mgmtVars
    <2> QED
      BY <2>1, <2>2, <2>3, <2>4, <2>5, <2>6
  <1>8. CASE ExecuteCommand(c)
    <2> USE <1>8 DEF ExecuteCommand
    <2>1. SocketTypes' /\ WireTypes' /\ ServiceTypes' /\ ManagementTypes' /\ DaemonTypes'
      BY Keep
    <2>2. CASE isConnected
      <3>1. ThreadTypes'
        BY <2>2 DEF ThreadTypes, SocketTypes, Places
      <3>2. LocalsSet'
        BY <2>2 DEF ThreadTypes, LocalsSet, mgmtVars
      <3>3. ReaderFirst' /\ ManagementAfterOpening' /\ WriterBeforeRun' /\ RunningHasThread'
        BY <2>2, Move DEF Places, Opening, connVars, mgmtVars
      <3> QED
        BY <2>1, <3>1, <3>2, <3>3
    <2>3. CASE ~isConnected
      BY <2>1, <2>3, FinishStep DEF Opening, connVars, mgmtVars
    <2> QED
      BY <2>2, <2>3
  <1>9. CASE WriteCommand(c)
    <2> USE <1>9 DEF WriteCommand
    <2>1. SocketTypes' /\ ServiceTypes' /\ ManagementTypes' /\ DaemonTypes'
      BY Keep
    <2>2. WireTypes'
      BY SendTypes, Keep DEF WriteOK, Commands
    <2>3. CASE Finish(t)
      BY <2>1, <2>2, <2>3, FinishStep DEF Opening, connVars, mgmtVars
    <2>4. CASE in[t] # NULL /\ pc' = [pc EXCEPT ![t] = "readLine"] /\ UNCHANGED locals
      <3>1. ThreadTypes'
        BY <2>4, ThreadStep DEF Places
      <3>2. LocalsSet'
        BY <2>4 DEF ThreadTypes, LocalsSet, locals, mgmtVars
      <3>3. ReaderFirst' /\ ManagementAfterOpening' /\ WriterBeforeRun' /\ RunningHasThread'
        BY <2>4, Move DEF Places, Opening, connVars, mgmtVars
      <3> QED
        BY <2>1, <2>2, <3>1, <3>2, <3>3
    <2> QED
      BY <2>3, <2>4
  <1>10. CASE CollectLine(c)
    <2> USE <1>10 DEF CollectLine
    <2>1. SocketTypes' /\ WireTypes' /\ ServiceTypes' /\ ManagementTypes' /\ DaemonTypes'
      BY Keep
    <2>2. CASE Finish(t)
      BY <2>1, <2>2, FinishStep DEF Opening, connVars, mgmtVars
    <2>3. CASE ~Finish(t)
      <3>1. PICK place \in {"parseReply", "readLine"} : pc' = [pc EXCEPT ![t] = place]
        BY <2>3
      <3>2. ThreadTypes'
        BY <2>3 DEF ThreadTypes, Places
      <3>3. LocalsSet'
        BY <2>3 DEF ThreadTypes, LocalsSet, mgmtVars
      <3>4. ReaderFirst' /\ ManagementAfterOpening' /\ WriterBeforeRun' /\ RunningHasThread'
        BY <3>1, Move DEF Places, Opening, connVars, mgmtVars
      <3> QED
        BY <2>1, <3>2, <3>3, <3>4
    <2> QED
      BY <2>2, <2>3
  <1>11. CASE ParseReply(c)
    <2> USE <1>11 DEF ParseReply
    <2>1. SocketTypes' /\ WireTypes' /\ ServiceTypes' /\ ManagementTypes' /\ DaemonTypes'
      BY Keep
    <2>2. CASE Finish(t)
      BY <2>1, <2>2, FinishStep DEF Opening, connVars, mgmtVars
    <2>3. CASE ~Finish(t)
      <3>1. ThreadTypes'
        BY <2>3 DEF ThreadTypes, Places
      <3>2. LocalsSet'
        BY <2>3 DEF ThreadTypes, LocalsSet, mgmtVars
      <3>3. ReaderFirst' /\ ManagementAfterOpening' /\ WriterBeforeRun' /\ RunningHasThread'
        BY <2>3, Move DEF Places, Opening, connVars, mgmtVars
      <3> QED
        BY <2>1, <3>1, <3>2, <3>3
    <2> QED
      BY <2>2, <2>3
  <1> QED
    BY <1>1, <1>2, <1>3, <1>4, <1>5, <1>6, <1>7, <1>8, <1>9, <1>10, <1>11 DEF Connect

-----------------------------------------------------------------------------
(* processState, readLine and close(), on any thread *)

\* The end of the handling of a line: the connect thread ends, the management thread reads on.
LEMMA NextLineStep ==
    ASSUME IInv, NEW t \in Threads, NextLine(t),
           t \in ConnectThreads \/ t \in ManagementThreads,
           pc[t] \notin Opening \cup {"idle"},
           t \in ManagementThreads => in[t] # NULL,
           UNCHANGED <<mSocket, mBufferedReader, mBufferedWriter, sock, mState, isRunning>>
    PROVE  /\ ThreadTypes' /\ LocalsSet'
           /\ ReaderFirst' /\ ManagementAfterOpening' /\ WriterBeforeRun' /\ RunningHasThread'
  <1>1. CASE t \in ConnectThreads
    BY <1>1, FinishStep, RoleFacts DEF NextLine, ConnectThreads
  <1>2. CASE t \notin ConnectThreads
    <2>1. ThreadTypes'
      BY ThreadStep DEF IInv, TypeOK
    <2>2. LocalsSet'
      BY <1>2 DEF IInv, TypeOK, ThreadTypes, LocalsSet, NextLine
    <2>3. ReaderFirst' /\ ManagementAfterOpening' /\ WriterBeforeRun' /\ RunningHasThread'
      BY <1>2, Move DEF NextLine, Places, Opening, Running
    <2> QED
      BY <2>1, <2>2, <2>3
  <1> QED
    BY <1>1, <1>2

\* Every step of processState.
LEMMA AnnounceIInv ==
    ASSUME IInv, NEW t \in Threads, t \in ConnectThreads \/ t \in ManagementThreads,
           Announce(t)
    PROVE  IInv'
  <1> USE DEF IInv, TypeOK
  <1>1. CASE ProcessState(t)
    <2> USE <1>1 DEF ProcessState
    <2>1. SocketTypes' /\ WireTypes' /\ ServiceTypes' /\ DaemonTypes'
      BY Keep
    <2>2. line[t].state \in States
      BY LineState DEF LocalsSet, ThreadTypes
    <2>3. ManagementTypes'
      BY <2>2 DEF ManagementTypes
    <2>4. CASE NextLine(t) /\ UNCHANGED mState
      BY <2>1, <2>3, <2>4, NextLineStep DEF LocalsSet, Opening, connVars
    <2>5. CASE mState' = line[t].state /\ pc' = [pc EXCEPT ![t] = "notifyListeners"]
               /\ UNCHANGED locals
      <3>1. ThreadTypes'
        BY <2>5, ThreadStep DEF Places
      <3>2. LocalsSet'
        BY <2>2, <2>5 DEF ThreadTypes, LocalsSet, locals
      <3>3. ReaderFirst' /\ ManagementAfterOpening' /\ WriterBeforeRun' /\ RunningHasThread'
        BY <2>5, RunningMove DEF Running, connVars
      <3> QED
        BY <2>1, <2>3, <3>1, <3>2, <3>3
    <2> QED
      BY <2>4, <2>5
  <1>2. CASE NotifyListeners(t)
    <2> USE <1>2 DEF NotifyListeners
    <2>1. SocketTypes' /\ WireTypes' /\ ServiceTypes' /\ ManagementTypes' /\ DaemonTypes'
      BY Keep
    <2>2. ThreadTypes'
      BY DEF ThreadTypes, ManagementTypes, Places
    <2>3. LocalsSet'
      BY DEF ThreadTypes, LocalsSet, mgmtVars
    <2>4. PICK place \in {"onStateChanged", "setLevel"} : pc' = [pc EXCEPT ![t] = place]
      OBVIOUS
    <2>5. ReaderFirst' /\ ManagementAfterOpening' /\ WriterBeforeRun' /\ RunningHasThread'
      BY <2>4, RunningMove DEF Running, connVars, mgmtVars
    <2> QED
      BY <2>1, <2>2, <2>3, <2>5
  <1>3. CASE OnStateChanged(t)
    <2> USE <1>3 DEF OnStateChanged
    <2>1. SocketTypes' /\ WireTypes' /\ ManagementTypes' /\ DaemonTypes'
      BY Keep
    <2>2. ServiceTypes'
      BY LevelType DEF LocalsSet, onStateChanged, ServiceTypes, NotificationLevels
    <2>3. ThreadTypes'
      BY ThreadStep DEF Places
    <2>4. LocalsSet'
      BY DEF ThreadTypes, LocalsSet, locals, mgmtVars
    <2>5. ReaderFirst' /\ ManagementAfterOpening' /\ WriterBeforeRun' /\ RunningHasThread'
      BY RunningMove DEF Running, connVars, mgmtVars
    <2> QED
      BY <2>1, <2>2, <2>3, <2>4, <2>5
  <1>4. CASE SetLevel(t)
    <2> USE <1>4 DEF SetLevel
    <2>1. SocketTypes' /\ WireTypes' /\ ServiceTypes' /\ DaemonTypes'
      BY Keep
    <2>2. line[t].state \in States
      BY LineState DEF LocalsSet, ThreadTypes
    <2>3. ManagementTypes'
      BY <2>2, LevelType DEF ManagementTypes
    <2> QED
      BY <2>1, <2>3, NextLineStep DEF LocalsSet, Opening, connVars
  <1> QED
    BY <1>1, <1>2, <1>3, <1>4 DEF Announce

\* Every step of readLine.
LEMMA ReadIInv ==
    ASSUME IInv, NEW t \in Threads, t \in ConnectThreads \/ t \in ManagementThreads, Read(t)
    PROVE  IInv'
  <1> USE DEF IInv, TypeOK, Read
  <1>1. ServiceTypes' /\ ManagementTypes' /\ DaemonTypes'
    BY Keep
  <1>2. in[t] \in Starts /\ pc[t] \in {"readLine", "reading"}
    BY DEF LocalsSet, ThreadTypes, ReadLock, ReadReturns, ReadEOF, ReadThrows
  <1>3. PICK place \in {"reading", "gotLine", "parseReply", "failed", "close"} :
           /\ pc' = [pc EXCEPT ![t] = place]
           /\ t \in ManagementThreads => place \in {"reading", "gotLine", "close"}
    BY RoleFacts DEF ReadLock, ReadReturns, ReadEOF, ReadThrows, ManagementThreads
  <1>4. UNCHANGED <<mSocket, mBufferedReader, mBufferedWriter, sock, readerClosed,
                    writerClosed, in, last, shown, isRunning, mState>>
    BY DEF ReadLock, ReadReturns, ReadEOF, ReadThrows, mgmtVars
  <1>5. lock' \in [Starts -> Threads \cup {NULL}]
    BY <1>2 DEF SocketTypes, ReadLock, ReadReturns, ReadEOF, ReadThrows
  <1>6. SocketTypes'
    BY <1>4, <1>5 DEF SocketTypes
  <1>7. /\ stream' \in [Starts -> Seq(Lines)]
        /\ line' \in [Threads -> Lines \cup {NoLine}]
        /\ \A u \in Threads \ {t} : line'[u] = line[u]
    <2>1. CASE ReadReturns(t)
      <3>1. stream[in[t]] \in Seq(Lines) /\ stream[in[t]] # <<>>
        BY <1>2, <2>1 DEF WireTypes, ReadReturns, LineAvailable
      <3>2. Head(stream[in[t]]) \in Lines /\ Tail(stream[in[t]]) \in Seq(Lines)
        BY <3>1
      <3> QED
        BY <2>1, <1>2, <3>2 DEF WireTypes, ThreadTypes, ReadReturns
    <2>2. CASE UNCHANGED <<stream, line>>
      BY <2>2 DEF WireTypes, ThreadTypes
    <2> QED
      BY <2>1, <2>2 DEF ReadLock, ReadEOF, ReadThrows
  <1>8. WireTypes'
    BY <1>7 DEF WireTypes
  <1>9. ThreadTypes'
    BY <1>3, <1>4, <1>7 DEF ThreadTypes, Places
  <1>10. LocalsSet'
    BY <1>2, <1>3, <1>4, <1>7 DEF ThreadTypes, LocalsSet
  <1>11. /\ place \in Places /\ place \notin Opening \cup {"idle"} /\ pc[t] # "idle"
         /\ place \notin {"getOutputStream", "newWriter", "setOptions", "onConnected"}
         /\ t \in ManagementThreads => place \in Running
    BY <1>2, <1>3 DEF Places, Opening, Running
  <1>12. ReaderFirst' /\ ManagementAfterOpening' /\ WriterBeforeRun' /\ RunningHasThread'
    BY <1>3, <1>4, <1>11, Move
  <1> QED
    BY <1>1, <1>6, <1>8, <1>9, <1>10, <1>12

\* Every step of disconnect().
LEMMA DisconnectIInv ==
    ASSUME IInv, NEW t \in Threads, t \in ManagementThreads \/ t \in StopThreads,
           Disconnect(t)
    PROVE  IInv'
  <1> USE DEF IInv, TypeOK
  <1>1. CASE Close(t) /\ UNCHANGED <<last, shown, serviceVars, mgmtVars, daemonVars, inbox>>
    <2> USE <1>1 DEF Close
    <2>1. ServiceTypes' /\ ManagementTypes' /\ DaemonTypes'
      BY Keep
    <2>2. PICK place \in {"closeReader", "closeWriter", "closeSocket", "onDisconnected"} :
             pc' = [pc EXCEPT ![t] = place]
      BY DEF CloseBegin, CloseReader, CloseWriter, CloseSocket
    <2>3. pc[t] \in {"close", "closeReader", "closeWriter", "closeSocket"}
      BY DEF CloseBegin, CloseReader, CloseWriter, CloseSocket
    <2>4. SocketTypes'
      BY DEF SocketTypes, ThreadTypes, LocalsSet, connVars, CloseBegin, CloseReader,
             CloseWriter, CloseSocket
    <2>5. WireTypes'
      <3>1. <<>> \in Seq(Lines)
        OBVIOUS
      <3> QED
        BY <3>1 DEF WireTypes, CloseBegin, CloseReader, CloseWriter, CloseSocket
    <2>6. ThreadTypes'
      BY <2>2 DEF ThreadTypes, SocketTypes, Places, CloseBegin, CloseReader, CloseWriter,
                  CloseSocket
    <2>7. LocalsSet'
      BY DEF ThreadTypes, LocalsSet, mgmtVars, CloseBegin, CloseReader, CloseWriter,
             CloseSocket
    <2>8. UNCHANGED <<mSocket, mBufferedReader, mBufferedWriter>>
      BY DEF connVars, CloseBegin, CloseReader, CloseWriter, CloseSocket
    <2>9. /\ place \in Places /\ place \notin Opening \cup {"idle"} /\ pc[t] # "idle"
          /\ place \notin {"getOutputStream", "newWriter", "setOptions", "onConnected"}
          /\ place \in Running
          /\ UNCHANGED isRunning
      BY <2>3 DEF Places, Opening, Running, mgmtVars
    <2>10. ReaderFirst' /\ ManagementAfterOpening' /\ WriterBeforeRun' /\ RunningHasThread'
      BY <2>2, <2>8, <2>9, Move
    <2> QED
      BY <2>1, <2>4, <2>5, <2>6, <2>7, <2>10
  <1>2. CASE /\ pc[t] = "onDisconnected"
             /\ EndIfListening
             /\ IF t \in ManagementThreads
                THEN pc' = [pc EXCEPT ![t] = "end"] /\ UNCHANGED locals
                ELSE Finish(t)
             /\ UNCHANGED <<connVars, stream, mgmtVars, daemonVars, inbox>>
    <2> USE <1>2
    <2>1. SocketTypes' /\ WireTypes' /\ ServiceTypes' /\ ManagementTypes' /\ DaemonTypes'
      BY Keep, EndTypes
    <2>2. CASE Finish(t) /\ t \notin ManagementThreads
      BY <2>1, <2>2, FinishStep DEF Opening, connVars, mgmtVars
    <2>3. CASE pc' = [pc EXCEPT ![t] = "end"] /\ UNCHANGED locals
      <3>1. ThreadTypes'
        BY <2>3, ThreadStep DEF Places
      <3>2. LocalsSet'
        BY <2>3 DEF ThreadTypes, LocalsSet, locals, mgmtVars
      <3>3. ReaderFirst' /\ ManagementAfterOpening' /\ WriterBeforeRun' /\ RunningHasThread'
        BY <2>3, RunningMove DEF Running, connVars, mgmtVars
      <3> QED
        BY <2>1, <3>1, <3>2, <3>3
    <2> QED
      BY <2>2, <2>3
  <1> QED
    BY <1>1, <1>2 DEF Disconnect

-----------------------------------------------------------------------------
(* run() and stopOpenVPN() *)

\* What run() does with a line.
LEMMA ParseInputIInv ==
    ASSUME IInv, NEW c \in Starts, ParseInput(c) PROVE IInv'
  <1> DEFINE t == ManagementThread(c)
  <1> USE ThreadFacts, RoleFacts DEF IInv, TypeOK
  <1>1. t \in Threads /\ pc[t] = "gotLine" /\ in[t] # NULL
    BY DEF ParseInput, LocalsSet
  <1>2. pc[t] \notin Opening \cup {"idle"}
    BY <1>1 DEF Opening
  <1>3. ASSUME NextLine(t), UNCHANGED connVars, UNCHANGED mgmtVars
        PROVE  /\ ThreadTypes' /\ LocalsSet'
               /\ ReaderFirst' /\ ManagementAfterOpening' /\ WriterBeforeRun' /\ RunningHasThread'
    BY <1>1, <1>2, <1>3, NextLineStep DEF connVars, mgmtVars
  <1>4. ASSUME Goto(t, "close") PROVE IInv'
    BY <1>1, <1>2, <1>4, GotoStep DEF Places, Opening, Running
  <1>5. ASSUME Skip(t) PROVE IInv'
    BY <1>3, <1>5, Keep DEF Skip
  <1>6. CASE line[t].kind = "state" /\ Goto(t, "processState")
    BY <1>1, <1>2, <1>6, GotoStep DEF Places, Opening, Running
  <1>7. CASE ProcessByteCount(t)
    <2>1. ServiceTypes'
      BY <1>7 DEF ProcessByteCount, onByteCountChanged, ServiceTypes, NotificationLevels,
                  ConnectionStatus
    <2> QED
      BY <1>3, <1>7, <2>1, Keep DEF ProcessByteCount
  <1>8. CASE ProcessHold(t)
    BY <1>4, <1>5, <1>8 DEF ProcessHold
  <1>9. CASE ProcessPassword(t)
    <2>1. CASE Goto(t, "close")
      BY <1>4, <2>1
    <2>2. CASE /\ WriteOK(mBufferedWriter)
               /\ Send(mBufferedWriter, "auth")
               /\ NextLine(t)
               /\ UNCHANGED <<connVars, stream, serviceVars, mgmtVars, daemonVars>>
      <3>1. WireTypes'
        BY <2>2, SendTypes DEF WriteOK, Commands
      <3> QED
        BY <1>3, <2>2, <3>1, Keep
    <2> QED
      BY <1>9, <2>1, <2>2 DEF ProcessPassword
  <1>10. CASE ProcessDeath
    BY <1>10, DeathIInv
  <1> QED
    BY <1>5, <1>6, <1>7, <1>8, <1>9, <1>10 DEF ParseInput

\* Every step of run() that is its own.
LEMMA RunIInv ==
    ASSUME IInv, NEW c \in Starts, Run(c) PROVE IInv'
  <1> DEFINE t == ManagementThread(c)
  <1> USE ThreadFacts, RoleFacts DEF IInv, TypeOK
  <1>1. CASE RunBegin(c)
    <2>1. CASE ProcessDeath
      BY <2>1, DeathIInv
    <2>2. CASE ~ProcessDeath
      <3> USE <1>1, <2>2 DEF RunBegin
      <3>1. SocketTypes' /\ WireTypes' /\ ServiceTypes' /\ DaemonTypes'
        BY Keep
      <3>2. ManagementTypes'
        BY DEF ManagementTypes
      <3>3. ThreadTypes'
        BY ThreadStep DEF Places
      <3>4. LocalsSet'
        BY DEF ThreadTypes, LocalsSet, locals
      <3>5. ReaderFirst' /\ ManagementAfterOpening' /\ WriterBeforeRun'
        BY Move DEF Places, Opening, connVars
      <3>6. RunningHasThread'
        BY DEF ThreadTypes, RunningHasThread, Running
      <3> QED
        BY <3>1, <3>2, <3>3, <3>4, <3>5, <3>6
    <2> QED
      BY <2>1, <2>2
  <1>2. CASE RunSetup(c)
    <2>1. CASE Goto(t, "close")
      BY <1>2, <2>1, GotoStep DEF RunSetup, Places, Opening, Running
    <2>2. CASE ~Goto(t, "close")
      <3> USE <1>2, <2>2 DEF RunSetup
      <3>1. SocketTypes' /\ ServiceTypes' /\ ManagementTypes' /\ DaemonTypes'
        BY Keep
      <3>2. WireTypes'
        BY SendTypes DEF WriteOK, Commands
      <3>3. ThreadTypes'
        BY DEF ThreadTypes, SocketTypes, Places
      <3>4. mBufferedReader # NULL
        BY DEF WriteOK, ReaderFirst
      <3>5. LocalsSet'
        BY <3>4 DEF ThreadTypes, LocalsSet, mgmtVars
      <3>6. ReaderFirst' /\ ManagementAfterOpening' /\ WriterBeforeRun' /\ RunningHasThread'
        BY Move DEF Places, Opening, Running, connVars, mgmtVars
      <3> QED
        BY <3>1, <3>2, <3>3, <3>5, <3>6
    <2> QED
      BY <2>1, <2>2
  <1>3. CASE ParseInput(c)
    BY <1>3, ParseInputIInv
  <1>4. CASE RunEnd(c)
    <2> USE <1>4 DEF RunEnd
    <2>1. SocketTypes' /\ WireTypes' /\ ServiceTypes' /\ DaemonTypes'
      BY Keep
    <2>2. ManagementTypes'
      BY DEF ManagementTypes
    <2>3. ThreadTypes'
      BY ThreadStep
    <2>4. LocalsSet'
      BY DEF ThreadTypes, LocalsSet, Finish
    <2>5. ReaderFirst' /\ ManagementAfterOpening' /\ WriterBeforeRun'
      BY Move DEF Finish, Places, Opening, connVars
    <2>6. RunningHasThread'
      BY DEF RunningHasThread
    <2> QED
      BY <2>1, <2>2, <2>3, <2>4, <2>5, <2>6
  <1> QED
    BY <1>1, <1>2, <1>3, <1>4 DEF Run

\* Every step of stopVPN and stopOpenVPN.
LEMMA StopIInv ==
    ASSUME IInv, NEW s \in Stops, Stop(s) PROVE IInv'
  <1> DEFINE t == StopThread(s)
  <1> USE ThreadFacts, RoleFacts DEF IInv, TypeOK
  <1>1. CASE StopBegin(s)
    BY <1>1, GotoStep DEF StopBegin, Places, Opening
  <1>2. CASE StopCommand(s)
    <2>1. CASE Goto(t, "done")
      BY <1>2, <2>1, GotoStep DEF StopCommand, Places, Opening
    <2>2. CASE ProcessDeath
      BY <2>2, DeathIInv
    <2>3. CASE ~Goto(t, "done") /\ ~ProcessDeath
      <3> USE <1>2, <2>3 DEF StopCommand
      <3>1. SocketTypes' /\ ServiceTypes' /\ ManagementTypes' /\ DaemonTypes'
        BY Keep
      <3>2. WireTypes'
        BY SendTypes DEF WriteOK, Commands
      <3>3. ThreadTypes'
        BY ThreadStep DEF Places
      <3>4. LocalsSet'
        BY DEF ThreadTypes, LocalsSet, locals, mgmtVars
      <3>5. ReaderFirst' /\ ManagementAfterOpening' /\ WriterBeforeRun' /\ RunningHasThread'
        BY Move DEF Places, Opening, connVars, mgmtVars
      <3> QED
        BY <3>1, <3>2, <3>3, <3>4, <3>5
    <2> QED
      BY <2>1, <2>2, <2>3
  <1>3. CASE StopCheck(s)
    BY <1>3, GotoStep DEF StopCheck, Places, Opening
  <1> QED
    BY <1>1, <1>2, <1>3 DEF Stop

-----------------------------------------------------------------------------
(* The main thread, the user and the daemon *)

\* The lifecycle handlers move at most the thread they start.
LEMMA MainIInv ==
    ASSUME IInv, MainThread \/ User PROVE IInv'
  <1> USE ThreadFacts, RoleFacts DEF IInv, TypeOK, MainThread, User
  <1>1. SocketTypes' /\ WireTypes' /\ ManagementTypes' /\ DaemonTypes'
    BY Keep
  <1>2. UNCHANGED <<locals, mSocket, mBufferedReader, mBufferedWriter, sock, mState, isRunning>>
    BY DEF connVars, mgmtVars
  <1>3. ASSUME UNCHANGED pc
        PROVE  /\ ThreadTypes' /\ LocalsSet'
               /\ ReaderFirst' /\ ManagementAfterOpening' /\ WriterBeforeRun' /\ RunningHasThread'
    BY <1>2, <1>3, Still
  <1>4. CASE onCreate \/ onDestroy \/ startOpenVPNService \/ onResume \/ onPause
    <2>1. ServiceTypes'
      <3>1. CASE onDestroy
        <4> DEFINE interrupted ==
              {u \in Threads : pc[u] = "onStateChanged" /\ orphan \cap ({u} \X BOOLEAN) = {}}
        <4>1. interrupted \subseteq Threads
          OBVIOUS
        <4>2. \A u \in interrupted :
                 <<u, mNotificationAlwaysVisible>> \in Threads \X BOOLEAN
          BY <4>1 DEF ServiceTypes
        <4>3. orphan' = orphan \cup {<<u, mNotificationAlwaysVisible>> : u \in interrupted}
          BY <3>1 DEF onDestroy
        <4>4. orphan' \subseteq Threads \X BOOLEAN
          <5> HIDE DEF interrupted
          <5> QED
            BY <4>2, <4>3 DEF ServiceTypes
        <4> HIDE DEF interrupted
        <4> QED
          BY <3>1, <4>4 DEF onDestroy, ServiceTypes, NotificationLevels
      <3>2. CASE ~onDestroy
        BY <1>4, <3>2 DEF ServiceTypes, NotificationLevels, onCreate, startOpenVPNService,
                          onResume, onPause
      <3> QED
        BY <3>1, <3>2
    <2>2. UNCHANGED pc
      BY <1>4 DEF onCreate, onDestroy, startOpenVPNService, onResume, onPause
    <2> QED
      BY <1>1, <1>3, <2>1, <2>2
  <1>5. CASE \E c \in Starts : onStartCommand(c)
    <2>1. PICK c \in Starts : onStartCommand(c)
      BY <1>5
    <2> USE <2>1 DEF onStartCommand
    <2>2. ServiceTypes'
      BY DEF ServiceTypes, NotificationLevels, ConnectionStatus
    <2>3. ThreadTypes'
      BY ThreadStep DEF Places
    <2>4. LocalsSet'
      BY <1>2 DEF ThreadTypes, LocalsSet, locals
    <2>5. ReaderFirst' /\ ManagementAfterOpening' /\ WriterBeforeRun' /\ RunningHasThread'
      BY <1>2, Move DEF Places, Opening
    <2> QED
      BY <1>1, <2>2, <2>3, <2>4, <2>5
  <1>6. CASE \E s \in Stops : onClick(s)
    <2>1. PICK s \in Stops : onClick(s)
      BY <1>6
    <2> USE <2>1 DEF onClick
    <2>2. ServiceTypes'
      BY DEF ServiceTypes
    <2>3. ThreadTypes'
      BY ThreadStep DEF Places
    <2>4. LocalsSet'
      BY <1>2 DEF ThreadTypes, LocalsSet, locals
    <2>5. ReaderFirst' /\ ManagementAfterOpening' /\ WriterBeforeRun' /\ RunningHasThread'
      BY <1>2, Move DEF Places, Opening
    <2> QED
      BY <1>1, <2>2, <2>3, <2>4, <2>5
  <1> QED
    BY <1>4, <1>5, <1>6

\* What the daemon sends are lines.
LEMMA EmitTypes ==
    ASSUME WireTypes, NEW newLines \in Seq(Lines), client \in Starts, Emit(newLines)
    PROVE  stream' \in [Starts -> Seq(Lines)]
  <1>1. stream[client] \o newLines \in Seq(Lines)
    BY DEF WireTypes
  <1> QED
    BY <1>1 DEF WireTypes, Emit

\* The daemon moves no thread and assigns no field.
LEMMA DaemonIInv ==
    ASSUME IInv, Daemon PROVE IInv'
  <1> USE DEF IInv, TypeOK
  <1>1. ASSUME UNCHANGED <<pc, locals, serviceVars, mgmtVars, mSocket, mBufferedReader,
                           mBufferedWriter, readerClosed, writerClosed, lock>>,
               sock' \in [Starts -> {"none", "open", "eof", "closed"}],
               WireTypes', DaemonTypes'
        PROVE  IInv'
    <2>1. SocketTypes' /\ ServiceTypes' /\ ManagementTypes'
      BY <1>1, Keep DEF SocketTypes
    <2>2. /\ ThreadTypes' /\ LocalsSet'
          /\ ReaderFirst' /\ ManagementAfterOpening' /\ WriterBeforeRun' /\ RunningHasThread'
      BY <1>1, Still DEF mgmtVars
    <2> QED
      BY <1>1, <2>1, <2>2
  <1>2. ASSUME UNCHANGED <<pc, locals, serviceVars, mgmtVars, connVars>>,
               WireTypes', DaemonTypes'
        PROVE  IInv'
    BY <1>1, <1>2 DEF SocketTypes, connVars
  <1>3. ASSUME HangUp
        PROVE  /\ sock' \in [Starts -> {"none", "open", "eof", "closed"}]
               /\ inbox' \in [Starts -> Seq(Commands)]
    <2>1. <<>> \in Seq(Commands)
      OBVIOUS
    <2> QED
      BY <1>3, <2>1 DEF HangUp, SocketTypes
  <1>4. DaemonExiting \in States /\ DaemonStart \in States
    BY DEF DaemonExiting, DaemonStart, States, StateNames, mNoReply, mNotConnected
  <1>5. CASE \E c \in Starts : DaemonAccept(c)
    <2>1. WireTypes' /\ DaemonTypes'
      BY <1>5, Keep DEF DaemonAccept, DaemonTypes
    <2> QED
      BY <1>2, <1>5, <2>1 DEF DaemonAccept
  <1>6. CASE DaemonDropsClient
    <2>1. <<>> \in Seq(Commands)
      OBVIOUS
    <2>2. WireTypes' /\ DaemonTypes'
      BY <1>6, <2>1 DEF DaemonDropsClient, WireTypes, DaemonTypes
    <2> QED
      BY <1>2, <1>6, <2>2 DEF DaemonDropsClient
  <1>7. CASE DaemonCommand
    <2> DEFINE command == Head(inbox[client])
    <2>1. client \in Starts /\ inbox[client] \in Seq(Commands) /\ inbox[client] # <<>>
      BY <1>7 DEF DaemonCommand, DaemonTypes, WireTypes
    <2>2. ASSUME Handled PROVE inbox' \in [Starts -> Seq(Commands)]
      <3>1. Tail(inbox[client]) \in Seq(Commands)
        BY <2>1
      <3> QED
        BY <2>1, <2>2, <3>1 DEF Handled, WireTypes
    <2>3. /\ <<[kind |-> "reply", state |-> dstate], Plain("end")>> \in Seq(Lines)
          /\ <<Plain("success")>> \in Seq(Lines)
          /\ <<StateLine(DaemonExiting)>> \in Seq(Lines)
          /\ <<>> \in Seq(Lines)
      BY <1>4, LineTypes DEF DaemonTypes, PlainKinds
    <2>4. CASE command = "state"
      <3>1. WireTypes'
        BY <1>7, <2>1, <2>2, <2>3, <2>4, EmitTypes DEF DaemonCommand, WireTypes
      <3>2. DaemonTypes' /\ UNCHANGED <<pc, locals, serviceVars, mgmtVars, connVars>>
        BY <1>7, <2>4, Keep DEF DaemonCommand
      <3> QED
        BY <1>2, <3>1, <3>2
    <2>5. CASE command = "setup"
      <3>1. WireTypes'
        BY <1>7, <2>1, <2>2, <2>3, <2>5, EmitTypes DEF DaemonCommand, WireTypes
      <3>2. DaemonTypes' /\ UNCHANGED <<pc, locals, serviceVars, mgmtVars, connVars>>
        BY <1>7, <2>5 DEF DaemonCommand, DaemonTypes
      <3> QED
        BY <1>2, <3>1, <3>2
    <2>6. CASE command = "auth"
      <3>1. WireTypes'
        BY <1>7, <2>1, <2>2, <2>3, <2>6, EmitTypes DEF DaemonCommand, WireTypes
      <3>2. DaemonTypes' /\ UNCHANGED <<pc, locals, serviceVars, mgmtVars, connVars>>
        BY <1>7, <2>6, Keep DEF DaemonCommand
      <3> QED
        BY <1>2, <3>1, <3>2
    <2>7. CASE command = "sigterm"
      <3>1. HangUp /\ dstate' = DaemonExiting /\ UNCHANGED events
            /\ UNCHANGED <<pc, locals, serviceVars, mgmtVars>>
        BY <1>7, <2>7 DEF DaemonCommand
      <3>2. stream' \in [Starts -> Seq(Lines)]
        BY <1>7, <2>1, <2>3, <2>7, EmitTypes DEF DaemonCommand
      <3>3. WireTypes'
        BY <1>3, <3>1, <3>2 DEF WireTypes
      <3>4. DaemonTypes'
        BY <1>4, <3>1 DEF HangUp, DaemonTypes
      <3> QED
        BY <1>1, <1>3, <3>1, <3>3, <3>4 DEF HangUp
    <2> QED
      BY <1>7, <2>4, <2>5, <2>6, <2>7 DEF DaemonCommand
  <1>8. CASE \E state \in Reported : DaemonState(state)
    <2>1. PICK state \in Reported : DaemonState(state)
      BY <1>8
    <2>2. state \in States /\ <<StateLine(state)>> \in Seq(Lines)
      BY DaemonAssumption, LineTypes
    <2>3. stream' \in [Starts -> Seq(Lines)]
      BY <2>1, <2>2, EmitTypes DEF DaemonState, Serving, DaemonTypes, WireTypes
    <2>4. WireTypes' /\ DaemonTypes'
      BY <2>1, <2>2, <2>3 DEF DaemonState, WireTypes, DaemonTypes
    <2> QED
      BY <1>2, <2>1, <2>4 DEF DaemonState
  <1>9. CASE \E kind \in Requests : DaemonLine(kind)
    <2>1. PICK kind \in Requests : DaemonLine(kind)
      BY <1>9
    <2>2. <<Plain(kind)>> \in Seq(Lines)
      BY DaemonAssumption, LineTypes DEF PlainKinds
    <2>3. stream' \in [Starts -> Seq(Lines)]
      BY <2>1, <2>2, EmitTypes DEF DaemonLine, Serving, DaemonTypes
    <2>4. WireTypes' /\ DaemonTypes'
      BY <2>1, <2>3 DEF DaemonLine, WireTypes, DaemonTypes
    <2> QED
      BY <1>2, <2>1, <2>4 DEF DaemonLine
  <1>10. CASE DaemonDies
    <2>1. WireTypes'
      BY <1>3, <1>10 DEF DaemonDies, WireTypes
    <2>2. DaemonTypes'
      BY <1>4, <1>10 DEF DaemonDies, HangUp, DaemonTypes
    <2> QED
      BY <1>1, <1>3, <1>10, <2>1, <2>2 DEF DaemonDies, HangUp
  <1>11. CASE DaemonRestarts
    <2>1. WireTypes' /\ DaemonTypes'
      BY <1>4, <1>11, Keep DEF DaemonRestarts, DaemonTypes
    <2> QED
      BY <1>2, <1>11, <2>1 DEF DaemonRestarts
  <1> QED
    BY <1>5, <1>6, <1>7, <1>8, <1>9, <1>10, <1>11 DEF Daemon

-----------------------------------------------------------------------------
(* The theorems *)

\* The invariant is inductive: every step of the app, of the user and of the daemon
\* preserves it.
LEMMA NextIInv == IInv /\ [Next]_vars => IInv'
  <1> SUFFICES ASSUME IInv, [Next]_vars PROVE IInv'
    OBVIOUS
  <1> USE ThreadFacts, RoleFacts
  <1>1. ASSUME NEW c \in Starts, ConnectStep(c) PROVE IInv'
    <2>1. CASE ConnectFailed(c)
      <3>1. SocketTypes' /\ WireTypes' /\ ServiceTypes' /\ ManagementTypes' /\ DaemonTypes'
        BY <2>1, Keep DEF ConnectFailed, IInv, TypeOK
      <3> QED
        BY <2>1, <3>1, FinishStep DEF ConnectFailed, Opening, connVars, mgmtVars, IInv, TypeOK
    <2> QED
      BY <1>1, <2>1, ConnectIInv, AnnounceIInv, ReadIInv DEF ConnectStep
  <1>2. ASSUME NEW c \in Starts, ManagementStep(c) PROVE IInv'
    BY <1>2, RunIInv, AnnounceIInv, ReadIInv, DisconnectIInv DEF ManagementStep
  <1>3. ASSUME NEW s \in Stops, StopStep(s) PROVE IInv'
    BY <1>3, StopIInv, DisconnectIInv DEF StopStep, StopThreads
  <1>4. CASE UNCHANGED vars
    BY <1>4, Keep, Still DEF vars, connVars, mgmtVars, IInv, TypeOK
  <1> QED
    BY <1>1, <1>2, <1>3, <1>4, MainIInv, DaemonIInv DEF Next

\* The inductive invariant holds in every reachable state.
LEMMA Invariance == Spec => []IInv
  BY InitIInv, NextIInv, PTL DEF Spec

\* Every variable keeps its type, whatever the threads, the user and the daemon do.
THEOREM TypeCorrect == Spec => []TypeOK
  <1>1. IInv => TypeOK
    BY DEF IInv
  <1> QED
    BY <1>1, Invariance, PTL

\* stopOpenVPN leaves closing to the management thread only while there is one: isRunning
\* never outlives the last running run(), for any number of overlapping starts and stops.
THEOREM RunningIsBacked == Spec => []RunningHasThread
  <1>1. IInv => RunningHasThread
    BY DEF IInv
  <1> QED
    BY <1>1, Invariance, PTL

\* Overlapping connects may leave the reader of one socket beside the writer of another,
\* but run() and the commands it sends never meet a null one: both fields are set before a
\* management thread starts, and nobody resets them.
THEOREM RunsWithStreams == Spec => []RunHasStreams
  <1>1. IInv => RunHasStreams
    BY DEF IInv, WriterBeforeRun, ReaderFirst, RunHasStreams, Running, Closing
  <1> QED
    BY <1>1, Invariance, PTL

============================================================================
