------------------------- MODULE VpnOneStartProofs -------------------------
(***************************************************************************)
(* What holds of VpnManager when the service is started at most once in    *)
(* the life of a process: the connection is always closed and the service  *)
(* always ended by somebody.  There may be any number of stop dialogs, of  *)
(* crashes that start the service again, and any daemon.                   *)
(***************************************************************************)
EXTENDS VpnManagerProofs

\* At most one call of onStartCommand.
OneStart == \A c, d \in Starts : c = d

-----------------------------------------------------------------------------
(* The invariant *)

Early == {"idle", "connect", "superConnect", "newSocket"}

ReaderIsClosed == {"closeWriter", "closeSocket", "onDisconnected"}

\* Before the thread has opened its socket there is none, and before it has put it in its
\* field there is no connection.
NothingOpened ==
    \A c \in Starts :
        /\ pc[ConnectThread(c)] \in Early => sock[c] = "none"
        /\ pc[ConnectThread(c)] \in Early \cup {"setSocket"} =>
              mSocket = NULL /\ mBufferedReader = NULL /\ mBufferedWriter = NULL

\* While it assigns the others, the socket in the field is its own.
SocketIsSet ==
    \A c \in Starts : pc[ConnectThread(c)] \in Opening \ (Early \cup {"setSocket"}) => mSocket = c

\* Nobody closes before reader and writer are there, so nobody closes half a connection.
WriterIsSet == \A t \in Threads : pc[t] \in Closing \cup {"stopCheck"} => mBufferedWriter # NULL

\* A thread that has closed the reader has closed the socket.
ClosedBehind ==
    /\ \A t \in Threads : pc[t] \in ReaderIsClosed => \A c \in Starts : sock[c] = "closed"
    /\ \A c \in Starts : pc[ManagementThread(c)] \in {"end", "done"} => sock[c] = "closed"

\* The service is started as long as its thread opens a connection or run() has not ended,
\* and is never stopped while the start is still queued.
StartedWhileOpening ==
    /\ started # "cancelled"
    /\ started = "pending" => \A c \in Starts : pc[ConnectThread(c)] = "idle"
    /\ started = "yes" =>
          /\ created
          /\ \E c \in Starts : \/ pc[ConnectThread(c)] \in Opening
                               \/ pc[ManagementThread(c)] \notin {"idle", "end", "done"}
    /\ \A c \in Starts :
          pc[ConnectThread(c)] \in Opening /\ sock[c] # "closed" => started = "yes"

\* Who opens a connection has handed it to a management thread when it goes on.
OpenHasOwner ==
    \A c \in Starts :
        sock[c] \in {"open", "eof"} =>
            pc[ConnectThread(c)] \in Opening \/ pc[ManagementThread(c)] # "idle"

OneInv ==
    /\ NothingOpened
    /\ SocketIsSet
    /\ WriterIsSet
    /\ ClosedBehind
    /\ StartedWhileOpening
    /\ OpenHasOwner

-----------------------------------------------------------------------------
(* Steps that have no part in opening *)

\* What a thread needs to preserve the invariant when it neither opens a connection nor
\* comes from nowhere: it closes a reader before it says so, and closes nothing before
\* there is a writer.
LEMMA OneMove ==
    ASSUME OneStart, IInv, OneInv, NEW t \in Threads, NEW place \in Places,
           pc' = [pc EXCEPT ![t] = place],
           UNCHANGED <<mSocket, mBufferedReader, mBufferedWriter, created>>,
           t \in ConnectThreads => pc[t] \notin Early \cup Opening,
           place \notin Early \cup Opening,
           t \in ManagementThreads => pc[t] # "idle",
           t \in ManagementThreads /\ place \in {"end", "done"} =>
              started' # "yes" /\ \A c \in Starts : sock'[c] = "closed",
           place \in Closing \cup {"stopCheck"} => mBufferedWriter # NULL,
           place \in ReaderIsClosed => \A c \in Starts : sock'[c] = "closed",
           \A c \in Starts : sock'[c] = sock[c] \/ (mBufferedWriter # NULL /\ sock'[c] = "closed"),
           \/ started' = started
           \/ started = "yes" /\ started' = "no" /\ \A c \in Starts : sock'[c] = "closed"
    PROVE  OneInv'
  <1> USE ThreadFacts, RoleFacts DEF IInv, TypeOK, ThreadTypes, OneInv
  <1>1. NothingOpened'
    BY DEF NothingOpened, Early, Opening
  <1>2. SocketIsSet'
    BY DEF SocketIsSet
  <1>3. WriterIsSet'
    BY DEF WriterIsSet, Opening, Early
  <1>4. ClosedBehind'
    BY DEF ClosedBehind
  <1>5. StartedWhileOpening'
    <2>1. started' # "cancelled"
      BY DEF StartedWhileOpening
    <2>2. started' = "pending" => \A c \in Starts : pc'[ConnectThread(c)] = "idle"
      BY DEF StartedWhileOpening, Early
    <2>3. ASSUME started' = "yes"
          PROVE  /\ created'
                 /\ \E c \in Starts : \/ pc'[ConnectThread(c)] \in Opening
                                      \/ pc'[ManagementThread(c)] \notin {"idle", "end", "done"}
      BY <2>3 DEF StartedWhileOpening, Early
    <2>4. \A c \in Starts :
             pc'[ConnectThread(c)] \in Opening /\ sock'[c] # "closed" => started' = "yes"
      BY DEF StartedWhileOpening
    <2> QED
      BY <2>1, <2>2, <2>3, <2>4 DEF StartedWhileOpening
  <1>6. OpenHasOwner'
    BY DEF OpenHasOwner, Early
  <1> QED
    BY <1>1, <1>2, <1>3, <1>4, <1>5, <1>6

\* The same for a step in which no thread moves: a daemon may hang up, and the service may
\* be created, or destroyed unless it is started.
LEMMA OneStill ==
    ASSUME OneInv,
           UNCHANGED <<pc, mSocket, mBufferedReader, mBufferedWriter, started>>,
           started = "yes" => created',
           \A c \in Starts : sock'[c] = sock[c] \/ (sock[c] = "open" /\ sock'[c] = "eof")
    PROVE  OneInv'
  <1> USE DEF OneInv
  <1>1. NothingOpened' /\ SocketIsSet' /\ WriterIsSet' /\ ClosedBehind'
    BY DEF NothingOpened, SocketIsSet, WriterIsSet, ClosedBehind
  <1>2. StartedWhileOpening' /\ OpenHasOwner'
    BY DEF StartedWhileOpening, OpenHasOwner
  <1> QED
    BY <1>1, <1>2

\* A process that has just been created satisfies the invariant, whether it is the first
\* or one that takes the place of a dead one.
LEMMA OneInit == Init => OneInv
  BY NullAssumption, ThreadFacts
  DEF Init, FreshProcess, OneInv, NothingOpened, SocketIsSet, WriterIsSet, ClosedBehind,
      StartedWhileOpening, OpenHasOwner, Early, Opening, Closing, ReaderIsClosed

LEMMA OneDeath == OneInv /\ ProcessDeath => OneInv'
  BY NullAssumption, ThreadFacts
  DEF ProcessDeath, OneInv, NothingOpened, SocketIsSet, WriterIsSet, ClosedBehind,
      StartedWhileOpening, OpenHasOwner, Early, Opening, Closing, ReaderIsClosed

-----------------------------------------------------------------------------
(* connect() *)

\* The conditions OneMove has on a step of the connect thread after the opening: it only
\* goes on, to a place that is not in close().
LEMMA ConnectMove ==
    ASSUME OneStart, IInv, OneInv, NEW c \in Starts, NEW place \in Places,
           pc' = [pc EXCEPT ![ConnectThread(c)] = place],
           UNCHANGED <<mSocket, mBufferedReader, mBufferedWriter, sock, started, created>>,
           pc[ConnectThread(c)] \notin Early \cup Opening,
           place \notin Early \cup Opening \cup Closing \cup {"stopCheck"}
    PROVE  OneInv'
  BY OneMove, ThreadFacts, RoleFacts DEF Closing, ReaderIsClosed

\* A failure that is reported while the service is started ends it, and leaves no socket
\* open: either none was opened, or somebody has closed it.
LEMMA OneConnectError ==
    ASSUME OneStart, IInv, OneInv, NEW c \in Starts, ConnectError(ConnectThread(c)),
           pc[ConnectThread(c)] \in Opening \ {"setSocket"},
           pc[ConnectThread(c)] \notin {"connect", "superConnect", "newSocket"} => ~isConnected
    PROVE  OneInv'
  <1> DEFINE t == ConnectThread(c)
  <1> USE ThreadFacts, RoleFacts DEF IInv, TypeOK, ThreadTypes, OneInv
  <1>1. \A d \in Starts : d = c
    BY DEF OneStart
  <1>2. /\ pc' = [pc EXCEPT ![t] = "executeCommand"]
        /\ UNCHANGED <<mSocket, mBufferedReader, mBufferedWriter, sock, created>>
    BY DEF ConnectError, connVars, EndIfListening, endVpnService, serviceVars
  <1>3. sock[c] \in {"none", "closed"}
    BY NullAssumption DEF NothingOpened, SocketIsSet, Early, isConnected, SocketTypes
  <1>4. started \in {"no", "yes"}
    BY DEF StartedWhileOpening, Opening, ServiceTypes
  <1>5. started' = "no"
    BY <1>4 DEF ConnectError, EndIfListening, endVpnService, serviceVars, StartedWhileOpening
  <1>6. NothingOpened' /\ SocketIsSet' /\ WriterIsSet' /\ ClosedBehind'
    BY <1>1, <1>2 DEF NothingOpened, SocketIsSet, WriterIsSet, ClosedBehind, Early, Opening,
                      Closing, ReaderIsClosed
  <1>7. StartedWhileOpening' /\ OpenHasOwner'
    BY <1>1, <1>2, <1>3, <1>5 DEF StartedWhileOpening, OpenHasOwner, Opening
  <1> QED
    BY <1>6, <1>7

\* A step of the opening that goes on to the next.
LEMMA OneOpening ==
    ASSUME OneStart, IInv, OneInv, NEW c \in Starts, NEW place \in Opening,
           pc' = [pc EXCEPT ![ConnectThread(c)] = place],
           pc[ConnectThread(c)] \in Opening,
           place \in Early => UNCHANGED sock,
           place \in Early \cup {"setSocket"} =>
              /\ pc[ConnectThread(c)] \in Early
              /\ UNCHANGED <<mSocket, mBufferedReader, mBufferedWriter>>,
           place \notin Early \cup {"setSocket"} => mSocket' = c,
           mBufferedWriter # NULL => mBufferedWriter' # NULL,
           UNCHANGED sock \/ pc[ConnectThread(c)] = "newSocket",
           UNCHANGED <<started, created>>
    PROVE  OneInv'
  <1> USE ThreadFacts, RoleFacts DEF IInv, TypeOK, ThreadTypes, OneInv
  <1>1. \A d \in Starts : d = c
    BY DEF OneStart
  <1>2. pc[ManagementThread(c)] = "idle"
    BY DEF ManagementAfterOpening
  <1>3. NothingOpened'
    BY <1>1 DEF NothingOpened
  <1>4. SocketIsSet'
    BY <1>1 DEF SocketIsSet
  <1>5. WriterIsSet'
    BY <1>1, <1>2 DEF WriterIsSet, Opening, Closing
  <1>6. ClosedBehind'
    BY <1>1, <1>2 DEF WriterIsSet, NothingOpened, ClosedBehind, Opening, Early, Closing,
                      ReaderIsClosed
  <1>7. StartedWhileOpening'
    <2>1. started = "yes" \/ (sock[c] = "closed" /\ UNCHANGED sock)
      BY DEF StartedWhileOpening, NothingOpened, Early
    <2> QED
      BY <1>1, <2>1 DEF StartedWhileOpening, Opening
  <1>8. OpenHasOwner'
    BY <1>1 DEF OpenHasOwner
  <1> QED
    BY <1>3, <1>4, <1>5, <1>6, <1>7, <1>8

\* Every step of connect() and of the executeCommand in it preserves the invariant.
LEMMA OneConnect ==
    ASSUME OneStart, IInv, OneInv, NEW c \in Starts, Connect(c) PROVE OneInv'
  <1> DEFINE t == ConnectThread(c)
  <1> USE ThreadFacts, RoleFacts DEF OneInv
  <1>1. CASE ConnectIfNotConnected(c)
    <2>1. ~isConnected
      BY <1>1 DEF ConnectIfNotConnected, NothingOpened, Early, isConnected
    <2> QED
      BY <1>1, <2>1, OneOpening
      DEF ConnectIfNotConnected, Goto, Opening, Early, connVars, serviceVars
  <1>2. CASE SuperConnect(c)
    <2>1. ~isConnected
      BY <1>2 DEF SuperConnect, NothingOpened, Early, isConnected
    <2> QED
      BY <1>2, <2>1, OneOpening DEF SuperConnect, Goto, Opening, Early, connVars, serviceVars
  <1>3. CASE OpenSocket(c)
    <2>1. CASE ConnectError(t)
      BY <1>3, <2>1, OneConnectError DEF OpenSocket, Opening
    <2>2. CASE ~ConnectError(t)
      BY <1>3, <2>2, OneOpening DEF OpenSocket, NewSocket, Opening, Early, serviceVars
    <2> QED
      BY <2>1, <2>2
  <1>4. CASE KeepSocket(c)
    BY <1>4, OneOpening
    DEF KeepSocket, SetSocket, Opening, Early, serviceVars
  <1>5. CASE \/ OpenStream(c, "getInputStream", "newReader")
             \/ OpenStream(c, "getOutputStream", "newWriter")
    <2>1. pc[t] \in {"getInputStream", "getOutputStream"} /\ mSocket = c
      BY <1>5 DEF OpenStream, SocketIsSet, Opening, Early
    <2>2. CASE ~isConnected /\ ConnectError(t)
      BY <2>1, <2>2, OneConnectError DEF Opening
    <2>3. CASE ~(~isConnected /\ ConnectError(t))
      <3>1. PICK place \in {"newReader", "newWriter"} : pc' = [pc EXCEPT ![t] = place]
        BY <1>5, <2>3 DEF OpenStream
      <3>2. UNCHANGED <<mSocket, mBufferedReader, mBufferedWriter, sock, started, created>>
        BY <1>5, <2>3 DEF OpenStream, GetStream, connVars, serviceVars
      <3> QED
        BY <2>1, <3>1, <3>2, OneOpening DEF Opening, Early
    <2> QED
      BY <2>2, <2>3
  <1>6. CASE OpenReader(c) \/ OpenWriter(c)
    <2>1. /\ pc[t] \in {"newReader", "newWriter"} /\ mSocket = c /\ in[t] # NULL
          /\ UNCHANGED <<mSocket, sock, started, created>>
          /\ mBufferedWriter' \in {mBufferedWriter, in[t]}
      BY <1>6 DEF OpenReader, NewReader, OpenWriter, NewWriter, SocketIsSet, Opening, Early,
                  IInv, LocalsSet, serviceVars
    <2>2. PICK place \in {"getOutputStream", "setOptions"} : pc' = [pc EXCEPT ![t] = place]
      BY <1>6 DEF OpenReader, OpenWriter
    <2> QED
      BY <2>1, <2>2, OneOpening DEF Opening, Early
  <1>7. CASE SetOptions(c)
    <2>1. mSocket = c
      BY <1>7 DEF SetOptions, SocketIsSet, Opening, Early
    <2>2. CASE isConnected
      BY <1>7, <2>1, <2>2, OneOpening DEF SetOptions, Goto, Opening, Early, connVars, serviceVars
    <2>3. CASE ~isConnected
      BY <1>7, <2>3, OneConnectError DEF SetOptions, Opening
    <2> QED
      BY <2>2, <2>3
  <1>8. CASE OnConnected(c)
    <2> USE <1>8 DEF OnConnected, IInv, TypeOK, ThreadTypes
    <2>1. \A d \in Starts : d = c
      BY DEF OneStart
    <2>2. /\ pc' = [pc EXCEPT ![t] = "executeCommand",
                              ![ManagementThread(c)] = IF created THEN "run" ELSE @]
          /\ UNCHANGED <<mSocket, mBufferedReader, mBufferedWriter, sock, started, created>>
      BY DEF connVars, serviceVars
    <2>3. pc[ManagementThread(c)] = "idle" /\ pc[t] = "onConnected" /\ mBufferedWriter # NULL
      BY DEF ManagementAfterOpening, WriterBeforeRun, Opening
    <2>4. created \/ (sock[c] \in {"none", "closed"} /\ started # "yes")
      BY <2>3 DEF StartedWhileOpening, Opening, SocketTypes
    <2>5. NothingOpened' /\ SocketIsSet' /\ WriterIsSet' /\ ClosedBehind'
      BY <2>1, <2>2, <2>3 DEF NothingOpened, SocketIsSet, WriterIsSet, ClosedBehind, Early,
                              Opening, Closing, ReaderIsClosed
    <2>6. StartedWhileOpening' /\ OpenHasOwner'
      BY <2>1, <2>2, <2>3, <2>4 DEF StartedWhileOpening, OpenHasOwner, Opening
    <2> QED
      BY <2>5, <2>6
  <1>9. CASE ExecuteCommand(c) \/ WriteCommand(c) \/ CollectLine(c) \/ ParseReply(c)
    <2>1. /\ UNCHANGED <<mSocket, mBufferedReader, mBufferedWriter, sock, started, created>>
          /\ pc[t] \in {"executeCommand", "writeCommand", "gotLine", "parseReply"}
      BY <1>9 DEF ExecuteCommand, WriteCommand, CollectLine, ParseReply, connVars, serviceVars
    <2>2. PICK place \in {"writeCommand", "readLine", "parseReply", "processState", "done"} :
             pc' = [pc EXCEPT ![t] = place]
      BY <1>9 DEF ExecuteCommand, WriteCommand, CollectLine, ParseReply, Finish
    <2> QED
      BY <2>1, <2>2, ConnectMove DEF Places, Early, Opening, Closing
  <1> QED
    BY <1>1, <1>2, <1>3, <1>4, <1>5, <1>7, <1>8, <1>9, <1>6 DEF Connect

-----------------------------------------------------------------------------
(* processState, readLine and close(), on any thread *)

\* processState and readLine leave connection and service alone and lead to no place in
\* close() but its first, and there only a management thread, which has a writer.
LEMMA OneAnnounceRead ==
    ASSUME OneStart, IInv, OneInv, NEW t \in Threads,
           t \in ConnectThreads \/ t \in ManagementThreads,
           Announce(t) \/ Read(t)
    PROVE  OneInv'
  <1> USE ThreadFacts, RoleFacts
  <1>1. /\ UNCHANGED <<mSocket, mBufferedReader, mBufferedWriter, sock, started, created>>
        /\ pc[t] \in {"processState", "notifyListeners", "onStateChanged", "setLevel",
                      "readLine", "reading"}
    BY DEF Announce, ProcessState, NotifyListeners, OnStateChanged, onStateChanged, SetLevel,
           Read, ReadLock, ReadReturns, ReadEOF, ReadThrows, connVars, serviceVars
  <1>2. PICK place \in {"notifyListeners", "onStateChanged", "setLevel", "reading", "gotLine",
                        "parseReply", "failed", "close", "readLine", "done"} :
           /\ pc' = [pc EXCEPT ![t] = place]
           /\ t \in ConnectThreads => place # "close"
           /\ t \in ManagementThreads => place # "done"
    BY DEF Announce, ProcessState, NotifyListeners, OnStateChanged, SetLevel, NextLine, Finish,
           Read, ReadLock, ReadReturns, ReadEOF, ReadThrows, ConnectThreads, ManagementThreads
  <1>3. place = "close" => mBufferedWriter # NULL
    BY <1>1, <1>2 DEF IInv, WriterBeforeRun, ManagementThreads
  <1>4. /\ place \in Places
        /\ place \notin Early \cup Opening \cup ReaderIsClosed \cup {"end", "stopCheck"}
    BY <1>2 DEF Places, Early, Opening, ReaderIsClosed
  <1>5. pc[t] \notin Early \cup Opening
    BY <1>1 DEF Early, Opening
  <1>6. place \in Closing => place = "close"
    BY <1>2 DEF Closing
  <1> QED
    BY <1>1, <1>2, <1>3, <1>4, <1>5, <1>6, OneMove DEF Early

\* Every step of disconnect(): reader, writer and socket are those of the one start.
LEMMA OneDisconnect ==
    ASSUME OneStart, IInv, OneInv, NEW t \in Threads,
           t \in ManagementThreads \/ t \in StopThreads, Disconnect(t)
    PROVE  OneInv'
  <1> USE ThreadFacts, RoleFacts DEF IInv, TypeOK, OneInv
  <1>1. t \notin ConnectThreads
    BY DEF ConnectThreads, ManagementThreads, StopThreads
  <1>2. pc[t] \in Closing /\ mBufferedWriter # NULL /\ mBufferedReader # NULL
    BY DEF Disconnect, Close, CloseBegin, CloseReader, CloseWriter, CloseSocket, Closing,
           WriterIsSet, ReaderFirst
  <1>3. pc[t] # "idle"
    BY <1>2 DEF Closing
  <1>4. CASE Close(t) /\ UNCHANGED <<last, shown, serviceVars, mgmtVars, daemonVars, inbox>>
    <2>1. UNCHANGED <<mSocket, mBufferedReader, mBufferedWriter, started, created>>
      BY <1>4 DEF Close, CloseBegin, CloseReader, CloseWriter, CloseSocket, connVars, serviceVars
    <2>2. \A c \in Starts : sock'[c] = sock[c] \/ sock'[c] = "closed"
      BY <1>4 DEF Close, CloseBegin, CloseReader, CloseWriter, CloseSocket, connVars, SocketTypes
    <2>3. CASE CloseBegin(t)
      BY <1>1, <1>2, <1>3, <2>1, <2>2, <2>3, OneMove
      DEF CloseBegin, Places, Early, Opening, Closing, ReaderIsClosed
    <2>4. CASE CloseReader(t)
      <3>1. \A c \in Starts : sock'[c] = "closed"
        BY <2>4 DEF CloseReader, LocalsSet, ThreadTypes, SocketTypes, OneStart
      <3> QED
        BY <1>1, <1>2, <1>3, <2>1, <2>2, <2>4, <3>1, OneMove
        DEF CloseReader, Places, Early, Opening, Closing
    <2>5. CASE CloseWriter(t) \/ CloseSocket(t)
      <3>1. \A c \in Starts : sock'[c] = "closed"
        BY <2>2, <2>5 DEF CloseWriter, CloseSocket, ClosedBehind, ReaderIsClosed
      <3>2. PICK place \in {"closeSocket", "onDisconnected"} : pc' = [pc EXCEPT ![t] = place]
        BY <2>5 DEF CloseWriter, CloseSocket
      <3> QED
        BY <1>1, <1>2, <1>3, <2>1, <2>2, <3>1, <3>2, OneMove DEF Places, Early, Opening, Closing
    <2> QED
      BY <1>4, <2>3, <2>4, <2>5 DEF Close
  <1>5. CASE /\ pc[t] = "onDisconnected"
             /\ EndIfListening
             /\ IF t \in ManagementThreads
                THEN pc' = [pc EXCEPT ![t] = "end"] /\ UNCHANGED locals
                ELSE Finish(t)
             /\ UNCHANGED <<connVars, stream, mgmtVars, daemonVars, inbox>>
    <2>1. \A c \in Starts : sock'[c] = "closed"
      BY <1>5 DEF ClosedBehind, ReaderIsClosed, connVars
    <2>2. started \in {"no", "yes"}
      <3>1. started # "pending"
        <4>1. PICK c \in Starts : mBufferedWriter = c
          BY <1>2 DEF SocketTypes
        <4>2. pc[ConnectThread(c)] # "idle"
          BY <1>2 DEF NothingOpened, Early
        <4> QED
          BY <4>2 DEF StartedWhileOpening
      <3> QED
        BY <3>1 DEF StartedWhileOpening, ServiceTypes
    <2>3. started' = "no" /\ UNCHANGED created
      BY <1>5, <2>2 DEF EndIfListening, endVpnService, serviceVars, StartedWhileOpening
    <2>4. PICK place \in {"end", "done"} : pc' = [pc EXCEPT ![t] = place]
      BY <1>5 DEF Finish
    <2>5. UNCHANGED <<mSocket, mBufferedReader, mBufferedWriter, sock>>
      BY <1>5 DEF connVars
    <2> QED
      BY <1>1, <1>3, <2>1, <2>2, <2>3, <2>4, <2>5, OneMove
      DEF Places, Early, Opening, Closing, ReaderIsClosed
  <1> QED
    BY <1>4, <1>5 DEF Disconnect

-----------------------------------------------------------------------------
(* run() and stopOpenVPN() *)

\* run() leaves its loop only for close(), and ends only behind it.
LEMMA OneRun ==
    ASSUME OneStart, IInv, OneInv, NEW c \in Starts, Run(c) PROVE OneInv'
  <1> DEFINE t == ManagementThread(c)
  <1> USE ThreadFacts, RoleFacts DEF OneInv
  <1>1. CASE ProcessDeath
    BY <1>1, OneDeath
  <1>2. CASE RunEnd(c)
    <2>1. /\ pc' = [pc EXCEPT ![t] = "done"]
          /\ UNCHANGED <<mSocket, mBufferedReader, mBufferedWriter, sock, started, created>>
      BY <1>2 DEF RunEnd, Finish, connVars, serviceVars
    <2>2. started # "yes"
      BY <1>2 DEF RunEnd, StartedWhileOpening, IInv, ManagementAfterOpening, OneStart
    <2>3. \A d \in Starts : sock[d] = "closed"
      BY <1>2 DEF RunEnd, ClosedBehind, OneStart
    <2> QED
      BY <1>2, <2>1, <2>2, <2>3, OneMove
      DEF RunEnd, Places, Early, Opening, Closing, ReaderIsClosed
  <1>3. CASE ~ProcessDeath /\ ~RunEnd(c)
    <2>1. /\ UNCHANGED <<mSocket, mBufferedReader, mBufferedWriter, sock, started, created>>
          /\ pc[t] \in {"run", "setup", "gotLine"}
      BY <1>3 DEF Run, RunBegin, RunSetup, ParseInput, ProcessByteCount, onByteCountChanged,
                  ProcessHold, ProcessPassword, Skip, Goto, connVars, serviceVars
    <2>2. PICK place \in {"setup", "readLine", "processState", "close"} :
             pc' = [pc EXCEPT ![t] = place]
      BY <1>3 DEF Run, RunBegin, RunSetup, ParseInput, ProcessByteCount, ProcessHold,
                  ProcessPassword, Skip, NextLine, Goto, ConnectThreads
    <2>3. mBufferedWriter # NULL
      BY <2>1 DEF IInv, WriterBeforeRun
    <2> QED
      BY <2>1, <2>2, <2>3, OneMove DEF Places, Early, Opening, Closing, ReaderIsClosed
  <1> QED
    BY <1>1, <1>2, <1>3

\* stopOpenVPN closes only after it has written through a writer.
LEMMA OneStop ==
    ASSUME OneStart, IInv, OneInv, NEW s \in Stops, Stop(s) PROVE OneInv'
  <1> DEFINE t == StopThread(s)
  <1> USE ThreadFacts, RoleFacts DEF OneInv
  <1>1. CASE ProcessDeath
    BY <1>1, OneDeath
  <1>2. CASE ~ProcessDeath
    <2>1. /\ UNCHANGED <<mSocket, mBufferedReader, mBufferedWriter, sock, started, created>>
          /\ pc[t] \in {"stopTask", "stopOpenVPN", "stopCheck"}
      BY <1>2 DEF Stop, StopBegin, StopCommand, StopCheck, Goto, connVars, serviceVars
    <2>2. PICK place \in {"stopOpenVPN", "stopCheck", "close", "done"} :
             /\ pc' = [pc EXCEPT ![t] = place]
             /\ place \in {"stopCheck", "close"} => mBufferedWriter # NULL
      BY <1>2 DEF Stop, StopBegin, StopCommand, StopCheck, Goto, WriteOK, WriterIsSet
    <2> QED
      BY <2>1, <2>2, OneMove DEF Places, Early, Opening, Closing, ReaderIsClosed
  <1> QED
    BY <1>1, <1>2

-----------------------------------------------------------------------------
(* The main thread, the user and the daemon *)

\* The handlers start a service only before its thread has begun, and destroy only one
\* that is not started.
LEMMA OneMain ==
    ASSUME OneStart, IInv, OneInv, MainThread \/ User PROVE OneInv'
  <1> USE ThreadFacts, RoleFacts DEF OneInv
  <1>1. UNCHANGED <<mSocket, mBufferedReader, mBufferedWriter, sock>>
    BY DEF MainThread, User, connVars
  <1>2. CASE onCreate \/ onDestroy \/ onResume \/ onPause
    BY <1>1, <1>2, OneStill DEF onCreate, onDestroy, onResume, onPause, StartedWhileOpening
  <1>3. CASE \E s \in Stops : onClick(s)
    <2>1. PICK s \in Stops : onClick(s)
      BY <1>3
    <2> QED
      BY <1>1, <2>1, OneMove
      DEF onClick, Places, Early, Opening, Closing, ReaderIsClosed
  <1>4. CASE startOpenVPNService
    <2>1. \A c \in Starts : pc[ConnectThread(c)] = "idle"
      BY <1>4 DEF startOpenVPNService, OneStart
    <2>2. UNCHANGED pc /\ started' = "pending"
      BY <1>4 DEF startOpenVPNService
    <2>3. NothingOpened' /\ SocketIsSet' /\ WriterIsSet' /\ ClosedBehind' /\ OpenHasOwner'
      BY <1>1, <2>2 DEF NothingOpened, SocketIsSet, WriterIsSet, ClosedBehind, OpenHasOwner
    <2>4. StartedWhileOpening'
      BY <2>1, <2>2 DEF StartedWhileOpening, Opening
    <2> QED
      BY <2>3, <2>4
  <1>5. CASE \E c \in Starts : onStartCommand(c)
    <2>1. PICK c \in Starts : onStartCommand(c)
      BY <1>5
    <2> USE DEF IInv, TypeOK, ThreadTypes
    <2>2. \A d \in Starts : d = c
      BY DEF OneStart
    <2>3. /\ pc[ConnectThread(c)] = "idle" /\ pc[ManagementThread(c)] = "idle"
          /\ pc' = [pc EXCEPT ![ConnectThread(c)] = "connect"]
          /\ started' = "yes" /\ created /\ UNCHANGED created
      BY <2>1 DEF onStartCommand, ManagementAfterOpening, StartedWhileOpening
    <2>4. NothingOpened' /\ SocketIsSet' /\ WriterIsSet' /\ ClosedBehind' /\ OpenHasOwner'
      BY <1>1, <2>2, <2>3
      DEF NothingOpened, SocketIsSet, WriterIsSet, ClosedBehind, OpenHasOwner, Early, Opening,
          Closing, ReaderIsClosed
    <2>5. StartedWhileOpening'
      BY <2>2, <2>3 DEF StartedWhileOpening, Opening
    <2> QED
      BY <2>4, <2>5
  <1> QED
    BY <1>2, <1>3, <1>4, <1>5 DEF MainThread, User

\* The daemon can end a connection, which closes it on this side for nobody.
LEMMA OneDaemon ==
    ASSUME IInv, OneInv, Daemon PROVE OneInv'
  <1>1. /\ UNCHANGED <<pc, mSocket, mBufferedReader, mBufferedWriter, started, created>>
        /\ \A c \in Starts : sock'[c] = sock[c] \/ (sock[c] = "open" /\ sock'[c] = "eof")
    BY DEF Daemon, DaemonAccept, DaemonDropsClient, DaemonCommand, DaemonState, DaemonLine,
           DaemonDies, DaemonRestarts, HangUp, connVars, serviceVars
  <1> QED
    BY <1>1, OneStill DEF OneInv, StartedWhileOpening

-----------------------------------------------------------------------------
(* The theorems *)

\* The invariant is inductive together with that of any number of starts.
LEMMA OneNext ==
    ASSUME OneStart PROVE IInv /\ OneInv /\ [Next]_vars => OneInv'
  <1> SUFFICES ASSUME IInv, OneInv, [Next]_vars PROVE OneInv'
    OBVIOUS
  <1> USE ThreadFacts, RoleFacts
  <1>1. ASSUME NEW c \in Starts, ConnectStep(c) PROVE OneInv'
    <2>1. CASE ConnectFailed(c)
      BY <2>1, ConnectMove
      DEF ConnectFailed, Finish, Places, Early, Opening, Closing, connVars, serviceVars
    <2> QED
      BY <1>1, <2>1, OneConnect, OneAnnounceRead DEF ConnectStep
  <1>2. ASSUME NEW c \in Starts, ManagementStep(c) PROVE OneInv'
    BY <1>2, OneRun, OneAnnounceRead, OneDisconnect DEF ManagementStep
  <1>3. ASSUME NEW s \in Stops, StopStep(s) PROVE OneInv'
    BY <1>3, OneStop, OneDisconnect DEF StopStep, StopThreads
  <1>4. CASE UNCHANGED vars
    BY <1>4, OneStill DEF vars, connVars, serviceVars, OneInv, StartedWhileOpening
  <1> QED
    BY <1>1, <1>2, <1>3, <1>4, OneMain, OneDaemon DEF Next

\* Both invariants hold in every reachable state.
LEMMA OneInvariance ==
    ASSUME OneStart PROVE Spec => [](IInv /\ OneInv)
  <1>1. IInv /\ OneInv /\ [Next]_vars => OneInv'
    BY OneNext
  <1> QED
    BY <1>1, OneInit, Invariance, PTL DEF Spec

\* With at most one start, no socket to the daemon is open when the last thread has ended,
\* whoever closed and whatever the stop dialogs and the daemon did meanwhile.
THEOREM NothingLeaks ==
    ASSUME OneStart PROVE Spec => []NoLeakedSocket
  <1>1. IInv /\ OneInv => NoLeakedSocket
    BY ThreadFacts DEF IInv, TypeOK, SocketTypes, OneInv, OpenHasOwner, ClosedBehind, Opening,
                       NoLeakedSocket, Alive
  <1> QED
    BY <1>1, OneInvariance, PTL

\* With at most one start, a started service has a thread that will end it, through every
\* failure of connect(), run() and stopOpenVPN() and every restart of the process.
THEOREM NoZombies ==
    ASSUME OneStart PROVE Spec => []NoZombieService
  <1>1. IInv /\ OneInv => NoZombieService
    BY ThreadFacts DEF OneInv, StartedWhileOpening, Opening, NoZombieService, Alive
  <1> QED
    BY <1>1, OneInvariance, PTL

\* With at most one start, run() returns only with its connection closed, although
\* closeQuietly drops the exception that can cut close() short.
THEOREM RunDisconnects ==
    ASSUME OneStart PROVE Spec => []RunLeavesDisconnected
  <1>1. IInv /\ OneInv => RunLeavesDisconnected
    BY DEF OneInv, ClosedBehind, RunLeavesDisconnected
  <1> QED
    BY <1>1, OneInvariance, PTL

\* The steps that give the service up are onDisconnected, behind a closed reader, and the
\* failures of connect(), before there is a socket or after somebody closed it.
LEMMA OneGivesUp ==
    ASSUME OneStart, IInv, OneInv, [Next]_vars, started # "no", started' = "no"
    PROVE  \A c \in Starts : sock[c] \in {"none", "closed"}
  <1> USE ThreadFacts, RoleFacts DEF IInv, TypeOK, SocketTypes, OneInv
  <1>1. started = "yes" \/ started = "pending"
    BY DEF StartedWhileOpening, ServiceTypes
  <1>2. ~ProcessDeath
    BY <1>1 DEF ProcessDeath
  <1>3. PICK t \in Threads :
           \/ Disconnect(t) /\ t \in ManagementThreads \cup StopThreads
           \/ \E c \in Starts : t = ConnectThread(c) /\ Connect(c)
    <2>1. \A c \in Starts : ConnectFailed(c) \/ Run(c) => UNCHANGED started
      BY <1>2 DEF ConnectFailed, Run, RunBegin, RunSetup, ParseInput, ProcessByteCount,
                  onByteCountChanged, ProcessHold, ProcessPassword, Skip, Goto, RunEnd, serviceVars
    <2>2. \A t \in Threads : Announce(t) \/ Read(t) => UNCHANGED started
      BY DEF Announce, ProcessState, NotifyListeners, OnStateChanged, onStateChanged, SetLevel,
             Read, serviceVars
    <2>3. \A s \in Stops : Stop(s) => UNCHANGED started
      BY <1>2 DEF Stop, StopBegin, StopCommand, StopCheck, Goto, serviceVars
    <2>4. ~(MainThread \/ User)
      BY <1>1 DEF MainThread, User, onCreate, onDestroy, onStartCommand, startOpenVPNService,
                  onResume, onPause, onClick
    <2>5. Daemon \/ UNCHANGED vars => UNCHANGED started
      BY DEF Daemon, DaemonAccept, DaemonDropsClient, DaemonCommand, DaemonState, DaemonLine,
             DaemonDies, DaemonRestarts, serviceVars, vars
    <2> QED
      BY <2>1, <2>2, <2>3, <2>4, <2>5
      DEF Next, ConnectStep, ManagementStep, StopStep, ManagementThreads, StopThreads
  <1>4. CASE Disconnect(t) /\ t \in ManagementThreads \cup StopThreads
    <2>1. pc[t] = "onDisconnected"
      BY <1>4 DEF Disconnect, serviceVars
    <2> QED
      BY <2>1 DEF ClosedBehind, ReaderIsClosed
  <1>5. ASSUME NEW c \in Starts, Connect(c) PROVE sock[c] \in {"none", "closed"}
    <2>1. /\ pc[ConnectThread(c)] \in Opening \ {"setSocket"}
          /\ pc[ConnectThread(c)] \notin {"connect", "superConnect", "newSocket"} => ~isConnected
      BY <1>5 DEF Connect, ConnectIfNotConnected, SuperConnect, OpenSocket, KeepSocket,
                  OpenStream, OpenReader, OpenWriter, SetOptions, OnConnected, ExecuteCommand,
                  WriteCommand, CollectLine, ParseReply, Goto, Opening, serviceVars
    <2> QED
      BY <2>1, NullAssumption DEF NothingOpened, SocketIsSet, Early, isConnected
  <1> QED
    BY <1>3, <1>4, <1>5 DEF OneStart

\* With at most one start, no step that gives the service up finds a socket open: neither
\* onConnectError, whoever has closed the socket under connect(), nor onDisconnected, nor
\* a start that is delivered late.
THEOREM NeverAbandons ==
    ASSUME OneStart PROVE Spec => NeverAbandonsConnection
  <1>1. IInv /\ OneInv /\ [Next]_vars =>
           [started # "no" /\ started' = "no" =>
               \A c \in Starts : sock[c] \in {"none", "closed"}]_vars
    BY OneGivesUp
  <1> QED
    BY <1>1, OneInvariance, PTL DEF Spec, NeverAbandonsConnection
=============================================================================
