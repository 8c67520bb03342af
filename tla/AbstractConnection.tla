------------------------- MODULE AbstractConnection -------------------------
(***************************************************************************)
(* The socket under the management connection (net/AbstractConnection.java) *)
(* and the threads of the app that use it.                                 *)
(*                                                                         *)
(* Nothing in AbstractConnection is synchronised: mSocket, mBufferedReader *)
(* and mBufferedWriter are three fields that are assigned one after the    *)
(* other.  The only mutual exclusion is the monitor inside a               *)
(* BufferedReader: readLine holds it while it waits for input, and close   *)
(* and ready need it too.                                                  *)
(*                                                                         *)
(* A socket has the name of the onStartCommand call whose thread created   *)
(* it; its reader and its writer are known by the same name.               *)
(***************************************************************************)
EXTENDS VpnStatus, Naturals, Sequences

CONSTANTS Starts,  \* calls of OpenVPNService.onStartCommand in one process life
          Stops,   \* confirmed DisconnectVPN dialogs in one process life
          NULL     \* Java's null

ASSUME NullAssumption == NULL \notin Starts

\* onStartCommand call c starts a connect thread, whose onConnected callback may
\* start the management thread; confirming dialog s starts a StopTask thread.
ConnectThread(c) == <<c, "connect">>

ManagementThread(c) == <<c, "management">>

StopThread(s) == <<s, "stop">>

ConnectThreads == {ConnectThread(c) : c \in Starts}

ManagementThreads == {ManagementThread(c) : c \in Starts}

StopThreads == {StopThread(s) : s \in Stops}

Threads == ConnectThreads \cup ManagementThreads \cup StopThreads

VARIABLES
    pc,               \* where each thread is
    in,               \* the socket whose reader, or whose stream, each thread has in a local
    line,             \* the line each thread read last
    mSocket, mBufferedReader, mBufferedWriter,
    sock,             \* each socket: not created, open, closed by the daemon, closed here
    readerClosed,     \* the readers on which close() has run
    writerClosed,     \* the writers on which close() has run
    lock,             \* the thread inside each reader's monitor
    stream            \* the lines that have arrived on each socket and are unread

connVars == <<mSocket, mBufferedReader, mBufferedWriter, sock, readerClosed, writerClosed, lock>>

\* What the daemon can have put on the wire, as far as parseInput and
\* executeCommand tell lines apart.  "state" is a >STATE: event and "reply" the
\* history line that answers the state command: both carry a state.
PlainKinds == {"end", "success", "bytecount", "hold", "password", "unsupported"}

Lines == [kind : {"state", "reply"}, state : States] \cup [kind : PlainKinds]

NoLine == [kind |-> "none"]

Plain(kind) == [kind |-> kind]

-----------------------------------------------------------------------------
(* Connection state *)

isConnected == mSocket # NULL /\ sock[mSocket] \in {"open", "eof"}

\* A write to socket w reaches the kernel.  When the daemon has gone, the write
\* may still succeed or may already fail.
WriteOK(w) == w # NULL /\ w \notin writerClosed /\ sock[w] \in {"open", "eof"}

WriteFails(w) == w # NULL /\ (w \in writerClosed \/ sock[w] # "open")

\* connect() reads and assigns in steps of their own: the socket is connected and put in
\* its field; the field is read for an input stream, and a reader on it put in its field;
\* the same for the output stream and the writer.  Other threads run in between, so a
\* stream is that of whatever mSocket holds when it is read.
NewSocket(c) ==
    /\ sock' = [sock EXCEPT ![c] = "open"]
    /\ UNCHANGED <<mSocket, mBufferedReader, mBufferedWriter, readerClosed, writerClosed, lock>>

SetSocket(c) ==
    /\ mSocket' = c
    /\ UNCHANGED <<mBufferedReader, mBufferedWriter, sock, readerClosed, writerClosed, lock>>

\* getInputStream or getOutputStream; both throw when the socket has been closed.
GetStream(t) ==
    /\ isConnected
    /\ in' = [in EXCEPT ![t] = mSocket]
    /\ UNCHANGED connVars

NewReader(t) ==
    /\ mBufferedReader' = in[t]
    /\ in' = [in EXCEPT ![t] = NULL]
    /\ UNCHANGED <<mSocket, mBufferedWriter, sock, readerClosed, writerClosed, lock>>

NewWriter(t) ==
    /\ mBufferedWriter' = in[t]
    /\ in' = [in EXCEPT ![t] = NULL]
    /\ UNCHANGED <<mSocket, mBufferedReader, sock, readerClosed, writerClosed, lock>>

-----------------------------------------------------------------------------
(* BufferedReader *)

\* readLine enters the monitor and stays inside until it returns or throws.
ReadLock(t) ==
    /\ pc[t] = "readLine"
    /\ lock[in[t]] = NULL
    /\ lock' = [lock EXCEPT ![in[t]] = t]
    /\ pc' = [pc EXCEPT ![t] = "reading"]
    /\ UNCHANGED <<in, line, mSocket, mBufferedReader, mBufferedWriter, sock,
                   readerClosed, writerClosed, stream>>

\* What ready() can answer: on a closed socket only what the reader had fetched before
\* counts.
Ready(r) ==
    {ready \in BOOLEAN : /\ ready => stream[r] # <<>>
                         /\ ~ready => stream[r] = <<>> \/ sock[r] = "closed"}

LineAvailable(r) == stream[r] # <<>> /\ r \notin readerClosed

\* A line that is already buffered can be read after the socket was closed, as
\* long as the reader itself was not.
ReadReturns(t) ==
    /\ pc[t] = "reading"
    /\ LineAvailable(in[t])
    /\ line' = [line EXCEPT ![t] = Head(stream[in[t]])]
    /\ stream' = [stream EXCEPT ![in[t]] = Tail(@)]
    /\ lock' = [lock EXCEPT ![in[t]] = NULL]
    /\ pc' = [pc EXCEPT ![t] = "gotLine"]
    /\ UNCHANGED <<in, mSocket, mBufferedReader, mBufferedWriter, sock,
                   readerClosed, writerClosed>>

\* Mutant: the null line of a closed connection is skipped like an empty one.
ReadEOFSkipped(t, next) ==
    /\ pc[t] = "reading"
    /\ sock[in[t]] = "eof" /\ stream[in[t]] = <<>> /\ in[t] \notin readerClosed
    /\ lock' = [lock EXCEPT ![in[t]] = NULL]
    /\ pc' = [pc EXCEPT ![t] = "readLine"]
    /\ UNCHANGED <<in, line, stream, mSocket, mBufferedReader, mBufferedWriter, sock,
                   readerClosed, writerClosed>>

\* readLine returns null: the daemon has closed its end and all was read.
ReadEOF(t, next) ==
    /\ pc[t] = "reading"
    /\ sock[in[t]] = "eof" /\ stream[in[t]] = <<>> /\ in[t] \notin readerClosed
    /\ lock' = [lock EXCEPT ![in[t]] = NULL]
    /\ pc' = [pc EXCEPT ![t] = next]
    /\ UNCHANGED <<in, line, stream, mSocket, mBufferedReader, mBufferedWriter, sock,
                   readerClosed, writerClosed>>

\* readLine throws IOException: reader or socket were closed on this side.
ReadThrows(t, next) ==
    /\ pc[t] = "reading"
    /\ in[t] \in readerClosed \/ sock[in[t]] = "closed"
    /\ lock' = [lock EXCEPT ![in[t]] = NULL]
    /\ pc' = [pc EXCEPT ![t] = next]
    /\ UNCHANGED <<in, line, stream, mSocket, mBufferedReader, mBufferedWriter, sock,
                   readerClosed, writerClosed>>

-----------------------------------------------------------------------------
(* close(): reader, writer, socket.  Closing the reader or the writer closes *)
(* the socket under it.                                                      *)

CloseBegin(t) ==
    /\ pc[t] = "close"
    /\ in' = [in EXCEPT ![t] = mBufferedReader]
    /\ pc' = [pc EXCEPT ![t] = IF mBufferedReader = NULL THEN "closeWriter" ELSE "closeReader"]
    /\ UNCHANGED <<line, stream, connVars>>

\* Mutant: a closed reader is removed from its field.
CloseReaderForgets(t) ==
    /\ pc[t] = "closeReader"
    /\ lock[in[t]] = NULL
    /\ readerClosed' = readerClosed \cup {in[t]}
    /\ sock' = [sock EXCEPT ![in[t]] = "closed"]
    /\ stream' = [stream EXCEPT ![in[t]] = <<>>]
    /\ mBufferedReader' = NULL
    /\ pc' = [pc EXCEPT ![t] = "closeWriter"]
    /\ UNCHANGED <<in, line, mSocket, mBufferedWriter, writerClosed, lock>>

\* Mutant: the reader is closed without the socket under it.
CloseReaderOnly(t) ==
    /\ pc[t] = "closeReader"
    /\ lock[in[t]] = NULL
    /\ readerClosed' = readerClosed \cup {in[t]}
    /\ stream' = [stream EXCEPT ![in[t]] = <<>>]
    /\ pc' = [pc EXCEPT ![t] = "closeWriter"]
    /\ UNCHANGED <<in, line, sock, mSocket, mBufferedReader, mBufferedWriter,
                   writerClosed, lock>>

\* BufferedReader.close waits for the reader's monitor and drops what is buffered.
CloseReader(t) ==
    /\ pc[t] = "closeReader"
    /\ lock[in[t]] = NULL
    /\ readerClosed' = readerClosed \cup {in[t]}
    /\ sock' = [sock EXCEPT ![in[t]] = "closed"]
    /\ stream' = [stream EXCEPT ![in[t]] = <<>>]
    /\ pc' = [pc EXCEPT ![t] = "closeWriter"]
    /\ UNCHANGED <<in, line, mSocket, mBufferedReader, mBufferedWriter,
                   writerClosed, lock>>

\* flush() throws on a writer that is closed already, and on a dead socket when
\* an earlier write left data behind; closeQuietly drops the exception and with it
\* the rest of close().
CloseWriter(t) ==
    /\ pc[t] = "closeWriter"
    /\ \/ /\ WriteFails(mBufferedWriter)
          /\ pc' = [pc EXCEPT ![t] = "onDisconnected"]
          /\ UNCHANGED <<writerClosed, sock>>
       \/ /\ mBufferedWriter \notin writerClosed
          /\ writerClosed' = writerClosed \cup ({mBufferedWriter} \ {NULL})
          /\ sock' = [c \in Starts |-> IF c = mBufferedWriter THEN "closed" ELSE sock[c]]
          /\ pc' = [pc EXCEPT ![t] = "closeSocket"]
    /\ UNCHANGED <<in, line, stream, mSocket, mBufferedReader, mBufferedWriter,
                   readerClosed, lock>>

CloseSocket(t) ==
    /\ pc[t] = "closeSocket"
    /\ sock' = [c \in Starts |-> IF c = mSocket THEN "closed" ELSE sock[c]]
    /\ pc' = [pc EXCEPT ![t] = "onDisconnected"]
    /\ UNCHANGED <<in, line, stream, mSocket, mBufferedReader, mBufferedWriter,
                   readerClosed, writerClosed, lock>>

Close(t) == CloseBegin(t) \/ CloseReader(t) \/ CloseWriter(t) \/ CloseSocket(t)
============================================================================
