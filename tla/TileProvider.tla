---------------------------- MODULE TileProvider ----------------------------
(***************************************************************************)
(* The offline map's tiles: MapBoxOfflineTileProvider.java over            *)
(* SQLiteCursor, SQLiteQuery and the resources of SQLiteResources, and     *)
(* the part of MapControlTower.kt that opens and closes the provider.      *)
(*                                                                         *)
(* Three kinds of threads meet here.  loadData builds the provider on a    *)
(* thread of the IO dispatcher and publishes it on the main thread.  The   *)
(* map asks for tiles from threads of its own; getTile is synchronized, so *)
(* one of them at a time is in the provider.  onDestroy closes the         *)
(* provider on the main thread, and close() is not synchronized.  A tile   *)
(* thread whose query finds the database corrupt closes the database too:  *)
(* DefaultDatabaseErrorHandler.java does so inside fillWindow.             *)
(*                                                                         *)
(* Every read of the cursor's field mWindow is a step of its own, and so   *)
(* is every native call on the window it gave.  A native call on a window  *)
(* that was disposed of is undefined: the process dies of it, or it goes   *)
(* on as if nothing had happened.                                          *)
(***************************************************************************)
EXTENDS SQLiteResources, FiniteSets

CONSTANTS Threads,    \* the map's threads
          Stored,     \* the tiles the database has
          MaxCalls,   \* bound: calls of getTile
          MaxErrors   \* bound: queries that fail

ASSUME TileAssumption ==
    /\ Stored \subseteq Tiles /\ Tiles \cap {"none", "NO_TILE", "threw"} = {}
    /\ NULL \notin Threads
    /\ MaxCalls \in Nat /\ MaxErrors \in Nat

NO_COUNT == -1

VARIABLES
    load,         \* loadData: queued, the provider opening, built, published, or failed
    overlay,      \* the map has the tile overlay
    main,         \* the main thread: "run", or where onDestroy is
    mainRead,     \* what onDestroy has read from mWindow
    mWindow, mClosed, mPos, mCount,   \* the cursor's fields
    monitor,      \* who is in getTile
    cursorLock,   \* who is in a synchronized block of the cursor
    call,         \* for each of the map's threads, where it is and its locals
    calls, errors,   \* how many there may still be
    dead          \* the process died

loadVars == <<load, overlay>>
mainVars == <<main, mainRead>>
cursorVars == <<mWindow, mClosed, mPos, mCount>>
lockVars == <<monitor, cursorLock>>
boundVars == <<calls, errors>>

vars == <<resourceVars, loadVars, mainVars, cursorVars, lockVars, call, boundVars, dead>>

\* A thread that is in no call: where it goes on after fillWindow, after a query that failed
\* or after it has closed the database, what it has read from mWindow, the tile it wants,
\* what requery() returned (which getTile ignores), whether it has a session of the
\* database, whether an exception is on its way, and what its last call returned: a tile,
\* "NO_TILE", or "threw".
NoCall == [pc |-> "idle", then |-> "idle", read |-> NULL, want |-> NULL, requeried |-> FALSE,
           session |-> FALSE, failed |-> FALSE, outcome |-> "none"]

Init ==
    /\ ResourceInit
    /\ load = "none" /\ overlay = FALSE
    /\ main = "run" /\ mainRead = NULL
    /\ mWindow = NULL /\ mClosed = FALSE /\ mPos = -1 /\ mCount = NO_COUNT
    /\ monitor = NULL /\ cursorLock = NULL
    /\ call = [t \in Threads |-> NoCall]
    /\ calls = MaxCalls /\ errors = MaxErrors
    /\ dead = FALSE

-----------------------------------------------------------------------------
(* Loading *)

\* onMapReady starts loadData.
loadData ==
    /\ main = "run" /\ load = "none"
    /\ load' = "queued"
    /\ UNCHANGED <<resourceVars, overlay>>

\* async(IO) runs unless it was cancelled before; the database opens or it does not.
OpenDatabase ==
    /\ load = "queued" /\ main # "destroyed"
    /\ \/ openDatabase /\ load' = "opening" /\ UNCHANGED <<windowVars, queryVars>>
       \/ load' = "failed" /\ UNCHANGED resourceVars
    /\ UNCHANGED overlay

\* The rest of the constructor: the query is prepared and the metadata read.  When that
\* throws nobody has the database to close it, but a metadata query that finds it corrupt
\* has closed it.  (A database that is corrupt when it is opened does not open.)
BuildProvider ==
    /\ load = "opening"
    /\ \/ load' = "built" /\ queryRefs' = 1 /\ UNCHANGED poolVars
       \/ load' = "failed" /\ UNCHANGED <<queryRefs, poolVars>>
       \/ /\ load' = "failed"
          /\ dbRefs' = 0 /\ dbOpen' = FALSE /\ mIsOpen' = FALSE /\ closeConnection
          /\ UNCHANGED queryRefs
    /\ UNCHANGED <<windowVars, mBindArgs, overlay>>

\* tileProvider.await() on the main thread, unless the scope was cancelled
Publish ==
    /\ load = "built" /\ main = "run"
    /\ load' = "published"
    /\ UNCHANGED <<resourceVars, overlay>>

\* addTileOverlay in showData
ShowTiles ==
    /\ load = "published" /\ main = "run" /\ ~overlay
    /\ overlay' = TRUE
    /\ UNCHANGED <<resourceVars, load>>

Loading ==
    /\ loadData \/ OpenDatabase \/ BuildProvider \/ Publish \/ ShowTiles
    /\ UNCHANGED <<mainVars, cursorVars, lockVars, call, boundVars, dead>>

-----------------------------------------------------------------------------
(* onDestroy and close(), on the main thread *)

AtMain(from, to) == main = from /\ main' = to

\* The map is destroyed first: it makes no further calls, but those it made go on.
onDestroy ==
    /\ main = "run"
    /\ main' = IF load = "published" THEN "close" ELSE "destroyed"
    /\ overlay' = FALSE
    /\ UNCHANGED <<resourceVars, mainRead, mWindow, mClosed>>

\* AbstractCursor.close: mClosed is set, then onDeactivateOrClose closes the window.
CloseCursor ==
    /\ AtMain("close", "test")
    /\ mClosed' = TRUE
    /\ UNCHANGED <<resourceVars, mainRead, mWindow, overlay>>

\* closeWindow: test, read, release, forget.
CloseWindowTest ==
    /\ main = "test"
    /\ main' = IF mWindow = NULL THEN "query" ELSE "read"
    /\ UNCHANGED <<resourceVars, mainRead, mWindow, mClosed, overlay>>

CloseWindowRead ==
    /\ mWindow # NULL
    /\ AtMain("read", "release")
    /\ mainRead' = mWindow
    /\ UNCHANGED <<resourceVars, mWindow, mClosed, overlay>>

CloseWindowRelease ==
    /\ AtMain("release", "forget")
    /\ releaseWindow(mainRead)
    /\ UNCHANGED <<queryVars, poolVars, mainRead, mWindow, mClosed, overlay>>

CloseWindowForget ==
    /\ AtMain("forget", "query")
    /\ mWindow' = NULL
    /\ UNCHANGED <<resourceVars, mainRead, mClosed, overlay>>

\* mQuery.close() in the cursor's synchronized block
CloseQuery ==
    /\ AtMain("query", "database")
    /\ cursorLock = NULL
    /\ releaseQuery
    /\ UNCHANGED <<windowVars, poolVars, mainRead, mWindow, mClosed, overlay>>

\* mDatabase.isOpen, then mDatabase.close: a tile thread may close it too, before or after.
CloseDatabaseTest ==
    /\ main = "database"
    /\ main' = IF dbOpen THEN "databaseRelease" ELSE "destroyed"
    /\ UNCHANGED <<resourceVars, mainRead, mWindow, mClosed, overlay>>

CloseDatabase ==
    /\ main = "databaseRelease"
    /\ releaseDatabase
    /\ main' = IF dbRefs = 1 THEN "dispose" ELSE "destroyed"
    /\ UNCHANGED <<windowVars, queryVars, mainRead, mWindow, mClosed, overlay>>

DisposeDatabase ==
    /\ AtMain("dispose", "pool")
    /\ disposeDatabase
    /\ UNCHANGED <<windowVars, queryVars, mainRead, mWindow, mClosed, overlay>>

\* The pool is closed; cancel() ends onDestroy.
ClosePool ==
    /\ AtMain("pool", "destroyed")
    /\ closePool
    /\ UNCHANGED <<windowVars, queryVars, mainRead, mWindow, mClosed, overlay>>

close ==
    /\ \/ CloseCursor \/ CloseWindowTest \/ CloseWindowRead \/ CloseWindowRelease
       \/ CloseWindowForget \/ CloseQuery \/ CloseDatabaseTest \/ CloseDatabase
       \/ DisposeDatabase \/ ClosePool
    /\ UNCHANGED <<load, mPos, mCount, lockVars, call, boundVars, dead>>

Destroy == onDestroy /\ UNCHANGED <<load, mPos, mCount, lockVars, call, boundVars, dead>>

\* A tile thread has closed the window since the test: the NullPointerException that leaves
\* onDestroy ends the app, before query and database are closed.
CloseWindowThrows ==
    /\ main = "read" /\ mWindow = NULL
    /\ dead' = TRUE
    /\ UNCHANGED <<resourceVars, loadVars, mainVars, cursorVars, lockVars, call, boundVars>>

-----------------------------------------------------------------------------
(* getTile: requery *)

At(t, label) == call[t].pc = label

Goto(t, label) == call' = [call EXCEPT ![t].pc = label]

\* An exception; getTile's callers get it.
Throws(t) == call' = [call EXCEPT ![t].pc = "leave", ![t].failed = TRUE]

\* An exception within fillWindow's try; the resources held are released on the way.
Fails(t, label) == call' = [call EXCEPT ![t].pc = label, ![t].failed = TRUE]

\* What mWindow is at this moment; calling it when it is null throws.
ReadWindow(t, label) ==
    IF mWindow = NULL THEN Throws(t)
    ELSE call' = [call EXCEPT ![t].pc = label, ![t].read = mWindow]

\* Mutant: getTile is not synchronized.
EnterUnsynchronized(t) ==
    /\ At(t, "enter")
    /\ monitor' = t
    /\ mBindArgs' = call[t].want
    /\ Goto(t, "requery")
    /\ UNCHANGED <<windowVars, queryRefs, poolVars, cursorVars, cursorLock>>

\* The monitor is entered and the query's arguments are bound.
Enter(t) ==
    /\ At(t, "enter") /\ monitor = NULL
    /\ monitor' = t
    /\ mBindArgs' = call[t].want
    /\ Goto(t, "requery")
    /\ UNCHANGED <<windowVars, queryRefs, poolVars, cursorVars, cursorLock>>

RequeryIfOpen(t) ==
    /\ At(t, "requery")
    /\ Goto(t, IF mClosed THEN "count" ELSE "lock")
    /\ UNCHANGED <<resourceVars, cursorVars, lockVars>>

\* The cursor's synchronized block: nothing is done if the database is closed.
RequeryLock(t) ==
    /\ At(t, "lock") /\ cursorLock = NULL
    /\ IF dbOpen THEN cursorLock' = t /\ Goto(t, "clearTest")
       ELSE UNCHANGED cursorLock /\ Goto(t, "count")
    /\ UNCHANGED <<resourceVars, cursorVars, monitor>>

ClearTest(t) ==
    /\ At(t, "clearTest")
    /\ Goto(t, IF mWindow = NULL THEN "reset" ELSE "clearRead")
    /\ UNCHANGED <<resourceVars, cursorVars, lockVars>>

ClearRead(t) ==
    /\ At(t, "clearRead")
    /\ ReadWindow(t, "clearUse")
    /\ cursorLock' = IF mWindow = NULL THEN NULL ELSE cursorLock
    /\ UNCHANGED <<resourceVars, cursorVars, monitor>>

ClearUse(t) ==
    /\ At(t, "clearUse")
    /\ ClearWindow(call[t].read)
    /\ Goto(t, "reset")
    /\ UNCHANGED <<queryVars, poolVars, cursorVars, lockVars>>

\* Position and count are forgotten.
Reset(t) ==
    /\ At(t, "reset")
    /\ mPos' = -1 /\ mCount' = NO_COUNT
    /\ cursorLock' = NULL
    /\ call' = [call EXCEPT ![t].pc = "count", ![t].requeried = TRUE]
    /\ UNCHANGED <<resourceVars, mWindow, mClosed, monitor>>

requery(t) ==
    RequeryIfOpen(t) \/ RequeryLock(t) \/ ClearTest(t) \/ ClearRead(t) \/ ClearUse(t) \/ Reset(t)

-----------------------------------------------------------------------------
(* getTile: fillWindow *)

\* clearOrCreateWindow
FillTest(t) ==
    /\ At(t, "fillTest")
    /\ \/ /\ mWindow = NULL
          /\ \E w \in Windows :
                /\ \A v \in Windows : native[v] = "none" => w <= v
                /\ CreateWindow(w)
                /\ mWindow' = w
          /\ Goto(t, "fillArgument")
       \/ /\ mWindow # NULL
          /\ Goto(t, "fillRead")
          /\ UNCHANGED <<windowVars, mWindow>>
    /\ UNCHANGED <<queryVars, poolVars, mClosed, mPos, mCount, lockVars>>

FillRead(t) ==
    /\ At(t, "fillRead")
    /\ ReadWindow(t, "fillUse")
    /\ UNCHANGED <<resourceVars, cursorVars, lockVars>>

FillUse(t) ==
    /\ At(t, "fillUse")
    /\ ClearWindow(call[t].read)
    /\ Goto(t, "fillArgument")
    /\ UNCHANGED <<queryVars, poolVars, cursorVars, lockVars>>

\* SQLiteQuery.fillWindow(mWindow, ...): its argument is read, it may be null by now.
FillArgument(t) ==
    /\ At(t, "fillArgument")
    /\ call' = [call EXCEPT ![t].pc = "acquireQuery", ![t].read = mWindow]
    /\ UNCHANGED <<resourceVars, cursorVars, lockVars>>

AcquireQuery(t) ==
    /\ At(t, "acquireQuery")
    /\ \/ acquireQuery /\ Goto(t, "acquireWindow")
       \/ queryRefs <= 0 /\ Fails(t, "catch") /\ UNCHANGED queryVars
    /\ UNCHANGED <<windowVars, poolVars, cursorVars, lockVars>>

AcquireWindow(t) ==
    LET w == call[t].read IN
    /\ At(t, "acquireWindow")
    /\ \/ w # NULL /\ acquireWindow(w) /\ Goto(t, "session")
       \/ w = NULL /\ Fails(t, "releaseQuery") /\ UNCHANGED windowVars
       \/ w # NULL /\ windowRefs[w] <= 0 /\ Fails(t, "releaseQuery") /\ UNCHANGED windowVars
    /\ UNCHANGED <<queryVars, poolVars, cursorVars, lockVars>>

\* The thread's session, made on its first query: that throws if the database is closed.
GetSession(t) ==
    /\ At(t, "session")
    /\ \/ /\ call[t].session \/ dbOpen
          /\ call' = [call EXCEPT ![t].pc = "acquireConnection", ![t].session = TRUE]
       \/ ~call[t].session /\ ~dbOpen /\ Fails(t, "releaseWindow")
    /\ UNCHANGED <<resourceVars, cursorVars, lockVars>>

AcquireConnection(t) ==
    /\ At(t, "acquireConnection")
    /\ \/ acquireConnection /\ Goto(t, "execute")
       \/ ~mIsOpen /\ Fails(t, "releaseWindow") /\ UNCHANGED poolVars
    /\ UNCHANGED <<windowVars, queryVars, cursorVars, lockVars>>

\* SQLiteConnection.executeForCursorWindow counts a reference of its own.
Execute(t) ==
    /\ At(t, "execute")
    /\ acquireWindow(call[t].read)
    /\ Goto(t, "filling")
    /\ UNCHANGED <<queryVars, poolVars, cursorVars, lockVars>>

\* nativeExecuteForCursorWindow
Fill(t) ==
    LET w == call[t].read IN
    /\ At(t, "filling")
    /\ holds' = [holds EXCEPT ![w] = IF mBindArgs \in Stored THEN mBindArgs ELSE NULL]
    /\ Goto(t, "filled")
    /\ UNCHANGED <<native, windowRefs, queryVars, poolVars, cursorVars, lockVars>>

\* Mutant: the connection is not given back after a query that failed.
FilledLeaksConnection(t) ==
    /\ At(t, "filled")
    /\ releaseWindow(call[t].read)
    /\ Goto(t, IF call[t].failed THEN "releaseWindow" ELSE "releaseConnection")
    /\ UNCHANGED <<queryVars, poolVars, cursorVars, lockVars>>

\* The connection's reference is given back in a finally block.
Filled(t) ==
    /\ At(t, "filled")
    /\ releaseWindow(call[t].read)
    /\ Goto(t, "releaseConnection")
    /\ UNCHANGED <<queryVars, poolVars, cursorVars, lockVars>>

\* Behind it fillWindow's handlers are told apart: that of a corrupt database does more than
\* pass the exception on.
ReleaseConnection(t) ==
    /\ At(t, "releaseConnection")
    /\ releaseConnection
    /\ Goto(t, IF call[t].failed THEN call[t].then ELSE "releaseWindow")
    /\ UNCHANGED <<windowVars, queryVars, cursorVars, lockVars>>

ReleaseWindow(t) ==
    /\ At(t, "releaseWindow")
    /\ releaseWindow(call[t].read)
    /\ Goto(t, "releaseQuery")
    /\ UNCHANGED <<queryVars, poolVars, cursorVars, lockVars>>

\* Mutant: the query's reference is not given back after a failure.
ReleaseQueryUnlessFailed(t) ==
    /\ At(t, "releaseQuery")
    /\ IF call[t].failed THEN UNCHANGED queryVars ELSE releaseQuery
    /\ Goto(t, IF call[t].failed THEN "catch" ELSE "counting")
    /\ UNCHANGED <<windowVars, poolVars, cursorVars, lockVars>>

ReleaseQuery(t) ==
    /\ At(t, "releaseQuery")
    /\ releaseQuery
    /\ Goto(t, IF call[t].failed THEN "catch" ELSE "counting")
    /\ UNCHANGED <<windowVars, poolVars, cursorVars, lockVars>>

\* The first fill after a requery counts the rows and looks at the window's capacity.
Counting(t) ==
    /\ At(t, "counting")
    /\ IF mCount = NO_COUNT
       THEN mCount' = (IF holds[call[t].read] = NULL THEN 0 ELSE 1) /\ Goto(t, "capacityRead")
       ELSE Goto(t, call[t].then) /\ UNCHANGED mCount
    /\ UNCHANGED <<resourceVars, mWindow, mClosed, mPos, lockVars>>

CapacityRead(t) ==
    /\ At(t, "capacityRead")
    /\ IF mWindow = NULL THEN Fails(t, "catch") ELSE ReadWindow(t, "capacityUse")
    /\ UNCHANGED <<resourceVars, cursorVars, lockVars>>

CapacityUse(t) ==
    /\ At(t, "capacityUse")
    /\ Goto(t, call[t].then)
    /\ UNCHANGED <<resourceVars, cursorVars, lockVars>>

\* The handler of fillWindow: setWindow(null) closes the window, the exception goes on.
Catch(t) ==
    /\ At(t, "catch")
    /\ IF mWindow = NULL THEN mCount' = NO_COUNT /\ Goto(t, "leave")
       ELSE Goto(t, "catchRead") /\ UNCHANGED mCount
    /\ UNCHANGED <<resourceVars, mWindow, mClosed, mPos, lockVars>>

CatchRead(t) ==
    /\ At(t, "catchRead")
    /\ ReadWindow(t, "catchRelease")
    /\ UNCHANGED <<resourceVars, cursorVars, lockVars>>

CatchRelease(t) ==
    /\ At(t, "catchRelease")
    /\ releaseWindow(call[t].read)
    /\ Goto(t, "catchForget")
    /\ UNCHANGED <<queryVars, poolVars, cursorVars, lockVars>>

CatchForget(t) ==
    /\ At(t, "catchForget")
    /\ mWindow' = NULL /\ mCount' = NO_COUNT
    /\ Goto(t, "leave")
    /\ UNCHANGED <<resourceVars, mClosed, mPos, lockVars>>

-----------------------------------------------------------------------------
(* fillWindow: onCorruption, between the query that failed and the release of the window *)

\* onCorruption: a database somebody has closed already is left alone.  (The handler also
\* deletes the file of the database; the asset it was opened from has none.)
OnCorruption(t) ==
    /\ At(t, "onCorruption")
    /\ Goto(t, IF dbOpen THEN "attached" ELSE "releaseWindow")
    /\ UNCHANGED <<resourceVars, cursorVars, lockVars>>

\* getAttachedDbs: nothing is listed if the database has been closed since.  Where its last
\* reference was given up and the pool not yet taken, acquireReference throws, past close().
GetAttachedDbs(t) ==
    /\ At(t, "attached")
    /\ \/ dbOpen /\ acquireDatabase /\ Goto(t, "prepare")
       \/ dbOpen /\ dbRefs <= 0 /\ Goto(t, "releaseWindow") /\ UNCHANGED poolVars
       \/ ~dbOpen /\ Goto(t, "closeDatabase") /\ UNCHANGED poolVars
    /\ UNCHANGED <<windowVars, queryVars, cursorVars, lockVars>>

\* Its pragma borrows the connection to be prepared and again to be run, which the reference
\* of the database keeps possible.  (Its cursor, window and query are its own.)
PragmaBorrows(t, from, to) ==
    /\ At(t, from)
    /\ acquireConnection
    /\ Goto(t, to)
    /\ UNCHANGED <<windowVars, queryVars, cursorVars, lockVars>>

\* Mutant: the reference of the database is not given back when the pragma fails.
PragmaLeaksDatabase(t) ==
    /\ At(t, "preparing")
    /\ releaseConnection
    /\ Goto(t, "prepared") \/ Goto(t, "closeDatabase")
    /\ UNCHANGED <<windowVars, queryVars, cursorVars, lockVars>>

\* What it throws is ignored by the handler.
PragmaPrepared(t) ==
    /\ At(t, "preparing")
    /\ releaseConnection
    /\ Goto(t, "prepared") \/ Goto(t, "detach")
    /\ UNCHANGED <<windowVars, queryVars, cursorVars, lockVars>>

PragmaListed(t) ==
    /\ At(t, "listing")
    /\ releaseConnection
    /\ Goto(t, "detach")
    /\ UNCHANGED <<windowVars, queryVars, cursorVars, lockVars>>

\* The reference getAttachedDbs counted, then the one close() gives up for good; either may
\* be the last, if the main thread closes the database as well.
GiveUpDatabase(t, from, next) ==
    /\ At(t, from)
    /\ releaseDatabase
    /\ call' = [call EXCEPT ![t].pc = IF dbRefs = 1 THEN "dispose" ELSE next, ![t].then = next]
    /\ UNCHANGED <<windowVars, queryVars, cursorVars, lockVars>>

Dispose(t) ==
    /\ At(t, "dispose")
    /\ disposeDatabase
    /\ Goto(t, "disposePool")
    /\ UNCHANGED <<windowVars, queryVars, cursorVars, lockVars>>

DisposePool(t) ==
    /\ At(t, "disposePool")
    /\ closePool
    /\ Goto(t, call[t].then)
    /\ UNCHANGED <<windowVars, queryVars, cursorVars, lockVars>>

onCorruption(t) ==
    \/ OnCorruption(t) \/ GetAttachedDbs(t)
    \/ PragmaBorrows(t, "prepare", "preparing") \/ PragmaPrepared(t)
    \/ PragmaBorrows(t, "prepared", "listing") \/ PragmaListed(t)
    \/ GiveUpDatabase(t, "detach", "closeDatabase")
    \/ GiveUpDatabase(t, "closeDatabase", "releaseWindow")
    \/ Dispose(t) \/ DisposePool(t)

fillWindow(t) ==
    \/ FillTest(t) \/ FillRead(t) \/ FillUse(t) \/ FillArgument(t)
    \/ AcquireQuery(t) \/ AcquireWindow(t) \/ GetSession(t) \/ AcquireConnection(t)
    \/ Execute(t) \/ Fill(t) \/ Filled(t)
    \/ ReleaseConnection(t) \/ onCorruption(t) \/ ReleaseWindow(t) \/ ReleaseQuery(t)
    \/ Counting(t) \/ CapacityRead(t) \/ CapacityUse(t)
    \/ Catch(t) \/ CatchRead(t) \/ CatchRelease(t) \/ CatchForget(t)

-----------------------------------------------------------------------------
(* getTile: moveToPosition(0) and getBlob(0) *)

getCount(t) ==
    /\ At(t, "count")
    /\ call' = [call EXCEPT ![t].pc = IF mCount = NO_COUNT THEN "fillTest" ELSE "counted",
                            ![t].then = "counted"]
    /\ UNCHANGED <<resourceVars, cursorVars, lockVars>>

Counted(t) ==
    /\ At(t, "counted")
    /\ IF mCount = 0
       THEN mPos' = 0 /\ call' = [call EXCEPT ![t].pc = "leave", ![t].outcome = "NO_TILE"]
       ELSE Goto(t, IF mPos = 0 THEN "blobTest" ELSE "moveTest") /\ UNCHANGED mPos
    /\ UNCHANGED <<resourceVars, mWindow, mClosed, mCount, lockVars>>

\* onMove: the window is filled again unless it has the row.
MoveTest(t) ==
    /\ At(t, "moveTest")
    /\ call' = [call EXCEPT ![t].pc = IF mWindow = NULL THEN "fillTest" ELSE "moveRead",
                            ![t].then = "moved"]
    /\ UNCHANGED <<resourceVars, cursorVars, lockVars>>

MoveRead(t) ==
    /\ At(t, "moveRead")
    /\ ReadWindow(t, "moveUse")
    /\ UNCHANGED <<resourceVars, cursorVars, lockVars>>

MoveUse(t) ==
    /\ At(t, "moveUse")
    /\ Goto(t, IF holds[call[t].read] = NULL THEN "fillTest" ELSE "moved")
    /\ UNCHANGED <<resourceVars, cursorVars, lockVars>>

Moved(t) ==
    /\ At(t, "moved")
    /\ mPos' = 0
    /\ Goto(t, "blobTest")
    /\ UNCHANGED <<resourceVars, mWindow, mClosed, mCount, lockVars>>

\* getBlob: checkPosition throws if the window is gone.
BlobTest(t) ==
    /\ At(t, "blobTest")
    /\ IF mWindow = NULL THEN Throws(t) ELSE Goto(t, "blobRead")
    /\ UNCHANGED <<resourceVars, cursorVars, lockVars>>

BlobRead(t) ==
    /\ At(t, "blobRead")
    /\ ReadWindow(t, "blobUse")
    /\ UNCHANGED <<resourceVars, cursorVars, lockVars>>

\* nativeGetBlob throws if the window has no such row.
BlobUse(t) ==
    /\ At(t, "blobUse")
    /\ IF holds[call[t].read] = NULL THEN Throws(t)
       ELSE call' = [call EXCEPT ![t].pc = "leave", ![t].outcome = holds[call[t].read]]
    /\ UNCHANGED <<resourceVars, cursorVars, lockVars>>

\* The monitor is given back, whatever the outcome.
Leave(t) ==
    /\ At(t, "leave")
    /\ monitor' = NULL
    /\ call' = [call EXCEPT ![t] =
                  [NoCall EXCEPT !.session = call[t].session,
                                 !.want = call[t].want, !.requeried = call[t].requeried,
                                 !.outcome = IF call[t].failed THEN "threw" ELSE call[t].outcome]]
    /\ UNCHANGED <<resourceVars, cursorVars, cursorLock>>

moveToPosition(t) ==
    getCount(t) \/ Counted(t) \/ MoveTest(t) \/ MoveRead(t) \/ MoveUse(t) \/ Moved(t)

getBlob(t) == BlobTest(t) \/ BlobRead(t) \/ BlobUse(t)

getTile(t) ==
    /\ Enter(t) \/ requery(t) \/ moveToPosition(t) \/ fillWindow(t) \/ getBlob(t) \/ Leave(t)
    /\ UNCHANGED <<loadVars, mainVars, boundVars, dead>>

-----------------------------------------------------------------------------
(* The map, SQLite, and undefined behaviour *)

\* The map asks for a tile from one of its threads.
AskTile(t, tile) ==
    /\ overlay /\ calls > 0 /\ At(t, "idle")
    /\ calls' = calls - 1
    /\ call' = [call EXCEPT ![t] = [NoCall EXCEPT !.pc = "enter", !.want = tile,
                                                  !.session = call[t].session]]
    /\ UNCHANGED <<resourceVars, loadVars, mainVars, cursorVars, lockVars, errors, dead>>

\* The query fails: SQLite cannot read the file, or finds that it is no database.
FillFails(t) ==
    /\ At(t, "filling") /\ errors > 0
    /\ errors' = errors - 1
    /\ \E next \in {"releaseWindow", "onCorruption"} :
          call' = [call EXCEPT ![t].pc = "filled", ![t].then = next, ![t].failed = TRUE]
    /\ UNCHANGED <<resourceVars, loadVars, mainVars, cursorVars, lockVars, calls, dead>>

\* Where a thread is about to call a native method on the window it has read.
UseLabels == {"clearUse", "fillUse", "filling", "capacityUse", "moveUse", "blobUse"}

Uses(t) == call[t].pc \in UseLabels

\* A native method on a window that was disposed of ends the process, if it does not pass.
UseDisposed(t) ==
    /\ Uses(t) /\ native[call[t].read] = "disposed"
    /\ dead' = TRUE
    /\ UNCHANGED <<resourceVars, loadVars, mainVars, cursorVars, lockVars, call, boundVars>>

Next ==
    /\ ~dead
    /\ \/ Loading \/ Destroy \/ close \/ CloseWindowThrows
       \/ \E t \in Threads :
            \/ getTile(t) \/ FillFails(t) \/ UseDisposed(t)
            \/ \E tile \in Tiles : AskTile(t, tile)

Spec == Init /\ [][Next]_vars

\* Threads run; the main thread, once in onDestroy, ends it.
FairSpec ==
    /\ Spec
    /\ WF_vars(~dead /\ (close \/ CloseWindowThrows))
    /\ \A t \in Threads : WF_vars(~dead /\ (getTile(t) \/ UseDisposed(t)))

-----------------------------------------------------------------------------
(* Properties *)

\* Every variable has its type.
TypeOK ==
    /\ native \in [Windows -> {"none", "live", "disposed"}]
    /\ windowRefs \in [Windows -> Int] /\ queryRefs \in -1 .. 2
    /\ holds \in [Windows -> Stored \cup {NULL}]
    /\ mBindArgs \in Tiles \cup {NULL}
    /\ dbRefs \in Int /\ connection \in {"none", "available", "acquired", "closed"}
    /\ load \in {"none", "queued", "opening", "built", "published", "failed"}
    /\ mWindow \in Windows \cup {NULL}
    /\ mCount \in {NO_COUNT, 0, 1} /\ mPos \in {-1, 0}
    /\ monitor \in Threads \cup {NULL} /\ cursorLock \in Threads \cup {NULL}
    /\ \A t \in Threads : call[t].read \in Windows \cup {NULL}

\* Where a thread has a connection.
Connected == {"execute", "filling", "filled", "releaseConnection", "preparing", "listing"}

\* Where it is in the handler of a corrupt database.
InHandler == {"onCorruption", "attached", "prepare", "preparing", "prepared", "listing",
              "detach", "closeDatabase", "dispose", "disposePool"}

\* While a query runs, the pragma of the error handler included, nobody closes the
\* connection it runs on or the asset that is read, though close() on the main thread does
\* not wait for it and the handler on a tile thread closes the same database.
ConnectionOpenWhileUsed ==
    \A t \in Threads : call[t].pc \in Connected => connection = "acquired" /\ asset

\* While SQLite fills a window, nobody disposes of it: the references the query and the
\* connection count outlive close().
FilledWindowIsHeld ==
    \A t \in Threads :
        call[t].pc \in Connected \cup InHandler
                        \cup {"session", "acquireConnection", "releaseWindow"}
        => native[call[t].read] = "live"

\* When the provider was published, onDestroy is over and no tile is on its way, the
\* connection and its asset are closed, by whichever thread was last: close() or the error
\* handler, or a query that gave the connection back to a pool they had closed.
ClosedInTheEnd ==
    load = "published" /\ main = "destroyed" /\ ~dead /\ (\A t \in Threads : At(t, "idle"))
    => connection = "closed" /\ ~asset

\* A tile is the one that was asked for: the query's arguments and the cursor belong to one
\* call at a time.  (A call that finds the cursor closed does not run its query; see the
\* README on what it returns.)
TileIsTheOneAsked ==
    \A t \in Threads :
        call[t].requeried /\ call[t].outcome \in Tiles => call[t].outcome = call[t].want

\* Every call of getTile ends, and so does onDestroy: nobody waits for a monitor, a lock
\* or a connection that is not given back.
CallsEnd ==
    /\ \A t \in Threads : ~At(t, "idle") ~> At(t, "idle") \/ dead
    /\ main = "close" ~> main = "destroyed" \/ dead

\* A corrupt database is closed by the handler or by close() on the main thread, whichever
\* of their references is the last to be given up.
CorruptDatabaseCloses ==
    \A t \in Threads : At(t, "onCorruption") ~> ~mIsOpen \/ dead

\* "code using a SQLiteCursor from multiple threads should perform its own synchronization"
\* (SQLiteCursor.java): no thread uses a window that another one has disposed of.
UsesLiveWindow == \A t \in Threads : Uses(t) => native[call[t].read] = "live"

============================================================================
