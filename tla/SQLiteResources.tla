--------------------------- MODULE SQLiteResources ---------------------------
(***************************************************************************)
(* What stands behind the cursor of the offline map: its windows, its      *)
(* query and its database, counted by SQLiteClosable.java; the connection  *)
(* pool and its one connection (SQLiteDatabase, SQLiteConnectionPool and   *)
(* SQLiteConnection .java, nativeOpen and nativeClose); and the asset the  *)
(* connection reads, opened by the VFS of cpp/sqlite3ndk.cpp.              *)
(*                                                                         *)
(* The database is opened read-only and without write-ahead logging, so    *)
(* the pool has one connection.  Each operator is one synchronized block   *)
(* or one native call.                                                     *)
(***************************************************************************)
EXTENDS Integers

CONSTANTS Windows,   \* bound: the CursorWindow objects that may be created
          Tiles,     \* the arguments of a query, the coordinates of a tile
          NULL

ASSUME ResourceAssumption == NULL \notin Windows \cup Tiles

VARIABLES
    native,       \* the native window behind each object: none yet, live or disposed
    windowRefs,   \* mReferenceCount of each window
    holds,        \* the tile whose row each window holds, NULL for no row
    queryRefs,    \* mReferenceCount of the query
    mBindArgs,    \* its arguments
    dbRefs,       \* mReferenceCount of the database
    dbOpen,       \* the database has its pool (mConnectionPoolLocked)
    mIsOpen,      \* the pool is open
    connection,   \* the connection: none, available, acquired or closed
    asset         \* the VFS has the asset open

windowVars == <<native, windowRefs, holds>>
queryVars == <<queryRefs, mBindArgs>>
poolVars == <<dbRefs, dbOpen, mIsOpen, connection, asset>>
resourceVars == <<windowVars, queryVars, poolVars>>

ResourceInit ==
    /\ native = [w \in Windows |-> "none"]
    /\ windowRefs = [w \in Windows |-> 0]
    /\ holds = [w \in Windows |-> NULL]
    /\ queryRefs = 0 /\ mBindArgs = NULL
    /\ dbRefs = 0 /\ dbOpen = FALSE
    /\ mIsOpen = FALSE /\ connection = "none" /\ asset = FALSE

-----------------------------------------------------------------------------
(* Windows and the query *)

\* new CursorWindow: the native window is created, the object counts one reference.
CreateWindow(w) ==
    /\ native[w] = "none"
    /\ native' = [native EXCEPT ![w] = "live"]
    /\ windowRefs' = [windowRefs EXCEPT ![w] = 1]
    /\ UNCHANGED holds

\* nativeClear
ClearWindow(w) ==
    /\ holds' = [holds EXCEPT ![w] = NULL]
    /\ UNCHANGED <<native, windowRefs>>

\* Mutant: the reference is not counted.
acquireUncounted(w) ==
    /\ windowRefs[w] > 0
    /\ UNCHANGED <<windowRefs, native, holds>>

\* acquireReference; where the guard does not hold, it throws.
acquireWindow(w) ==
    /\ windowRefs[w] > 0
    /\ windowRefs' = [windowRefs EXCEPT ![w] = @ + 1]
    /\ UNCHANGED <<native, holds>>

\* releaseReference: the last one disposes of the native window; a further one does not.
releaseWindow(w) ==
    /\ windowRefs' = [windowRefs EXCEPT ![w] = @ - 1]
    /\ native' = IF windowRefs[w] = 1 THEN [native EXCEPT ![w] = "disposed"] ELSE native
    /\ UNCHANGED holds

acquireQuery == queryRefs > 0 /\ queryRefs' = queryRefs + 1 /\ UNCHANGED mBindArgs

\* The last reference clears the bindings.
releaseQuery ==
    /\ queryRefs' = queryRefs - 1
    /\ mBindArgs' = IF queryRefs = 1 THEN NULL ELSE mBindArgs

-----------------------------------------------------------------------------
(* The database and its connection *)

\* ndkOpen: the asset is opened and its buffer mapped, or the open fails: another kind of
\* file or of access than reading the database, no such asset, no memory for its buffer.
\* An asset without a buffer is closed again.
ndkOpen(ok) == asset' = ok

\* ndkFileClose
ndkFileClose == asset' = FALSE

\* SQLiteDatabase.open: the pool opens its primary connection, and with it the file.
openDatabase ==
    /\ ndkOpen(TRUE)
    /\ connection' = "available"
    /\ mIsOpen' = TRUE /\ dbOpen' = TRUE /\ dbRefs' = 1

\* SQLiteConnection.close: the cached statements are finalized, nativeClose closes the
\* database and with it the file.
closeConnection == connection' = "closed" /\ ndkFileClose

\* waitForConnection: throws if the pool is closed.  The provider's monitor lets one thread
\* at a time ask, so the connection is there.
acquireConnection ==
    /\ mIsOpen /\ connection = "available"
    /\ connection' = "acquired"
    /\ UNCHANGED <<dbRefs, dbOpen, mIsOpen, asset>>

\* Mutant: a connection that comes back to a closed pool is kept.
releaseKeepsConnection ==
    /\ connection' = "available"
    /\ UNCHANGED <<dbRefs, dbOpen, mIsOpen, asset>>

\* releaseConnection: back to the pool, or closed if the pool is closed by now.
releaseConnection ==
    /\ IF mIsOpen THEN connection' = "available" /\ UNCHANGED asset ELSE closeConnection
    /\ UNCHANGED <<dbRefs, dbOpen, mIsOpen>>

\* acquireReference and releaseReference; the one that brings the count to zero goes on to
\* dispose of the database.
acquireDatabase ==
    /\ dbRefs > 0
    /\ dbRefs' = dbRefs + 1
    /\ UNCHANGED <<dbOpen, mIsOpen, connection, asset>>

releaseDatabase ==
    /\ dbRefs' = dbRefs - 1
    /\ UNCHANGED <<dbOpen, mIsOpen, connection, asset>>

\* SQLiteDatabase.dispose takes the pool from the database, then closes it.
disposeDatabase ==
    /\ dbOpen' = FALSE
    /\ UNCHANGED <<dbRefs, mIsOpen, connection, asset>>

\* Mutant: the pool closes the connection it lent, too.
closePoolAtOnce ==
    /\ mIsOpen' = FALSE
    /\ closeConnection
    /\ UNCHANGED <<dbRefs, dbOpen>>

\* SQLiteConnectionPool.dispose: a connection in use is left to releaseConnection.
closePool ==
    /\ mIsOpen' = FALSE
    /\ IF connection = "available" THEN closeConnection ELSE UNCHANGED <<connection, asset>>
    /\ UNCHANGED <<dbRefs, dbOpen>>

============================================================================
