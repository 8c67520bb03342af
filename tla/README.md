# A TLA+ model of openpyn-nordvpn-juiceSSH

The app runs `openpyn` (a NordVPN client) on a router through an SSH session that the
JuiceSSH app opens for it, shows servers on a map, and follows the OpenVPN daemon on the
router through its management interface. This directory holds TLA+ modules of the parts of
the app that carry state across threads, callbacks and failures, TLC configurations that
check them on small instances, and proofs, checked by TLAPS, that the most important
properties hold for all instances.

Paths below are relative to `src/app/src/main/`.

## 1. Inventory

| component | sources | state it keeps | operations |
|---|---|---|---|
| Management connection | `java/.../openvpnmgmt/net/AbstractConnection.java`, `ManagementConnection.java` | socket, reader, writer (three plain fields), `isRunning`, `mLastLevel`, last state, listeners | `connect`, `run`, `stopOpenVPN`, `executeCommand`, `processState/Hold/Password/ByteCount`, `disconnect`, `close` |
| OpenVPN service and stop dialog | `java/.../android/core/OpenVPNService.java`, `android/activities/DisconnectVPN.java`, `android/VPNLaunchHelper.java` | Android lifecycle, notification, the two display flags | `onCreate`, `onStartCommand`, `onDestroy`, callbacks of the connection, `onClick` |
| VPN states and levels | `java/.../core/VpnStatus.java`, `ConnectionStatus.java` | none | `getLevel` |
| OpenVPN daemon | external | client, VPN state, queue of commands | accept, answer, report, hang up, restart |
| SSH session manager | `kotlin/.../nvidiagpumonitor/ConnectionManager.kt`, `controllers/*.kt`, `kotlin/.../openpyn/MainActivity.kt` | session id and key, "toggle under way", controller fields, threads of `connect()` and `disconnect()` | clicks, dialog, callbacks of JuiceSSH, `toggleConnection`, `start`, `kill`, `onDestroy` |
| JuiceSSH | external | sessions, listeners, binding | open, close, cancel, die |
| Command output of openpyn | `controllers/OpenpynController.kt` | a text buffer | `onOutputLine` |
| Traffic history | `java/.../openvpnmgmt/core/TrafficHistory.java`, `implementation/ByteCountManager.java` | three sliding windows | `add`, `removeAndAverage` |
| Status and client parsers | `java/.../implementation/OpenVpnStatus.java` and others | none | constructors |
| Credential escaping | `java/.../utils/StringUtils.java` | none | `escapeOpenVPN` |
| Credential storage | `kotlin/.../security/*` | platform key store | encrypt, decrypt |
| Map control tower, camera animator | `kotlin/.../openpyn/map/MapControlTower.kt`, `MapViews.kt`, `java/com/antoniocarlon/map/CameraUpdateAnimator.java`, `java/com/androidmapsextensions/lazy/LazyMarker.java` | camera queue, gesture flags, idle listener, markers (level, zIndex, visible), buttons | clicks, animation callbacks, idle events, location requests, session callbacks |
| Google map | external | camera, listeners, gestures | move, come to rest, react to clicks |
| Favourites and country filter storage | `kotlin/.../openpyn/utils/MyStorage.kt`, `LazyMarkerStorage.kt`, `PrintArray.kt` | two preferences | add, remove, load; choose countries |
| Network information | `kotlin/.../openpyn/utils/NetworkInfo.kt` | online flag (LiveData: a value and a posted one) | network callbacks, host test, `isOnline` |
| Server list | `kotlin/.../openpyn/Utilities.kt`, `utils/Common.kt`, `map/Utilities.kt` | a JSON file | refresh (download, write in place), first copy, load |
| Offline tile provider | `java/com/cocoahero/.../MapBoxOfflineTileProvider.java`, `MapControlTower.kt` | database, query, cursor | constructor, `getTile`, `close` |
| Cursor and cursor window | `java/io/requery/android/database/` (`SQLiteCursor`, `AbstractCursor`, `AbstractWindowedCursor`, `CursorWindow`), `jni/sqlite-android/CursorWindow.cpp` and `.h`, `android_database_CursorWindow.cpp` | position, count, capacity; a block of bytes with rows, directories and buffers | `moveToPosition`, `requery`, `getBlob`, fill, `allocRow`, `put...`, `get...` |
| SQLite connection and pool | `java/io/requery/.../sqlite/` (`SQLiteConnectionPool`, `SQLiteConnection`, `SQLiteSession`, `SQLiteDatabase`, `SQLiteClosable`, `SQLiteQuery`), `android_database_SQLiteConnection.cpp` | reference counts, the pool's open flag, one connection | open, acquire, release, execute, close |
| Asset VFS | `cpp/sqlite3ndk.cpp` | an open asset | open, close, read |
| Settings, about, onboarding | `kotlin/.../openpyn/...` | preferences | platform user interface |
| Vendored libraries | SQLite itself (three times), sqlite4java, `org.sqlite`, collections | | third-party code |

How they interact:

- **The service owns the connection, the connection calls the service.** Each
  `onStartCommand` starts a thread that runs `connect()`; `connect()` calls back
  `onConnected`, which starts the management thread with `run()`. Confirming the stop dialog
  starts a third thread with `stopOpenVPN()`. `onDisconnected` and `onConnectError` stop the
  service from whichever thread noticed. No field of the connection is protected by a lock.
  What mutual exclusion there is comes from the monitor inside `BufferedReader`, which
  `readLine` holds while it blocks.
- **Two threads read one stream.** `connect()` sends the `state` command and reads lines
  until `END`; `run()` reads events from the same reader. Each may take lines meant for the
  other.
- **The session manager is driven by two apps.** Clicks come from the user, `onSessionStarted`,
  `onSessionCancelled` and `onSessionFinished` from JuiceSSH, and the thread of
  `disconnect()` acts five seconds late on fields the main thread may have changed.
- **The controller remembers, the preferences change.** `OpenpynController.start` reads the
  preferences and keeps two fields; `kill` uses the fields.

- **Three parties change the map.** The animator takes the camera's idle listener and the
  gestures away and gives them back; session callbacks set the same gestures and the click
  listeners; idle events deselect markers that have left the screen. All of it runs on the
  main thread, in an order set by the user, the camera, JuiceSSH and a location service.
- **The selected marker is a `zIndex`.** The dialog reads it when the user clicks, the
  controller reads it again when the session has started.
- **Tiles are asked for on foreign threads.** The map calls `getTile` from threads of its own,
  `loadData` builds the provider on an IO thread, `onDestroy` closes it on the main thread.
  `getTile` is synchronized and `close` is not. Query, window, database and connection are kept
  alive by reference counts and by the pool, the cursor's fields by nothing.
- **A database has two closers.** A tile thread whose query finds the database corrupt runs
  `DefaultDatabaseErrorHandler.onCorruption` inside `fillWindow`: it lists the attached databases
  with a pragma on the same connection and closes the database, on its own thread, whether or not
  `close()` is doing so on the main thread.
- **One file, three users.** Each refresh and each load of the server list runs on a thread of
  its own; both write the file in place and nothing keeps them apart. A refresh asks `isOnline`,
  which the thread of the connectivity manager feeds after a test that blocks it.

What is hard to test here: interleavings of the three kinds of threads in the connection, the
monitor that `close()` has to wait for, failures half way through `connect()`, `close()` and
`stopOpenVPN()`, a daemon that dies or restarts at any point, an uncaught exception that
kills the process and lets Android redeliver the start, the delayed disconnect, the loss
of JuiceSSH, callbacks of sessions, locations and cameras that cross an animation, a close
under a query in progress, rows that fill a window to its last byte, and a file cut short by a crash.
`PROJECT.json` lists the hazards at their lines.

What makes each component correct:

- management connection: `run()` never meets a null reader or writer; `isRunning` never
  outlives the threads that close; whoever closes, no socket is left open; once the daemon is
  gone everything ends (that reader, writer and socket belong together is not so: section 6);
- service: never started without a thread that will end it; never given up while the
  connection is open;
- session manager: no open session is lost from sight; `openpyn --kill` exactly if openpyn
  was started for real; the button always works again;
- map: at most one marker is selected; the favourite button and the icons agree with what is
  stored; the markers on screen are those of the region and the filter; every animation ends
  and gives back the gestures;
- network information: a loss is never covered up by a test that began before it;
- server list: what is loaded is the list written last, or none; who was told of a list has it;
  the progress bar goes away;
- cursor and window: nothing placed in the window overlaps anything else; what is read back are
  consecutive rows of the result, and the row moved to is among them; a move ends;
- tile provider and connection: nothing is closed or disposed of under its user, everything is
  closed in the end, a corrupt database too; a tile is the one asked for; nobody waits for ever.

## 2. Modules and the code they model

    VpnStatus  <-  AbstractConnection  <-  OpenVPNService  <-  ManagementConnection
                                                                     ^
                              MCVpnManager  ->  VpnManager  ---------+   (daemon, Next, properties)
         VpnOneStartProofs -> VpnManagerProofs -> VpnManager
    MCSshSession -> SshSession  <- SshSessionProofs
    MCMapControlTower -> MapControlTower -> CameraUpdateAnimator
                         MapControlTower <- MapControlTowerProofs
    MCServerList -> ServerList -> NetworkInfo
                    ServerList <- ServerListProofs
    MCSQLiteCursor -> SQLiteCursor -> CursorWindow
                      SQLiteCursor  implements  ResultSlice   (INSTANCE ... WITH)
                      SQLiteCursor <- SQLiteCursorProofs -> CursorWindowProofs -> CursorWindow
    MCTileProvider -> TileProvider -> SQLiteResources
                      TileProvider <- TileProviderProofs

An arrow is EXTENDS. `PROJECT.json` ("map") names, for each definition, the lines it models.

**VpnStatus.** The names a daemon may report, their lists and `getLevel`. A state keeps its
name and whether its message is `auth-failure`; the rest of the line (addresses, time) decides
nothing.

**AbstractConnection.** Threads, the three fields, sockets, readers, writers and the reader's
monitor. A socket is known by the name of the `onStartCommand` call whose thread created it.
In `connect()` each access to a field is a step: the socket is connected (`NewSocket`), put in its
field (`SetSocket`), the field is read for a stream (`GetStream`, into the thread's local `in`),
and a reader or writer on that stream is put in its field (`NewReader`, `NewWriter`). Between any
two of them another connect thread may run all of its own. `close()` is one step for each of
reader, writer and socket, and a failing `flush` skips the rest as `closeQuietly` does.
`readLine` is a step that takes the monitor and one that returns a line, null or an exception.

**OpenVPNService.** `onCreate`, `onStartCommand` (with `START_REDELIVER_INTENT`), `onDestroy`,
the dialog, and the callbacks as operators that the connection's actions use. The notification
is abstracted to the level it shows. `orphan` keeps threads that are inside `onStateChanged` of
an instance destroyed meanwhile: they still post a notification.

**ManagementConnection.** Program counters of the connect, management and stop threads:
`connect` / `executeCommand` / `processState` (with `mState` written, read back by
`notifyListeners`, and `mLastLevel` stored as separate steps), `run` and its event handlers,
`stopOpenVPN`. `ProcessDeath` is an exception nobody catches: all threads and sockets go, and
a started service is redelivered.

**VpnManager.** Adds the daemon (external): it serves one client, answers commands in order,
reports states once asked for, dies, restarts, and hangs up on SIGTERM. It also holds `Next`,
`Fairness` and the properties.

**SshSession.** Session manager, controller `start` / `kill`, clicks and dialog of the
activity, and JuiceSSH (external). `callbacks` is the queue of the main thread. A key is
identified with its session's id. `ProcessDeath` is the handler of
`ServiceNotConnectedException` that shows a Toast on a thread without a Looper.

**CameraUpdateAnimator.** The queue of camera updates, the saved gestures and the idle
listener, and the camera (external): a move replaces the one under way, whose callback is
cancelled; a camera that moves comes to rest with one idle event, after the `onFinish` of the
animation that brought it there. Scroll and zoom gestures are always switched together and are
one variable; the other settings are off in `fragment_map.xml` and stay off. No caller sets a
delay, so the delayed start of an update is left out.

**MapControlTower.** Markers keep their level (favourite or not), their `zIndex` and icon (plain,
favourite, selected) and whether they are visible. Each handler of the tower is an action;
`onCameraIdle` is an operator, because the camera, the end of an animation and the filter's
dialog all call it. The visible region is any set of markers that contains the position the
camera was sent to. A click on a marker includes the map's own reaction (it centres the marker
and shows its info window). `session` abstracts `SshSession` to what the map sees: from the
click on the connect button until JuiceSSH's answer other screens cover the map ("asked"). The
favourites and the filter are stored across `onDestroy`. The position used when no location is
known is a constant, `DefaultLatLng`: in `res/raw/nordvpn.json` it is a server's, and it is used
whether or not the filter passes that server. `crossed` is a history variable (section 6).

**CursorWindow.** The native window as a record: sizes and offsets are those of the C++ structs,
and its memory is what was placed at an offset (chunks of row slots, field directories, buffers).
`alloc` with its padding and its check for space, `allocRowSlot` with the list of chunks,
`allocRow`, `freeLastRow`, `putBlob`, `putString`, `putLong` and the others, and the getters, are
operators on that record. That two allocations do not overlap is not built in: `Regions` lists
what is in use and `LayoutIsSound` compares.

**SQLiteCursor.** `moveToPosition`, `getCount`, `onMove`, `requery` of the Java side and
`nativeExecuteForCursorWindow` with `copyRow` of the native one; each `sqlite3_step`, each
`allocRow` and each `put` is a step. SQLite (external) gives the rows of a result in order, an
error, or "busy". A restart of the window in the middle of the query, a row that is backed out
and a new capacity are all there. `threw` is a history variable (section 6).

**ResultSlice.** What a window promises, whatever its layout: it holds consecutive rows of the
result from the position it names, gets the next row, or starts again. `SQLiteCursor` implements
it with `first <- fill.startPos` and `rows <- ReadBack`, the rows as the getters read them back
through slots, directories and buffers.

**SQLiteResources.** Reference counts of windows, query and database (`SQLiteClosable`), the
pool with its one connection, and the asset behind it. Each operator is one synchronized block or
one native call.

**TileProvider.** The provider's life from `loadData` to `onDestroy`, and `getTile` on the map's
threads: every read of the cursor's field `mWindow` and every native call on the window it gave
is a step, because `close` runs in between. A native call on a window that was disposed of is
undefined: the process dies, or the call passes. A result has one row or none, and the row is the
name of its tile; how rows get into a window is `SQLiteCursor`'s subject. A query that fails does
so with a plain error or with a corrupt database (`FillFails`). In the second case the thread goes
through `onCorruption` between the failed query and the release of the window: `isOpen`,
`getAttachedDbs` with a reference of its own and a pragma that borrows the connection twice (to be
prepared, to be run), then the database's `close()`. `close` on the main thread has the same steps
from `CloseDatabaseTest` on, so each reference either of them gives up is a step, and so are the
two parts of `SQLiteDatabase.dispose` that follow the last one.

**NetworkInfo.** Networks that come and go, the callback thread that a host test blocks, and
LiveData's `postValue`, whose last value is the one that is set. The test can succeed only while
some network is up.

**ServerList.** Extends `NetworkInfo` with refreshes, the map's load and the file between them.
The file is a sequence of pieces; opening it to write truncates it, a piece written beyond its end
leaves zeros before it, and `Parse` says what `JSONArray` makes of a text. `createJson` is
abstracted to its outcomes. A crash keeps the file and nothing else. `lastOpened` and `overlap`
are history variables: whose writer opened the file last, and whether two have used it at once.

## 3. Runs

| run | instance | checks | distinct states |
|---|---|---|---|
| `vpn_one` | 1 start, 1 stop, daemon with CONNECTED, WAIT and an authentication failure, holds, byte counts, password requests, 2 daemon events | `TypeOK`, `NoLeakedSocket`, `NoZombieService`, `RunLeavesDisconnected`, `NeverAbandonsConnection` | 1.1 million |
| `vpn_two` | 2 overlapping starts, symmetric | `RunningHasThread`, `RunHasStreams` | 2.6 million |
| `vpn_live` | 1 start, 1 stop, requests the client does not support (process death, redelivery) | `ShutsDown`, `StopReturns` under `FairSpec` | 107 thousand |
| `vpn_hold` | 1 start, 3 daemon events | `HoldAfterAuthFailureCloses`: **violated** | |
| `ssh_safe` | 2 sessions, 2 delayed disconnects, 1 loss of JuiceSSH | `TypeOK`, `OpenSessionIsCurrent`, `KillMatchesStart`; `ToggleEnds` under `FairSpec` | 91 thousand |
| `ssh_dialog` | 2 sessions, 1 delayed disconnect | `AgreeingNeverDisconnects`: **violated** | |
| `map_safe` | 2 markers of 2 countries, 1 preloading move, 1 delayed request | `TypeOK`, `AtMostOneSelected`, `FavoritesAgree`, `FavoriteButtonAgrees`, `VisibleAtRest`, `GesturesFollowSession`; `AnimationEnds` under `FairSpec` | 556 thousand |
| `map_dialog` | as `map_safe` | `SessionUsesAnnounced`: **violated** | |
| `window` | 7 results of up to 5 rows of 2 columns, windows of 5 sizes, chunks of 2 rows, 1 retry | `TypeOK`, `LayoutIsSound`, `MovedRowIsReadable`, `CountIsExact`, `HoldsSlice` (refinement); `MoveEnds` under `FairSpec` | 115 thousand |
| `tiles` | 2 tiles of which 1 is stored, 2 threads of the map, 2 calls, 1 failing query or corrupt database | `TypeOK`, `ConnectionOpenWhileUsed`, `FilledWindowIsHeld`, `ClosedInTheEnd`, `TileIsTheOneAsked`; `CallsEnd`, `CorruptDatabaseCloses` under `FairSpec` | 134 thousand |
| `tiles_close` | 3 tiles of which 2 are stored, otherwise as `tiles` | `UsesLiveWindow`: **violated** | |
| `serverlist` | 2 refreshes (lists of 2 and 1 pieces), a packaged list of 2, 1 network with 2 changes, 1 crash | `TypeOK`, `NoStaleOnline`, `LoadedListIsLastWritten`, `DialogMeansSaved`; `ProgressEnds` under `FairSpec` | 553 thousand |

*Bounds.* `Starts`, `Stops`, `Sessions` and `Disconnects` bound the calls in one life of a
process; `MaxEvents` bounds what the daemon does by itself and `MaxLosses` the losses of
JuiceSSH. One start already gives three threads (connect, management, stop) on one
connection, which is where every close races every other; two starts are needed for two
connect threads to overlap in the field assignments. Two daemon events are enough for a state
change followed by a request, or a death followed by a restart, in any position. Two sessions
and two delayed disconnects are enough for a disconnect of the first session to fire in the
second. Two markers are enough for one to be selected while the other is clicked, hidden,
filtered or the target of an animation; with two countries the filter tells them apart. The
code preloads 64 tiles, `Tiles` of them are modelled; they have no callback and differ in
nothing. `MaxDelayed` bounds the delayed requests for the location; a request that finds one
being fetched is lost anyway.

In `window` the code's chunks of 100 rows and its 50 retries are 2 and 1: a third row already
needs a second chunk, a fifth a third one, and one retry is enough to give up in any row. The
sizes are chosen so that the last allocation that fits, the first that does not, and the chunk
that is linked for a row that is then backed out all occur; rows have blobs and strings of odd
sizes (padding), empty blobs and nulls, and one kind of row that fits no small window. Two
threads and two calls in `tiles` put one call in the provider and one at its monitor, while
`close` runs through all its steps; one tile is stored and one is not, so a call that gets the
other call's answer is seen either way. One failing query is enough for the error handler on a
tile thread to run next to `close` on the main thread, in any order of their steps. In
`serverlist` two pieces are the least that can be cut short or mixed, and the shorter list shows
what a longer one leaves behind; the theorems of section 5 take the place of larger bounds.

In the `vpn_*`, `ssh_*`, `tiles*` and `serverlist` runs deadlock is not checked: when the daemon,
the user and the calls are used up, the system may stop. That nobody stops early is what the
liveness properties say. The `map_*` runs and `window` have no such end and check deadlock.

*Fairness.* Weak fairness of each thread (Android schedules runnable threads), of the main
thread's queue, of a live daemon answering its client and dropping a closed one, and of
JuiceSSH answering a connect; for the map, of a moving camera, which comes to rest and tells
its listener; of the thread that moves a cursor; of each of the map's threads in `getTile` and of
the main thread within `onDestroy`; of each refresh. There is none for the user, the daemon's own
events, the death of the daemon, a session closing by itself, the network, or the map asking for
tiles. `ShutsDown` is conditional on the daemon
being gone for good: `run()` is meant to run as long as the daemon does.

## 4. Findings

- **`vpn_hold`.** `processHold` says "Close connection if AUTH has failed" and tests
  `mLastLevel`. `connect()` processes the answer to its `state` command on its own thread, so a
  reply given before the failure can be stored after the management thread has announced the
  failure; the hold that follows then leaves the connection open.
- **`ssh_dialog`.** The dialog asks "Are you sure you want to connect to"; its positive button
  toggles. The button that opens it stays usable while a session is starting, so agreeing after
  `onSessionStarted` kills openpyn and closes the session.
- **`map_dialog`.** The dialog asks "Are you sure you want to connect to" the marker selected at
  the click; `OpenpynController.start` asks for the selected marker again when the session has
  started. A camera that still coasts, or an animation to a location that arrives late, comes to
  rest under the dialog, and `onCameraIdle` deselects a marker that has left the region: openpyn
  is started for the server or country of the preferences instead.
- **`tiles_close`.** "code using a SQLiteCursor from multiple threads should perform its own
  synchronization" (`SQLiteCursor.java:30`). `getTile` does, `close` does not: called by
  `onDestroy` on the main thread it releases the last reference of a window that a `getTile` in
  progress has read from the cursor and is about to use. While SQLite fills the window the
  query's own references keep it (`FilledWindowIsHeld`); clearing it and reading from it are not
  covered.

## 5. Proofs

What is assumed of the constants, each an ASSUME of the module that declares them and evaluated
by TLC in its runs:

- `NullAssumption`, `MarkersAssumption`, `ResourceAssumption`: null is no start, marker, window
  or tile;
- `DaemonAssumption`: what the daemon may report are states and plain requests;
  `SessionAssumption`: session ids are positive numbers;
- `TowerAssumption`: every marker has a country, the default position is that of a marker, or of
  none;
  `TileAssumption`: the stored tiles are tiles, and names of other outcomes are not;
- `ListAssumption`: the packaged list is none of the refreshed ones, every list has a piece;
  `NetworksAssumption`: the networks are finitely many;
- `ChunkAssumption`: a chunk has a slot. `CursorAssumption`: a window has space for its header and
  its first chunk, which `clear()` writes without a check (the app's windows have two megabytes,
  header and chunk 420 bytes); the sizes SQLite gives are not negative, values that are stored
  inline have none;
- bounds are numbers.

Nothing is assumed about how many starts, stops, sessions, disconnects, networks, refreshes,
pieces, markers, countries, threads, windows, tiles, calls, errors, rows, columns, retries or
slots of a chunk there are, except that the theorems of `VpnOneStartProofs` have the hypothesis of
at most one start.

**VpnManagerProofs** proves `TypeCorrect`, `RunningIsBacked` (`RunningHasThread`) and
`RunsWithStreams` (`RunHasStreams`) from one inductive invariant:

    IInv == TypeOK /\ LocalsSet /\ ReaderFirst /\ ManagementAfterOpening /\ WriterBeforeRun
            /\ RunningHasThread

- `TypeOK` alone is not inductive: a thread uses its captured stream, its captured reader and its
  last line, so `LocalsSet` says they are set where they are used. `ReaderFirst` is why a captured
  reader is never null once a writer exists.
- `RunHasStreams` rests on the order in one thread, `WriterBeforeRun`: a connect thread that is
  past its last assignment has assigned a writer, the management thread starts after it, and
  nothing resets the fields but the death of the process, which takes the threads too. That other
  connect threads assign in between changes which writer it is, not that there is one.
- `RunningHasThread` rests on `ManagementAfterOpening`: a management thread starts once, after
  its opening, so `RunEnd` is the only step that leaves `Running`, and it resets `isRunning`.

**VpnOneStartProofs** proves `NothingLeaks` (`NoLeakedSocket`), `NoZombies` (`NoZombieService`),
`RunDisconnects` (`RunLeavesDisconnected`) and the action property `NeverAbandons`
(`NeverAbandonsConnection`) under the hypothesis `OneStart`, at most one call of `onStartCommand`
in the life of a process (section 6 says why); stop dialogs, crashes that start the service again
and the daemon are arbitrary. The invariant is the one above and

    OneInv == NothingOpened /\ SocketIsSet /\ WriterIsSet /\ ClosedBehind
              /\ StartedWhileOpening /\ OpenHasOwner

- `CloseWriter` may fail and drop the rest of `close()`. That the socket is closed all the same
  rests on `WriterIsSet`: a stop closes only after it has written through a writer, run() starts
  only when there is one, so the reader is never null where `close()` begins, and closing it has
  closed the socket (`ClosedBehind`).
- `OpenHasOwner`: a connected socket belongs to the opening thread or has been handed to a
  management thread. `onConnected` hands it over only if the service exists; it does, because a
  service is destroyed only when it is not started, and `StartedWhileOpening` says that it is
  started while a thread opens a connection that nobody has closed. So `NoLeakedSocket`,
  `NoZombieService` and `NeverAbandonsConnection` need each other.

TLC has checked `OneInv` with one start and two stop dialogs (1,956,293 states).

**SshSessionProofs** proves `TypeCorrect`, `OpenSessionStaysCurrent` (`OpenSessionIsCurrent`)
and the action property `KillAlwaysMatchesStart` (`KillMatchesStart`) from

    IInv == TypeOK /\ mSessionKey = mSessionId /\ OneCallback /\ ConnectAlone /\ Unused
            /\ FieldsDescribe /\ OpenSessionIsCurrent

`ConnectAlone` and `OneCallback` carry the argument: `mSessionRunning` keeps every other toggle
out while a connect is under way, so a `started` callback meets a manager without a session,
and at most one callback is queued. `FieldsDescribe` ties the controller's fields to the
command of the current session, whatever happened to the preferences.

**ServerListProofs** proves `NeverStaleOnline` (`NoStaleOnline`) from

    NetworkInv == NetworkTypeOK /\ LossIsLast

`NoStaleOnline` speaks of the end, when every callback has run. `LossIsLast` says why: as long as
there is no network the last callback in the queue is a loss, and when the queue is empty no test
and no posted "online" is on its way. It is preserved because a test blocks the thread that would
run `onLost`.

The same module proves `LoadedListIsWholeOrEmpty` (`LoadedListIsLastWritten`) and
`DialogFollowsSaving` (`DialogMeansSaved`) from

    FileInv == RefreshTypes /\ LoadTypes /\ FileTypes /\ RefreshOrder /\ LoadedListIsLastWritten
               /\ (~overlap => FileIsPrefix /\ WriterOwnsFile /\ CopierOwnsFile
                               /\ ReaderFollowsFile /\ SavedIsWhole)

As long as no two have used the file at once it is the beginning of one list (`FileIsPrefix`), a
writer knows how much of it (`WriterOwnsFile`, `CopierOwnsFile`), and a reader has a beginning of
the same (`ReaderFollowsFile`). `ParsePrefix` then says that a beginning is the list only if it
is all of it. A crash keeps all of this, because it only takes the writers away.

`ListTypeCorrect` (`TypeOK`) needs `WrittenInBounds` besides: that nobody writes more pieces than
its list has, also after an overlap, where `FileInv` says nothing of the file.

**MapControlTowerProofs** proves `TypeCorrect`, `SelectionIsUnique` (`AtMostOneSelected`),
`FavoritesAreStored` (`FavoritesAgree`), `StarIsTheSelected` (`FavoriteButtonAgrees`),
`OnlyVisibleAtRest` (`VisibleAtRest`) and `GesturesAreRestored` (`GesturesFollowSession`) from

    IInv == TypeOK /\ AnimatorShape /\ NothingYet /\ AtMostOneSelected /\ FavoritesAgree
            /\ StarAgrees /\ VisibleAtRest /\ SavedFollowsSession

- `AtMostOneSelected` is not inductive: the last animation of the start selects its target
  without deselecting another. `NothingYet` says that nothing can have been selected before, and
  rests on `AnimatorShape`: that animation is the last of its queue, and until it has finished the
  tower does not listen to the camera.
- `FavoriteButtonAgrees` speaks of a button on screen; a session hides it and its end shows it
  again, so `StarAgrees` keeps the star right behind it.
- `GesturesFollowSession` speaks of rest; `SavedFollowsSession` says the same of the setting that
  an animation has saved and will give back.

**TileProviderProofs** proves `TypeCorrect`, `ConnectionStaysOpen` (`ConnectionOpenWhileUsed`),
`FilledWindowStaysLive` (`FilledWindowIsHeld`), `NothingLeftOpen` (`ClosedInTheEnd`),
`TileAsked` (`TileIsTheOneAsked`) and `PragmaIsServed` from

    IInv == Types /\ (\A t \in Threads : InMonitor(t) /\ GoesOn(t) /\ WindowHeld(t) /\ OwnTile(t))
            /\ WindowShape /\ ProviderShape /\ QueryShape /\ PoolShape /\ DatabaseShape

- The counts carry the argument. A thread in a query has one reference to its window, two while
  SQLite fills it; the main thread may still have one to give back (`Owed`), and it gives it back
  once. `WindowHeld` adds them up, so a release by `close` leaves what the query needs.
  `QueryShape` does the same for the query.
- `PoolShape` says that the connection is acquired exactly while a thread is connected and that
  nothing is available in a closed pool: so whoever comes last closes it. The main thread and a
  tile thread in the error handler may both be the one that closes the pool.
- `DatabaseShape` counts the references of the database. Two parties give up the one reference a
  provider starts with (`Standing`): `close()` on the main thread does it once, the handler of a
  corrupt database once for each query that finds it, so the count may fall below zero. A thread
  in `getAttachedDbs` has a reference of its own beside the standing one, which it could get only
  while the database had one. So while there is a reference the pool is open, and when there is
  none somebody has closed the pool or is on the way to it, exactly one of them, because the step
  from one to zero is taken once. From this `PragmaIsServed`: the handler's pragma finds the pool
  open and its connection available, although `close()` may run to its end meanwhile. And
  `NothingLeftOpen`: with nobody on the way the pool is closed.
- `GoesOn` is about the thread's local `then`: the same local says where to go on after
  `fillWindow`, after a failed query and after a disposal, so the invariant says at which labels
  it means which.
- `OwnTile` follows what the shared window may hold: after `reset` nothing or the tile asked for,
  although `close` may take the window away at any point. `InMonitor` keeps other threads out.

**CursorWindowProofs** proves what the operators of the native window do, for every window that
satisfies

    WindowInv(w) == Shape(w) /\ chunks in use are there /\ directories of the rows are there
                    /\ Sound(Regions(w), w.freeOffset)

`Sound` says that what is in use lies below the free offset, apart and aligned. The lemmas:
`AllocEffect` (what `alloc` returns lies above all that is in use, aligned), `ClearedWindow`,
`AllocRowEffect` (`allocRow` keeps the invariant and every field, with and without a new chunk,
with and without space), `PutEffect` (the value that is stored is read back, all others are as
they were, the free offset moves by just the value's bytes, or nothing has changed) and
`FreeLastRowEffect`. `allocRow` is meant for windows without a spare chunk (`NoSpare`): a spare
one is left only by a row that was backed out, and after that no row is added before the window
has been cleared. How a row's slot is found, `ChunkAt`, is a recursive function; `ChunkAtStep` and
`ChunkFrame` are proved by induction, with `Division` and `NextSlot` for the quotient and
the remainder by the length of a chunk.

**SQLiteCursorProofs** proves `TypeCorrect`, `LayoutStaysSound` (`LayoutIsSound`),
`CountedExactly` (`CountIsExact`), `MovedRowRead` (`MovedRowIsReadable`) and the refinement
`WindowHoldsSlice` (`HoldsSlice`, that is `Spec => Slice!Spec`) from

    IInv == Types /\ WindowShape /\ FillShape /\ RowsHeld /\ CursorShape /\ Reaches /\ FirstRow

- `WindowShape` has `WindowInv` of the window and ties its rows to the fill's counters, the row
  that is being copied included. `FillShape` relates `totalRows`, `startPos` and `addedRows` at
  each point of the loop.
- `RowsHeld` says that the rows that were added, and the columns copied so far, read as the
  result's. So `ReadBack` is a function of result, start and number of rows (`ReadBackIs`), and
  the refinement needs no more: a step leaves these alone, adds a row (`Fetch`), or leaves no row
  (`Restart`).
- `Reaches` is why a move succeeds. The start is not after the required row; the window is given
  up as full only behind it, or at a row that did not fit an empty window. `FirstRow` counts the
  bytes of the first row, and `RowBytesGrow` shows that one that fits alone does not fail.

Each proof has one lemma per action (or group of actions that change the same variables), and
TLC has checked the inductive invariants on the instances of section 3.

*Induction over data.* The library's induction theorems take an operator as a parameter, which the
provers cannot instantiate. Where a recursive function has to be reasoned about (`ChunkAt`,
`RowBytes`), `SetInduction` is used instead: a set of numbers that has 0 and with each number the
next one is `Nat`, from the well-foundedness of `<`. The set is the one of which the claim holds.

*Only model-checked:* the liveness properties (`ShutsDown`, `StopReturns`, `ToggleEnds`,
`AnimationEnds`, `MoveEnds`, `CallsEnd`, `CorruptDatabaseCloses`, `ProgressEnds`): fairness and ENABLED are out of the
prover's reach. Every invariant and every action property of a passing run is a theorem.

## 6. Limits

- `NoLeakedSocket`, `RunLeavesDisconnected` and `NeverAbandonsConnection` are checked and
  proved for one start. With overlapping starts they do not hold of the code: two connect threads can both
  pass `isConnected`, the second replaces the first socket, and nobody closes that one; a
  failing connect ends the service although another connection is open. The launcher has one
  caller, the activity, whose call is commented out at this commit
  (`kotlin/.../openpyn/MainActivity.kt:123`); nothing in the service itself keeps a second start
  away.
  `NoZombieService` holds with two starts and fails with three: `onConnectError` of the first ends
  the service while the second is connecting (`stopSelf` without a start id), so nobody starts a
  management thread for its socket; a third start finds that socket connected, does not connect,
  and its thread ends. So no property covers a `stopSelf` that crosses a queued start.
- **Overlapping connects mix the fields.** `connect()` reads `mSocket` for each stream and assigns
  reader and writer in steps of their own (`AbstractConnection.java:69-72`). A thread that has read
  the first socket's input stream and is overtaken by a whole `connect()` of another one puts the
  first socket's reader next to the second's socket and writer. "Reader, writer and socket of a
  connection in use belong together" is false in the model (after some twenty steps) as in the code;
  no text of the repository claims it, and it is neither a property nor a finding here. What does
  hold with any number of starts is `RunHasStreams` and `RunningHasThread`.
- The daemon sends well-formed lines. What the parsers do with others is not modelled. Log
  lines and the commands without a caller in the app (`getOpenVPNStatus`,
  `getOpenVPNVersion`) are left out. The five commands at the start of `run()` are one write.
- `SshSession` has one activity per process. A delayed disconnect closes the session that is
  open when it wakes, which may be a later one; no property forbids it (`OpenSessionIsCurrent` and
  `ToggleEnds` hold all the same). A session that ends
  before `onSessionStarted` has added its listener is never reported, so `ToggleEnds` speaks of
  sessions that are open, and promises nothing once JuiceSSH has been lost, because nobody reports
  that either. Progress bar, spinner and snack bars are not modelled.
- `GesturesFollowSession` leaves out the time after a session that started or ended during an
  animation (`crossed`). In that case the end of the animation restores the setting it saved
  before the callback: the map can be moved during a session, or stays frozen after one until
  the next session ends. No text of the repository says otherwise, so it is a limit of the
  property and not a finding: no property covers a session that crosses an animation.
- The map's message bar, the progress bar and the checked state of the connect button are not
  modelled. The region a camera shows is arbitrary, except that it contains its target.
- `MovedRowIsReadable` leaves out two cases in which the code returns true for a row that is not
  in the window: a row that fits no window of its own stops the fill, even before the required
  row; and a query that throws leaves `mPos` alone, so that a second move to the same position
  finds nothing to do (`threw`).
- `ClosedInTheEnd` is about a provider that was published. One that `loadData` is still opening
  when `onDestroy` runs is dropped unclosed, although its documentation says "You must call
  close()", and so is a database whose provider's constructor fails afterwards. A window made by
  a call that goes on after `close` stays in the closed cursor until a finalizer finds it.
- `TileIsTheOneAsked` is about calls that ran their query. A call that finds the cursor closed
  ignores what `requery()` returned; it returns the tile of the call before, or throws. A tile
  thread that closes the window after an error can make `closeWindow` of the main thread throw
  (`CloseWindowThrows`).
- *Corrupt databases.* A query of `getTile` that finds the database corrupt goes through the whole
  handler. The window, cursor and query of its pragma are its own and not modelled. Preparing the
  pragma may fail in any way; running it is taken not to be corrupt itself (it
  lists names the connection has by then), or the handler would enter itself. Deleting
  the file has no effect here: the database's path is the address of an asset
  (`file:world.mbtiles?vfs=ndk-asset...`), not that of a file. A database that is corrupt when it
  is opened does not open (`OpenDatabase`), one whose metadata are is closed by the handler on the
  loading thread, which nobody shares it with (the third disjunct of `BuildProvider`).
- The pool's waiting threads are not modelled: the provider's monitor lets one thread ask at a
  time. Reads of the asset (`ndkFileRead`) and a handle that `nativeOpen` does not close after a
  failure are not modelled.
- `LoadedListIsLastWritten` and `DialogMeansSaved` leave out the time after an overlap of two
  users of the file: then the file can hold, and the map can read, pieces of two lists. No
  property covers that overlap. A file
  cut short is never replaced by the packaged one, because it exists; the map stays empty until
  a refresh succeeds. A refresh that ends between the load's test for the file and its copy is
  overwritten.
- `ProgressEnds` leaves out a refresh whose `createJson` throws outside of its `try`
  (`utils/Common.kt:198`): its thread ends and the bar stays. With two refreshes the first to end
  hides the bar of the other.
- `NoStaleOnline` says nothing of the other direction, which does happen: `onLost` reports
  offline although another network is up.
- A finish listener added without the service is taken to be no listener; that is behaviour of
  JuiceSSH's library, which is not in this repository.

### Not modelled

- **SQLite.** `jni/` holds the amalgamation three times (`sqlite/`, `sqlite-android/`,
  `sqlite4java/`), over 660 thousand of the repository's 760 thousand lines. It is third-party code
  that the app does not change; the models see it as rows, errors and "busy". Nearly every line of
  C in the repository is in these files, so the share of the C sources that the models cover says
  little. The app's own logic is some thousand lines of Kotlin, Java and C++.
- **sqlite4java, `org.sqlite` bindings, collections, about screens.** Vendored. The app opens its
  database through `io.requery`; its calls of `org.sqlite` are commented out. Of `io.requery`, the
  parts no call of the app reaches are left out too: transactions, writes, custom functions,
  write-ahead logging, observers.
- **Command output, traffic history, status parser, escaping.** Sequential code over text and
  numbers, without a caller that shares its state; planned below.
- **Credential storage and settings screens.** Calls into the platform; nothing of their own to
  interleave.

## 7. Plan

In order of importance:

1. **An abstract session** (closed, opening, open, closing) that `SshSession` implements, with
   the refinement checked by TLC and its safety part proved.
2. **OpenpynOutput**: the buffer of `onOutputLine`, checked against a reference that splits at
   the markers in the order they occur.
3. **Pure algorithms**: `TrafficHistory` windows, `escapeOpenVPN` against an unescaping
   reference, the status parser; as functions or in modules only TLC uses.
