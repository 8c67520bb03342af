------------------------- MODULE TileProviderProofs -------------------------
(***************************************************************************)
(* Proofs about TileProvider, for any threads of the map, windows, tiles,  *)
(* number of calls and number of failing queries.                          *)
(***************************************************************************)
EXTENDS TileProvider, TLAPS

-----------------------------------------------------------------------------
(* The inductive invariant *)

\* Where a thread may be.
Labels ==
    {"idle", "enter", "requery", "lock", "clearTest", "clearRead", "clearUse", "reset", "count",
     "counted", "fillTest", "fillRead", "fillUse", "fillArgument", "acquireQuery",
     "acquireWindow", "session", "acquireConnection", "execute", "filling", "filled",
     "releaseConnection", "onCorruption", "attached", "prepare", "preparing", "prepared",
     "listing", "detach", "closeDatabase", "dispose", "disposePool", "releaseWindow",
     "releaseQuery", "counting", "capacityRead", "capacityUse", "catch", "catchRead",
     "catchRelease", "catchForget", "moveTest", "moveRead", "moveUse", "moved", "blobTest",
     "blobRead", "blobUse", "leave"}

\* Not in the provider, or not yet.
Outside == {"idle", "enter"}

\* In the provider, before the cursor was asked again.
Requerying == {"requery", "lock", "clearTest", "clearRead", "clearUse", "reset"}

\* With a reference to the query.
InQuery == {"acquireWindow", "session", "acquireConnection", "execute", "filling", "filled",
            "releaseConnection", "onCorruption", "attached", "prepare", "preparing", "prepared",
            "listing", "detach", "closeDatabase", "dispose", "disposePool", "releaseWindow",
            "releaseQuery"}

\* With one reference to the window, or with two.
HoldingOne == {"session", "acquireConnection", "execute", "releaseConnection", "onCorruption",
               "attached", "prepare", "preparing", "prepared", "listing", "detach",
               "closeDatabase", "dispose", "disposePool", "releaseWindow"}
HoldingTwo == {"filling", "filled"}

\* With the reference to the database that getAttachedDbs counts.
HasDatabase == {"prepare", "preparing", "prepared", "listing", "detach"}

\* Taking the pool from the database, after the last of its references.
Disposing == {"dispose", "disposePool"}

\* Where a thread may be with an exception on its way.
Failing == {"filled", "releaseConnection", "onCorruption", "attached", "prepare", "preparing",
            "prepared", "listing", "detach", "closeDatabase", "dispose", "disposePool",
            "releaseWindow", "releaseQuery", "catch", "catchRead", "catchRelease",
            "catchForget", "leave"}

\* Where it may go on: after a fill, after a query that failed, after closing the database.
AfterFill == {"counted", "moved"}
AfterFailure == {"releaseWindow", "onCorruption"}
AfterDispose == {"closeDatabase", "releaseWindow"}
Nexts == {"idle", "counted", "moved", "releaseWindow", "onCorruption", "closeDatabase"}

\* What a thread and its call are.
Call == [pc : Labels, then : Nexts, read : Windows \cup {NULL},
         want : Tiles \cup {NULL}, requeried : BOOLEAN, session : BOOLEAN, failed : BOOLEAN,
         outcome : Tiles \cup {"none", "NO_TILE", "threw"}]

MainLabels == {"run", "close", "test", "read", "release", "forget", "query", "database",
               "databaseRelease", "dispose", "pool", "destroyed"}

Closing == MainLabels \ {"run", "destroyed"}

\* The main thread has yet to release this window.
Owed(w) ==
    \/ main \in {"run", "close", "test", "read"} /\ mWindow = w
    \/ main = "release" /\ mainRead = w

Types ==
    /\ TypeOK
    /\ call \in [Threads -> Call]
    /\ main \in MainLabels
    /\ mainRead \in Windows \cup {NULL}

\* The monitor: one thread at a time is in the provider, with the arguments it has bound.
InMonitor(t) ==
    /\ call[t].pc # "idle" => load = "published" /\ call[t].want # NULL
    /\ call[t].pc \notin Outside => monitor = t /\ mBindArgs \in {call[t].want, NULL}

\* Where a thread goes on: its local is overwritten by a query that failed and by closing the
\* database, and is not used for the fill after that.
GoesOn(t) ==
    /\ call[t].failed => call[t].pc \in Failing
    /\ call[t].pc \in InHandler => call[t].failed
    /\ ~call[t].failed /\ call[t].pc \notin Outside \cup Requerying \cup {"count", "leave"}
          => call[t].then \in AfterFill
    /\ call[t].failed /\ call[t].pc \in {"filled", "releaseConnection"}
          => call[t].then \in AfterFailure
    /\ call[t].pc \in Disposing => call[t].then \in AfterDispose

\* The references of a thread in a query, next to the one the main thread will give back.
WindowHeld(t) ==
    /\ call[t].pc \in HoldingOne =>
          call[t].read # NULL /\ windowRefs[call[t].read] >= IF Owed(call[t].read) THEN 2 ELSE 1
    /\ call[t].pc \in HoldingTwo =>
          call[t].read # NULL /\ windowRefs[call[t].read] >= IF Owed(call[t].read) THEN 3 ELSE 2

\* What a thread may find in the cursor's window once it has asked the cursor again.
OwnTile(t) ==
    /\ call[t].pc \notin {"idle", "leave"} => call[t].outcome = "none"
    /\ call[t].pc \in {"enter"} \cup Requerying => ~call[t].requeried
    /\ call[t].read # NULL => native[call[t].read] # "none"
    /\ call[t].pc = "clearUse" => mWindow \in {call[t].read, NULL}
    /\ call[t].pc = "reset" /\ mWindow # NULL => holds[mWindow] = NULL
    /\ call[t].requeried /\ call[t].pc \notin {"idle", "leave"} /\ mWindow # NULL
          => holds[mWindow] \in {call[t].want, NULL}
    /\ call[t].pc = "blobUse" => call[t].read # NULL
    /\ call[t].requeried /\ call[t].pc = "blobUse"
          => holds[call[t].read] \in {call[t].want, NULL}
    /\ call[t].requeried /\ call[t].outcome \in Tiles => call[t].outcome = call[t].want

\* Windows are live as long as they are counted; one that was never created holds nothing.
WindowShape ==
    /\ \A w \in Windows : native[w] = "live" <=> windowRefs[w] > 0
    /\ \A w \in Windows : native[w] = "none" => holds[w] = NULL
    /\ mWindow # NULL => native[mWindow] # "none"

\* The provider's life on the loader and on the main thread.
ProviderShape ==
    /\ overlay => load = "published"
    /\ main \in Closing => load = "published"

\* The query has the provider's reference and that of the thread that uses it.
QueryRefs(n) ==
    queryRefs = n + IF \/ load = "built"
                       \/ load = "published"
                             /\ main \notin {"database", "databaseRelease", "dispose", "pool",
                                             "destroyed"}
                    THEN 1 ELSE 0

QueryShape ==
    /\ (\E t \in Threads : call[t].pc \in InQuery) => QueryRefs(1)
    /\ (\A t \in Threads : call[t].pc \notin InQuery) => QueryRefs(0)

\* The connection is acquired by the thread that is connected, and open until the pool closes
\* it or the thread that has it gives it back to a closed pool.
PoolShape ==
    /\ connection \in {"available", "acquired"} => asset
    /\ connection = "closed" => ~asset
    /\ connection = "available" => mIsOpen
    /\ connection = "closed" => ~mIsOpen
    /\ load \in {"none", "queued"} => connection = "none"
    /\ load \in {"opening", "built", "published"} => connection # "none"
    /\ connection = "acquired" <=> \E t \in Threads : call[t].pc \in Connected

\* The reference of the database that close() and the error handler both give up, as long as
\* close() has not.
Standing == IF main \in {"dispose", "pool", "destroyed"} THEN 0 ELSE 1

\* A thread that lists the attached databases has a reference of its own next to the standing
\* one.  While there is a reference the pool is open; once there is none, somebody has closed
\* it or is about to, and nobody gets a new one.
DatabaseShape ==
    /\ load \in {"opening", "built"} => dbRefs = 1
    /\ load = "published" /\ (\E t \in Threads : call[t].pc \in HasDatabase)
          => dbRefs = Standing + 1
    /\ load = "published" /\ (\A t \in Threads : call[t].pc \notin HasDatabase)
          => dbRefs <= Standing
    /\ dbRefs >= 1 => dbOpen /\ mIsOpen
    /\ dbRefs <= 0 /\ mIsOpen
          => main \in {"dispose", "pool"} \/ \E t \in Threads : call[t].pc \in Disposing
    /\ main \in {"dispose", "pool"} => dbRefs <= 0
    /\ (\E t \in Threads : call[t].pc \in Disposing) => dbRefs <= 0

IInv ==
    /\ Types
    /\ \A t \in Threads : InMonitor(t) /\ GoesOn(t) /\ WindowHeld(t) /\ OwnTile(t)
    /\ WindowShape /\ ProviderShape /\ QueryShape /\ PoolShape /\ DatabaseShape

-----------------------------------------------------------------------------
(* What the steps of a thread do to its call *)

\* The other threads' calls stay as they are.
Others(t) == \A u \in Threads \ {t} : call'[u] = call[u]

\* What no step between Enter and Leave changes in the thread's call.
Kept(t) ==
    /\ Others(t)
    /\ call' \in [Threads -> Call]
    /\ call'[t].want = call[t].want

\* Going to a label changes nothing else.
LEMMA GotoEffect ==
    ASSUME call \in [Threads -> Call], NEW t \in Threads, NEW label \in Labels, Goto(t, label)
    PROVE  /\ Kept(t)
           /\ call'[t].pc = label
           /\ call'[t].then = call[t].then /\ call'[t].read = call[t].read
           /\ call'[t].requeried = call[t].requeried /\ call'[t].outcome = call[t].outcome
           /\ call'[t].failed = call[t].failed
<1> DEFINE c == [call[t] EXCEPT !.pc = label]
<1>1. call' = [call EXCEPT ![t] = c]
  BY DEF Goto
<1>2. c \in Call
  BY DEF Call
<1>3. /\ c.pc = label /\ c.then = call[t].then /\ c.read = call[t].read /\ c.want = call[t].want
      /\ c.requeried = call[t].requeried /\ c.outcome = call[t].outcome
      /\ c.failed = call[t].failed
  BY DEF Call
<1> HIDE DEF c
<1>4. call'[t] = c /\ Others(t) /\ call' \in [Threads -> Call]
  BY <1>1, <1>2 DEF Others
<1> QED
  BY <1>3, <1>4 DEF Kept

\* An exception on its way changes the label besides.
LEMMA FailsEffect ==
    ASSUME call \in [Threads -> Call], NEW t \in Threads, NEW label \in Labels, Fails(t, label)
    PROVE  /\ Kept(t)
           /\ call'[t].pc = label
           /\ call'[t].then = call[t].then /\ call'[t].read = call[t].read
           /\ call'[t].requeried = call[t].requeried /\ call'[t].outcome = call[t].outcome
           /\ call'[t].failed
<1> DEFINE c == [call[t] EXCEPT !.pc = label, !.failed = TRUE]
<1>1. call' = [call EXCEPT ![t] = c]
  BY DEF Fails
<1>2. c \in Call
  BY DEF Call
<1>3. /\ c.pc = label /\ c.then = call[t].then /\ c.read = call[t].read /\ c.want = call[t].want
      /\ c.requeried = call[t].requeried /\ c.outcome = call[t].outcome /\ c.failed
  BY DEF Call
<1> HIDE DEF c
<1>4. call'[t] = c /\ Others(t) /\ call' \in [Threads -> Call]
  BY <1>1, <1>2 DEF Others
<1> QED
  BY <1>3, <1>4 DEF Kept

\* An exception that getTile's caller gets.
LEMMA ThrowsEffect ==
    ASSUME call \in [Threads -> Call], NEW t \in Threads, Throws(t)
    PROVE  /\ Kept(t)
           /\ call'[t].pc = "leave"
           /\ call'[t].then = call[t].then /\ call'[t].read = call[t].read
           /\ call'[t].requeried = call[t].requeried /\ call'[t].outcome = call[t].outcome
           /\ call'[t].failed
<1>1. Fails(t, "leave")
  BY DEF Throws, Fails
<1>2. "leave" \in Labels
  BY DEF Labels
<1> QED
  BY <1>1, <1>2, FailsEffect

\* What mWindow is at this moment, null or not.
ReadAs(t, label, w) == call' = [call EXCEPT ![t].pc = label, ![t].read = w]

\* Reading it changes the label and the local.
LEMMA ArgumentEffect ==
    ASSUME call \in [Threads -> Call], NEW t \in Threads, NEW label \in Labels,
           NEW w \in Windows \cup {NULL}, ReadAs(t, label, w)
    PROVE  /\ Kept(t)
           /\ call'[t].pc = label
           /\ call'[t].then = call[t].then /\ call'[t].read = w
           /\ call'[t].requeried = call[t].requeried /\ call'[t].outcome = call[t].outcome
           /\ call'[t].failed = call[t].failed
<1> DEFINE c == [call[t] EXCEPT !.pc = label, !.read = w]
<1>1. call' = [call EXCEPT ![t] = c]
  BY DEF ReadAs
<1>2. c \in Call
  BY DEF Call
<1>3. /\ c.pc = label /\ c.then = call[t].then /\ c.read = w /\ c.want = call[t].want
      /\ c.requeried = call[t].requeried /\ c.outcome = call[t].outcome
      /\ c.failed = call[t].failed
  BY DEF Call
<1> HIDE DEF c
<1>4. call'[t] = c /\ Others(t) /\ call' \in [Threads -> Call]
  BY <1>1, <1>2 DEF Others
<1> QED
  BY <1>3, <1>4 DEF Kept

\* Reading mWindow as far as the invariant goes.
LEMMA ReadEffect ==
    ASSUME Types, NEW t \in Threads, NEW label \in Labels, ReadWindow(t, label)
    PROVE  /\ Kept(t)
           /\ call'[t].then = call[t].then
           /\ call'[t].requeried = call[t].requeried /\ call'[t].outcome = call[t].outcome
           /\ \/ /\ mWindow = NULL /\ call'[t].pc = "leave" /\ call'[t].read = call[t].read
                 /\ call'[t].failed
              \/ /\ mWindow # NULL /\ call'[t].pc = label /\ call'[t].read = mWindow
                 /\ call'[t].failed = call[t].failed
<1>0. call \in [Threads -> Call] /\ mWindow \in Windows \cup {NULL}
  BY DEF Types, TypeOK
<1>1. CASE mWindow = NULL
  <2>1. Throws(t)
    BY <1>1 DEF ReadWindow
  <2> QED
    BY <1>0, <1>1, <2>1, ThrowsEffect
<1>2. CASE mWindow # NULL
  <2>1. ReadAs(t, label, mWindow)
    BY <1>2 DEF ReadWindow, ReadAs
  <2> QED
    BY <1>0, <1>2, <2>1, ArgumentEffect
<1> QED
  BY <1>1, <1>2

\* The argument of SQLiteQuery.fillWindow.
LEMMA FillArgumentEffect ==
    ASSUME Types, NEW t \in Threads, FillArgument(t)
    PROVE  /\ Kept(t)
           /\ call'[t].pc = "acquireQuery"
           /\ call'[t].then = call[t].then /\ call'[t].read = mWindow
           /\ call'[t].requeried = call[t].requeried /\ call'[t].outcome = call[t].outcome
           /\ call'[t].failed = call[t].failed
<1>1. call \in [Threads -> Call] /\ mWindow \in Windows \cup {NULL}
  BY DEF Types, TypeOK
<1>2. "acquireQuery" \in Labels
  BY DEF Labels
<1>3. ReadAs(t, "acquireQuery", mWindow)
  BY DEF FillArgument, ReadAs
<1> QED
  BY <1>1, <1>2, <1>3, ArgumentEffect

\* The cursor was asked again.
LEMMA RequeriedEffect ==
    ASSUME call \in [Threads -> Call], NEW t \in Threads, NEW label \in Labels,
           call' = [call EXCEPT ![t].pc = label, ![t].requeried = TRUE]
    PROVE  /\ Kept(t)
           /\ call'[t].pc = label
           /\ call'[t].read = call[t].read /\ call'[t].outcome = call[t].outcome
           /\ call'[t].failed = call[t].failed
<1> DEFINE c == [call[t] EXCEPT !.pc = label, !.requeried = TRUE]
<1>1. call' = [call EXCEPT ![t] = c]
  OBVIOUS
<1>2. c \in Call
  BY DEF Call
<1>3. /\ c.pc = label /\ c.read = call[t].read /\ c.want = call[t].want
      /\ c.outcome = call[t].outcome /\ c.failed = call[t].failed
  BY DEF Call
<1> HIDE DEF c
<1>4. call'[t] = c /\ Others(t) /\ call' \in [Threads -> Call]
  BY <1>1, <1>2 DEF Others
<1> QED
  BY <1>3, <1>4 DEF Kept

\* Where to go on is remembered.
ThenAs(t, label, next) == call' = [call EXCEPT ![t].pc = label, ![t].then = next]

\* That changes the label and the local.
LEMMA ThenEffect ==
    ASSUME call \in [Threads -> Call], NEW t \in Threads, NEW label \in Labels,
           NEW next \in Nexts, ThenAs(t, label, next)
    PROVE  /\ Kept(t)
           /\ call'[t].pc = label
           /\ call'[t].then = next /\ call'[t].read = call[t].read
           /\ call'[t].requeried = call[t].requeried /\ call'[t].outcome = call[t].outcome
           /\ call'[t].failed = call[t].failed
<1> DEFINE c == [call[t] EXCEPT !.pc = label, !.then = next]
<1>1. call' = [call EXCEPT ![t] = c]
  BY DEF ThenAs
<1>2. c \in Call
  BY DEF Call
<1>3. /\ c.pc = label /\ c.then = next /\ c.read = call[t].read /\ c.want = call[t].want
      /\ c.requeried = call[t].requeried /\ c.outcome = call[t].outcome
      /\ c.failed = call[t].failed
  BY DEF Call
<1> HIDE DEF c
<1>4. call'[t] = c /\ Others(t) /\ call' \in [Threads -> Call]
  BY <1>1, <1>2 DEF Others
<1> QED
  BY <1>3, <1>4 DEF Kept

\* A query that failed, and what its handlers will do.
FailsThen(t, label, next) ==
    call' = [call EXCEPT ![t].pc = label, ![t].then = next, ![t].failed = TRUE]

\* That changes label, local and whether the call has failed.
LEMMA FailsThenEffect ==
    ASSUME call \in [Threads -> Call], NEW t \in Threads, NEW label \in Labels, NEW next \in Nexts,
           FailsThen(t, label, next)
    PROVE  /\ Kept(t)
           /\ call'[t].pc = label
           /\ call'[t].then = next /\ call'[t].read = call[t].read
           /\ call'[t].requeried = call[t].requeried /\ call'[t].outcome = call[t].outcome
           /\ call'[t].failed
<1> DEFINE c == [call[t] EXCEPT !.pc = label, !.then = next, !.failed = TRUE]
<1>1. call' = [call EXCEPT ![t] = c]
  BY DEF FailsThen
<1>2. c \in Call
  BY DEF Call
<1>3. /\ c.pc = label /\ c.then = next /\ c.read = call[t].read /\ c.want = call[t].want
      /\ c.requeried = call[t].requeried /\ c.outcome = call[t].outcome /\ c.failed
  BY DEF Call
<1> HIDE DEF c
<1>4. call'[t] = c /\ Others(t) /\ call' \in [Threads -> Call]
  BY <1>1, <1>2 DEF Others
<1> QED
  BY <1>3, <1>4 DEF Kept

\* A call has its outcome.
LEMMA OutcomeEffect ==
    ASSUME call \in [Threads -> Call], NEW t \in Threads,
           NEW outcome \in Tiles \cup {"none", "NO_TILE", "threw"},
           call' = [call EXCEPT ![t].pc = "leave", ![t].outcome = outcome]
    PROVE  /\ Kept(t)
           /\ call'[t].pc = "leave"
           /\ call'[t].read = call[t].read
           /\ call'[t].requeried = call[t].requeried /\ call'[t].outcome = outcome
           /\ call'[t].failed = call[t].failed
<1> DEFINE c == [call[t] EXCEPT !.pc = "leave", !.outcome = outcome]
<1>1. call' = [call EXCEPT ![t] = c]
  OBVIOUS
<1>2. "leave" \in Labels
  BY DEF Labels
<1>3. c \in Call
  BY <1>2 DEF Call
<1>4. /\ c.pc = "leave" /\ c.read = call[t].read /\ c.want = call[t].want
      /\ c.requeried = call[t].requeried /\ c.outcome = outcome /\ c.failed = call[t].failed
  BY DEF Call
<1> HIDE DEF c
<1>5. call'[t] = c /\ Others(t) /\ call' \in [Threads -> Call]
  BY <1>1, <1>3 DEF Others
<1> QED
  BY <1>4, <1>5 DEF Kept

-----------------------------------------------------------------------------
(* Steps that only move a thread along *)

\* A step that changes nothing in the thread's call but its label, what it has read from
\* mWindow, where it goes on and whether it has failed.
MovesOn(t) ==
    /\ Kept(t)
    /\ call[t].pc \notin Outside \cup {"leave"} /\ call'[t].pc \notin Outside
    /\ call'[t].requeried = call[t].requeried /\ call'[t].outcome = call[t].outcome
    /\ call'[t].read \in {call[t].read, mWindow}
    /\ call'[t].pc \in Requerying => call[t].pc \in Requerying
    /\ call'[t].pc \in {"clearUse", "blobUse"} => mWindow # NULL /\ call'[t].read = mWindow
    /\ call'[t].pc = "reset" /\ mWindow # NULL => holds[mWindow] = NULL

\* What such a step leaves alone of what the invariant says of the thread.
LEMMA MovesOnStep ==
    ASSUME IInv, NEW t \in Threads, MovesOn(t),
           UNCHANGED <<native, holds, mBindArgs, mWindow, monitor, load>>
    PROVE  InMonitor(t)' /\ OwnTile(t)'
<1>0. /\ InMonitor(t) /\ OwnTile(t)
      /\ mWindow # NULL => native[mWindow] # "none"
  BY DEF IInv, WindowShape
<1>1. InMonitor(t)'
  BY <1>0 DEF MovesOn, Kept, InMonitor, Outside
<1>2. /\ (call[t].pc \notin {"idle", "leave"} => call[t].outcome = "none")'
      /\ (call[t].read # NULL => native[call[t].read] # "none")'
      /\ (call[t].pc = "clearUse" => mWindow \in {call[t].read, NULL})'
      /\ (call[t].pc = "reset" /\ mWindow # NULL => holds[mWindow] = NULL)'
      /\ (call[t].pc = "blobUse" => call[t].read # NULL)'
  BY <1>0 DEF MovesOn, OwnTile, Outside
<1>3. (call[t].pc \in {"enter"} \cup Requerying => ~call[t].requeried)'
  BY <1>0 DEF MovesOn, OwnTile, Outside
<1>4. (call[t].requeried /\ call[t].pc \notin {"idle", "leave"} /\ mWindow # NULL
          => holds[mWindow] \in {call[t].want, NULL})'
  BY <1>0 DEF MovesOn, Kept, OwnTile, Outside
<1>5. (call[t].requeried /\ call[t].pc = "blobUse"
          => holds[call[t].read] \in {call[t].want, NULL})'
  <2> SUFFICES ASSUME call'[t].requeried, call'[t].pc = "blobUse"
               PROVE  holds[mWindow] \in {call[t].want, NULL}
    BY DEF MovesOn, Kept
  <2> QED
    BY <1>0 DEF MovesOn, OwnTile, Outside
<1>6. (call[t].requeried /\ call[t].outcome \in Tiles => call[t].outcome = call[t].want)'
  BY <1>0 DEF MovesOn, Kept, OwnTile
<1> QED
  BY <1>1, <1>2, <1>3, <1>4, <1>5, <1>6 DEF OwnTile

\* Steps that leave the resources, mWindow and the monitor alone, outside of a query.
Quiet(t) ==
    \/ RequeryIfOpen(t) \/ RequeryLock(t) \/ ClearTest(t) \/ ClearRead(t) \/ Reset(t)
    \/ FillRead(t) \/ FillArgument(t) \/ Counting(t) \/ CapacityRead(t) \/ CapacityUse(t)
    \/ Catch(t) \/ CatchRead(t)
    \/ moveToPosition(t) \/ getBlob(t)

\* What a quiet step leaves unchanged, and the types of the rest.
LEMMA QuietFrame ==
    ASSUME Types, NEW t \in Threads, Quiet(t)
    PROVE  /\ UNCHANGED windowVars /\ UNCHANGED queryVars /\ UNCHANGED poolVars
           /\ UNCHANGED mWindow /\ UNCHANGED monitor
           /\ mCount' \in {NO_COUNT, 0, 1} /\ mPos' \in {-1, 0}
           /\ cursorLock' \in Threads \cup {NULL}
<1>0. mCount \in {NO_COUNT, 0, 1} /\ mPos \in {-1, 0} /\ cursorLock \in Threads \cup {NULL}
  BY DEF Types, TypeOK
<1>1. CASE RequeryIfOpen(t) \/ RequeryLock(t) \/ ClearTest(t) \/ ClearRead(t)
  BY <1>0, <1>1 DEF RequeryIfOpen, RequeryLock, ClearTest, ClearRead, resourceVars, cursorVars,
       lockVars
<1>2. CASE Reset(t)
  BY <1>0, <1>2 DEF Reset, resourceVars
<1>3. CASE FillRead(t) \/ FillArgument(t) \/ CapacityRead(t) \/ CapacityUse(t) \/ CatchRead(t)
  BY <1>0, <1>3 DEF FillRead, FillArgument, CapacityRead, CapacityUse, CatchRead, resourceVars,
       cursorVars, lockVars
<1>4. CASE Counting(t)
  BY <1>0, <1>4 DEF Counting, resourceVars, lockVars
<1>5. CASE Catch(t)
  BY <1>0, <1>5 DEF Catch, resourceVars, lockVars
<1>6. CASE moveToPosition(t)
  BY <1>0, <1>6 DEF moveToPosition, getCount, Counted, MoveTest, MoveRead, MoveUse, Moved,
       resourceVars, cursorVars, lockVars
<1>7. CASE getBlob(t)
  BY <1>0, <1>7 DEF getBlob, BlobTest, BlobRead, BlobUse, resourceVars, cursorVars, lockVars
<1> QED
  BY <1>1, <1>2, <1>3, <1>4, <1>5, <1>6, <1>7 DEF Quiet

\* Before and after a quiet step the thread is in the provider, and has no reference.
NoReference(label) == label \in Labels \ (Outside \cup InQuery)

\* A quiet step of requery keeps what the invariant says of the thread.
LEMMA QuietRequery ==
    ASSUME IInv, NEW t \in Threads, Quiet(t),
           RequeryIfOpen(t) \/ RequeryLock(t) \/ ClearTest(t) \/ ClearRead(t) \/ Reset(t),
           UNCHANGED load
    PROVE  /\ Kept(t) /\ NoReference(call[t].pc) /\ NoReference(call'[t].pc)
           /\ InMonitor(t)' /\ GoesOn(t)' /\ OwnTile(t)'
<1> USE DEF At, NoReference, Labels, Outside, InQuery, Requerying
<1>0. call \in [Threads -> Call] /\ Types /\ GoesOn(t)
  BY DEF IInv, Types
<1>a. UNCHANGED <<native, holds, mBindArgs, mWindow, monitor, load>>
  BY <1>0, QuietFrame DEF windowVars, queryVars
<1>1. CASE RequeryIfOpen(t)
  <2>1. Goto(t, "count") \/ Goto(t, "lock")
    BY <1>1 DEF RequeryIfOpen
  <2>2. MovesOn(t) /\ GoesOn(t)' /\ NoReference(call[t].pc) /\ NoReference(call'[t].pc)
    BY <1>0, <1>1, <2>1, GotoEffect DEF RequeryIfOpen, MovesOn, GoesOn, Failing,
         InHandler, Disposing, AfterFill
  <2> QED
    BY <1>a, <2>2, MovesOnStep DEF MovesOn
<1>2. CASE RequeryLock(t)
  <2>1. Goto(t, "count") \/ Goto(t, "clearTest")
    BY <1>2 DEF RequeryLock
  <2>2. MovesOn(t) /\ GoesOn(t)' /\ NoReference(call[t].pc) /\ NoReference(call'[t].pc)
    BY <1>0, <1>2, <2>1, GotoEffect DEF RequeryLock, MovesOn, GoesOn, Failing,
         InHandler, Disposing, AfterFill
  <2> QED
    BY <1>a, <2>2, MovesOnStep DEF MovesOn
<1>3. CASE ClearTest(t)
  <2>1. (mWindow = NULL /\ Goto(t, "reset")) \/ Goto(t, "clearRead")
    BY <1>3 DEF ClearTest
  <2>2. MovesOn(t) /\ GoesOn(t)' /\ NoReference(call[t].pc) /\ NoReference(call'[t].pc)
    BY <1>0, <1>3, <2>1, GotoEffect DEF ClearTest, MovesOn, GoesOn, Failing,
         InHandler, Disposing, AfterFill
  <2> QED
    BY <1>a, <2>2, MovesOnStep DEF MovesOn
<1>4. CASE ClearRead(t)
  <2>1. ReadWindow(t, "clearUse")
    BY <1>4 DEF ClearRead
  <2>2. MovesOn(t) /\ GoesOn(t)' /\ NoReference(call[t].pc) /\ NoReference(call'[t].pc)
    BY <1>0, <1>4, <2>1, ReadEffect DEF ClearRead, MovesOn, GoesOn, Failing,
         InHandler, Disposing, AfterFill
  <2> QED
    BY <1>a, <2>2, MovesOnStep DEF MovesOn
<1>5. CASE Reset(t)
  <2>1. call' = [call EXCEPT ![t].pc = "count", ![t].requeried = TRUE] /\ call[t].pc = "reset"
    BY <1>5 DEF Reset
  <2>2. /\ Kept(t) /\ call'[t].pc = "count"
        /\ UNCHANGED <<call[t].read, call[t].outcome, call[t].failed>>
    BY <1>0, <2>1, RequeriedEffect
  <2>5. /\ InMonitor(t) /\ OwnTile(t)
    BY DEF IInv
  <2>6. InMonitor(t)'
    BY <1>a, <2>1, <2>2, <2>5 DEF InMonitor, Kept
  <2>7. call'[t].outcome = "none" /\ (mWindow' # NULL => holds'[mWindow'] = NULL)
    BY <1>a, <2>1, <2>2, <2>5 DEF OwnTile
  <2>8. call'[t].read # NULL => native'[call'[t].read] # "none"
    BY <1>a, <2>2, <2>5 DEF OwnTile
  <2>9. OwnTile(t)'
    BY <2>2, <2>7, <2>8, TileAssumption DEF OwnTile
  <2>10. GoesOn(t)'
    BY <1>0, <2>1, <2>2 DEF GoesOn, Failing, InHandler, Disposing
  <2> QED
    BY <2>1, <2>2, <2>6, <2>9, <2>10
<1> QED
  BY <1>1, <1>2, <1>3, <1>4, <1>5

\* A quiet step of fillWindow keeps what the invariant says of the thread.
LEMMA QuietFill ==
    ASSUME IInv, NEW t \in Threads, Quiet(t),
           \/ FillRead(t) \/ FillArgument(t) \/ Counting(t) \/ CapacityRead(t)
           \/ CapacityUse(t) \/ Catch(t) \/ CatchRead(t),
           UNCHANGED load
    PROVE  /\ Kept(t) /\ NoReference(call[t].pc) /\ NoReference(call'[t].pc)
           /\ InMonitor(t)' /\ GoesOn(t)' /\ OwnTile(t)'
<1> USE DEF At, NoReference, Labels, Outside, InQuery, Requerying
<1>0. call \in [Threads -> Call] /\ Types /\ InMonitor(t) /\ GoesOn(t)
  BY DEF IInv, Types
<1>a. UNCHANGED <<native, holds, mBindArgs, mWindow, monitor, load>>
  BY <1>0, QuietFrame DEF windowVars, queryVars
<1>1. CASE FillRead(t)
  <2>1. ReadWindow(t, "fillUse")
    BY <1>1 DEF FillRead
  <2>2. MovesOn(t) /\ GoesOn(t)' /\ NoReference(call[t].pc) /\ NoReference(call'[t].pc)
    BY <1>0, <1>1, <2>1, ReadEffect DEF FillRead, MovesOn, GoesOn, Failing,
         InHandler, Disposing, AfterFill
  <2> QED
    BY <1>a, <2>2, MovesOnStep DEF MovesOn
<1>2. CASE FillArgument(t)
  <2>2. /\ Kept(t) /\ call'[t].pc = "acquireQuery"
        /\ call'[t].then = call[t].then /\ call'[t].read = mWindow
        /\ call'[t].requeried = call[t].requeried /\ call'[t].outcome = call[t].outcome
        /\ call'[t].failed = call[t].failed
    BY <1>0, <1>2, FillArgumentEffect
  <2>3. MovesOn(t) /\ GoesOn(t)' /\ NoReference(call[t].pc) /\ NoReference(call'[t].pc)
    BY <1>0, <1>2, <2>2 DEF FillArgument, MovesOn, GoesOn, Failing,
         InHandler, Disposing, AfterFill
  <2> QED
    BY <1>a, <2>3, MovesOnStep DEF MovesOn
<1>3. CASE Counting(t)
  <2>1. call[t].then \in {"counted", "moved"}
    BY <1>0, <1>3 DEF Counting, GoesOn, Failing, AfterFill
  <2>2. Goto(t, "capacityRead") \/ Goto(t, call[t].then)
    BY <1>3 DEF Counting
  <2>3. MovesOn(t) /\ GoesOn(t)' /\ NoReference(call[t].pc) /\ NoReference(call'[t].pc)
    BY <1>0, <1>3, <2>1, <2>2, GotoEffect DEF Counting, MovesOn, GoesOn, Failing,
         InHandler, Disposing, AfterFill
  <2> QED
    BY <1>a, <2>3, MovesOnStep DEF MovesOn
<1>4. CASE CapacityRead(t)
  <2>1. Fails(t, "catch") \/ ReadWindow(t, "capacityUse")
    BY <1>4 DEF CapacityRead
  <2>2. MovesOn(t) /\ GoesOn(t)' /\ NoReference(call[t].pc) /\ NoReference(call'[t].pc)
    BY <1>0, <1>4, <2>1, FailsEffect, ReadEffect DEF CapacityRead, MovesOn, GoesOn, Failing,
         InHandler, Disposing, AfterFill
  <2> QED
    BY <1>a, <2>2, MovesOnStep DEF MovesOn
<1>5. CASE CapacityUse(t)
  <2>1. call[t].then \in {"counted", "moved"}
    BY <1>0, <1>5 DEF CapacityUse, GoesOn, Failing, AfterFill
  <2>2. Goto(t, call[t].then)
    BY <1>5 DEF CapacityUse
  <2>3. MovesOn(t) /\ GoesOn(t)' /\ NoReference(call[t].pc) /\ NoReference(call'[t].pc)
    BY <1>0, <1>5, <2>1, <2>2, GotoEffect DEF CapacityUse, MovesOn, GoesOn, Failing,
         InHandler, Disposing, AfterFill
  <2> QED
    BY <1>a, <2>3, MovesOnStep DEF MovesOn
<1>6. CASE Catch(t)
  <2>1. Goto(t, "leave") \/ Goto(t, "catchRead")
    BY <1>6 DEF Catch
  <2>2. MovesOn(t) /\ GoesOn(t)' /\ NoReference(call[t].pc) /\ NoReference(call'[t].pc)
    BY <1>0, <1>6, <2>1, GotoEffect DEF Catch, MovesOn, GoesOn, Failing,
         InHandler, Disposing, AfterFill
  <2> QED
    BY <1>a, <2>2, MovesOnStep DEF MovesOn
<1>7. CASE CatchRead(t)
  <2>1. ReadWindow(t, "catchRelease")
    BY <1>7 DEF CatchRead
  <2>2. MovesOn(t) /\ GoesOn(t)' /\ NoReference(call[t].pc) /\ NoReference(call'[t].pc)
    BY <1>0, <1>7, <2>1, ReadEffect DEF CatchRead, MovesOn, GoesOn, Failing,
         InHandler, Disposing, AfterFill
  <2> QED
    BY <1>a, <2>2, MovesOnStep DEF MovesOn
<1> QED
  BY <1>1, <1>2, <1>3, <1>4, <1>5, <1>6, <1>7

\* A step of moveToPosition keeps what the invariant says of the thread.
LEMMA QuietMove ==
    ASSUME IInv, NEW t \in Threads, Quiet(t), moveToPosition(t), UNCHANGED load
    PROVE  /\ Kept(t) /\ NoReference(call[t].pc) /\ NoReference(call'[t].pc)
           /\ InMonitor(t)' /\ GoesOn(t)' /\ OwnTile(t)'
<1> USE DEF At, NoReference, Labels, Outside, InQuery, Requerying
<1>0. call \in [Threads -> Call] /\ Types /\ InMonitor(t) /\ GoesOn(t)
  BY DEF IInv, Types
<1>a. UNCHANGED <<native, holds, mBindArgs, mWindow, monitor, load>>
  BY <1>0, QuietFrame DEF windowVars, queryVars
<1>1. CASE getCount(t)
  <2>1. PICK label \in {"fillTest", "counted"} : ThenAs(t, label, "counted")
    BY <1>1 DEF getCount, ThenAs
  <2>2. /\ Kept(t) /\ call'[t].pc = label
        /\ call'[t].then = "counted" /\ call'[t].read = call[t].read
        /\ call'[t].requeried = call[t].requeried /\ call'[t].outcome = call[t].outcome
        /\ call'[t].failed = call[t].failed
    <3>1. label \in Labels /\ "counted" \in Nexts
      BY DEF Nexts
    <3> HIDE DEF Labels
    <3> QED
      BY <1>0, <2>1, <3>1, ThenEffect
  <2>3. MovesOn(t) /\ GoesOn(t)' /\ NoReference(call[t].pc) /\ NoReference(call'[t].pc)
    BY <1>0, <1>1, <2>1, <2>2 DEF getCount, MovesOn, GoesOn, Failing,
         InHandler, Disposing, AfterFill
  <2> QED
    BY <1>a, <2>3, MovesOnStep DEF MovesOn
<1>2. CASE Counted(t)
  <2>1. CASE Goto(t, "blobTest") \/ Goto(t, "moveTest")
    <3>1. MovesOn(t) /\ GoesOn(t)' /\ NoReference(call[t].pc) /\ NoReference(call'[t].pc)
      BY <1>0, <1>2, <2>1, GotoEffect DEF Counted, MovesOn, GoesOn, Failing,
           InHandler, Disposing, AfterFill
    <3> QED
      BY <1>a, <3>1, MovesOnStep DEF MovesOn
  <2>2. CASE call' = [call EXCEPT ![t].pc = "leave", ![t].outcome = "NO_TILE"]
    <3>1. /\ Kept(t) /\ call'[t].pc = "leave" /\ call'[t].read = call[t].read
          /\ call'[t].outcome = "NO_TILE" /\ call'[t].failed = call[t].failed
      BY <1>0, <2>2, OutcomeEffect
    <3>2. call[t].pc = "counted"
      BY <1>2 DEF Counted
    <3>3. InMonitor(t)'
      BY <1>0, <1>a, <3>1, <3>2 DEF InMonitor, Kept
    <3>4. OwnTile(t)
      BY DEF IInv
    <3>5. OwnTile(t)'
      BY <1>a, <3>1, <3>4, TileAssumption DEF OwnTile
    <3>6. GoesOn(t)'
      BY <1>0, <3>1, <3>2 DEF GoesOn, Failing, InHandler, Disposing
    <3> QED
      BY <3>1, <3>2, <3>3, <3>5, <3>6
  <2> QED
    BY <1>2, <2>1, <2>2 DEF Counted
<1>3. CASE MoveTest(t)
  <2>1. PICK label \in {"fillTest", "moveRead"} : ThenAs(t, label, "moved")
    BY <1>3 DEF MoveTest, ThenAs
  <2>2. /\ Kept(t) /\ call'[t].pc = label
        /\ call'[t].then = "moved" /\ call'[t].read = call[t].read
        /\ call'[t].requeried = call[t].requeried /\ call'[t].outcome = call[t].outcome
        /\ call'[t].failed = call[t].failed
    <3>1. label \in Labels /\ "moved" \in Nexts
      BY DEF Nexts
    <3> HIDE DEF Labels
    <3> QED
      BY <1>0, <2>1, <3>1, ThenEffect
  <2>3. MovesOn(t) /\ GoesOn(t)' /\ NoReference(call[t].pc) /\ NoReference(call'[t].pc)
    BY <1>0, <1>3, <2>1, <2>2 DEF MoveTest, MovesOn, GoesOn, Failing,
         InHandler, Disposing, AfterFill
  <2> QED
    BY <1>a, <2>3, MovesOnStep DEF MovesOn
<1>4. CASE MoveRead(t)
  <2>1. ReadWindow(t, "moveUse")
    BY <1>4 DEF MoveRead
  <2>2. MovesOn(t) /\ GoesOn(t)' /\ NoReference(call[t].pc) /\ NoReference(call'[t].pc)
    BY <1>0, <1>4, <2>1, ReadEffect DEF MoveRead, MovesOn, GoesOn, Failing,
         InHandler, Disposing, AfterFill
  <2> QED
    BY <1>a, <2>2, MovesOnStep DEF MovesOn
<1>5. CASE MoveUse(t)
  <2>1. Goto(t, "fillTest") \/ Goto(t, "moved")
    BY <1>5 DEF MoveUse
  <2>2. MovesOn(t) /\ GoesOn(t)' /\ NoReference(call[t].pc) /\ NoReference(call'[t].pc)
    BY <1>0, <1>5, <2>1, GotoEffect DEF MoveUse, MovesOn, GoesOn, Failing,
         InHandler, Disposing, AfterFill
  <2> QED
    BY <1>a, <2>2, MovesOnStep DEF MovesOn
<1>6. CASE Moved(t)
  <2>1. Goto(t, "blobTest")
    BY <1>6 DEF Moved
  <2>2. MovesOn(t) /\ GoesOn(t)' /\ NoReference(call[t].pc) /\ NoReference(call'[t].pc)
    BY <1>0, <1>6, <2>1, GotoEffect DEF Moved, MovesOn, GoesOn, Failing,
         InHandler, Disposing, AfterFill
  <2> QED
    BY <1>a, <2>2, MovesOnStep DEF MovesOn
<1> QED
  BY <1>1, <1>2, <1>3, <1>4, <1>5, <1>6 DEF moveToPosition

\* A step of getBlob keeps what the invariant says of the thread: the tile it returns is the
\* one that was asked for.
LEMMA QuietBlob ==
    ASSUME IInv, NEW t \in Threads, Quiet(t), getBlob(t), UNCHANGED load
    PROVE  /\ Kept(t) /\ NoReference(call[t].pc) /\ NoReference(call'[t].pc)
           /\ InMonitor(t)' /\ GoesOn(t)' /\ OwnTile(t)'
<1> USE DEF At, NoReference, Labels, Outside, InQuery, Requerying
<1>0. call \in [Threads -> Call] /\ Types /\ InMonitor(t) /\ GoesOn(t)
  BY DEF IInv, Types
<1>a. UNCHANGED <<native, holds, mBindArgs, mWindow, monitor, load>>
  BY <1>0, QuietFrame DEF windowVars, queryVars
<1>1. CASE BlobTest(t)
  <2>1. Throws(t) \/ Goto(t, "blobRead")
    BY <1>1 DEF BlobTest
  <2>2. MovesOn(t) /\ GoesOn(t)' /\ NoReference(call[t].pc) /\ NoReference(call'[t].pc)
    BY <1>0, <1>1, <2>1, ThrowsEffect, GotoEffect DEF BlobTest, MovesOn, GoesOn, Failing,
         InHandler, Disposing, AfterFill
  <2> QED
    BY <1>a, <2>2, MovesOnStep DEF MovesOn
<1>2. CASE BlobRead(t)
  <2>1. ReadWindow(t, "blobUse")
    BY <1>2 DEF BlobRead
  <2>2. MovesOn(t) /\ GoesOn(t)' /\ NoReference(call[t].pc) /\ NoReference(call'[t].pc)
    BY <1>0, <1>2, <2>1, ReadEffect DEF BlobRead, MovesOn, GoesOn, Failing,
         InHandler, Disposing, AfterFill
  <2> QED
    BY <1>a, <2>2, MovesOnStep DEF MovesOn
<1>3. CASE BlobUse(t)
  <2> DEFINE tile == holds[call[t].read]
  <2>1. call[t].pc = "blobUse"
    BY <1>3 DEF BlobUse
  <2>2. CASE tile = NULL
    <3>1. Throws(t)
      BY <1>3, <2>2 DEF BlobUse
    <3>2. MovesOn(t) /\ GoesOn(t)' /\ NoReference(call[t].pc) /\ NoReference(call'[t].pc)
      BY <1>0, <2>1, <3>1, ThrowsEffect DEF MovesOn, GoesOn, Failing,
           InHandler, Disposing, AfterFill
    <3> QED
      BY <1>a, <3>2, MovesOnStep DEF MovesOn
  <2>3. CASE tile # NULL
    <3>1. call' = [call EXCEPT ![t].pc = "leave", ![t].outcome = tile]
      BY <1>3, <2>3 DEF BlobUse
    <3>2. call[t].read \in Windows /\ holds \in [Windows -> Stored \cup {NULL}]
      BY <1>0, <2>1 DEF Types, TypeOK, IInv, OwnTile
    <3>3. tile \in Tiles
      BY <2>3, <3>2, TileAssumption
    <3>4. /\ Kept(t) /\ call'[t].pc = "leave" /\ call'[t].read = call[t].read
          /\ call'[t].requeried = call[t].requeried /\ call'[t].outcome = tile
          /\ call'[t].failed = call[t].failed
      BY <1>0, <3>1, <3>3, OutcomeEffect
    <3>5. InMonitor(t)'
      BY <1>0, <1>a, <2>1, <3>4 DEF InMonitor, Kept
    <3>6. OwnTile(t)
      BY DEF IInv
    <3>7. call'[t].requeried => tile = call'[t].want
      BY <2>1, <2>3, <3>4, <3>6 DEF OwnTile, Kept
    <3>8. call'[t].read # NULL => native'[call'[t].read] # "none"
      BY <1>a, <3>4, <3>6 DEF OwnTile
    <3>9. OwnTile(t)'
      BY <3>4, <3>7, <3>8 DEF OwnTile
    <3>10. GoesOn(t)'
      BY <1>0, <2>1, <3>4 DEF GoesOn, Failing, InHandler, Disposing
    <3> QED
      BY <2>1, <3>4, <3>5, <3>9, <3>10
  <2> QED
    BY <2>2, <2>3
<1> QED
  BY <1>1, <1>2, <1>3 DEF getBlob

-----------------------------------------------------------------------------
(* The other threads, and quiet steps as a whole *)

\* While a thread is in the provider the others are outside, and its steps keep what the
\* invariant says of them.
LEMMA OthersStep ==
    ASSUME IInv, NEW t \in Threads, Others(t), UNCHANGED load,
           call[t].pc \notin Outside \/ monitor = NULL,
           \A w \in Windows : native[w] # "none" => native'[w] # "none"
    PROVE  /\ \A u \in Threads \ {t} : call[u].pc \in Outside /\ call'[u] = call[u]
           /\ \A u \in Threads \ {t} : InMonitor(u)' /\ GoesOn(u)' /\ WindowHeld(u)' /\ OwnTile(u)'
<1> SUFFICES ASSUME NEW u \in Threads \ {t}
             PROVE  /\ call[u].pc \in Outside /\ call'[u] = call[u]
                    /\ InMonitor(u)' /\ GoesOn(u)' /\ WindowHeld(u)' /\ OwnTile(u)'
  OBVIOUS
<1>0. InMonitor(t) /\ InMonitor(u) /\ GoesOn(u) /\ OwnTile(u) /\ call'[u] = call[u]
  BY DEF IInv, Others
<1>1. call[u].pc \in Outside
  BY <1>0, TileAssumption DEF InMonitor
<1>2. InMonitor(u)'
  BY <1>0, <1>1 DEF InMonitor
<1>3. WindowHeld(u)'
  BY <1>0, <1>1 DEF WindowHeld, Outside, HoldingOne, HoldingTwo
<1>4. call[u].read \in Windows \cup {NULL}
  BY DEF IInv, Types, TypeOK
<1>5. OwnTile(u)'
  BY <1>0, <1>1, <1>4 DEF OwnTile, Outside, Requerying
<1>6. GoesOn(u)'
  BY <1>0 DEF GoesOn
<1> QED
  BY <1>0, <1>1, <1>2, <1>3, <1>5, <1>6

\* A step after which a thread is in a query exactly if it was keeps the references of the
\* query, if it does not touch them.
LEMMA QueryFrame ==
    ASSUME QueryShape, UNCHANGED <<queryRefs, load, main>>,
           \A u \in Threads : call'[u].pc \in InQuery <=> call[u].pc \in InQuery
    PROVE  QueryShape'
<1>1. \A n : QueryRefs(n)' <=> QueryRefs(n)
  BY DEF QueryRefs
<1> QED
  BY <1>1 DEF QueryShape

\* Likewise for the connection.
LEMMA PoolFrame ==
    ASSUME PoolShape, UNCHANGED poolVars, UNCHANGED <<load, main>>,
           \A u \in Threads : call'[u].pc \in Connected <=> call[u].pc \in Connected
    PROVE  PoolShape'
  BY DEF PoolShape, poolVars

\* And for the database.
LEMMA DatabaseFrame ==
    ASSUME DatabaseShape, UNCHANGED <<dbRefs, dbOpen, mIsOpen, load, main>>,
           \A u \in Threads : /\ call'[u].pc \in HasDatabase <=> call[u].pc \in HasDatabase
                              /\ call'[u].pc \in Disposing <=> call[u].pc \in Disposing
    PROVE  DatabaseShape'
<1>1. Standing' = Standing
  BY DEF Standing
<1> QED
  BY <1>1 DEF DatabaseShape

\* A step of a thread without references keeps the invariant if it keeps what is said of the
\* thread and of the windows.
LEMMA NoReferenceStep ==
    ASSUME IInv, NEW t \in Threads, Kept(t), NoReference(call[t].pc), NoReference(call'[t].pc),
           UNCHANGED loadVars, UNCHANGED mainVars, UNCHANGED queryVars, UNCHANGED poolVars,
           UNCHANGED monitor,
           native' \in [Windows -> {"none", "live", "disposed"}],
           windowRefs' \in [Windows -> Int], holds' \in [Windows -> Stored \cup {NULL}],
           mWindow' \in Windows \cup {NULL}, mCount' \in {NO_COUNT, 0, 1}, mPos' \in {-1, 0},
           cursorLock' \in Threads \cup {NULL},
           \A w \in Windows : native[w] # "none" => native'[w] # "none",
           InMonitor(t)', GoesOn(t)', OwnTile(t)', WindowShape'
    PROVE  IInv'
<1>0. /\ Types /\ UNCHANGED load /\ UNCHANGED main
      /\ ProviderShape /\ QueryShape /\ PoolShape /\ DatabaseShape
  BY DEF IInv, loadVars, mainVars
<1>1. Types'
  <2>1. call' \in [Threads -> Call]
    BY DEF Kept
  <2>2. \A u \in Threads : call'[u].read \in Windows \cup {NULL}
    BY <2>1 DEF Call
  <2> QED
    BY <1>0, <2>1, <2>2 DEF Types, TypeOK, queryVars, poolVars, mainVars
<1>2. /\ \A u \in Threads \ {t} : call[u].pc \in Outside /\ call'[u] = call[u]
      /\ \A u \in Threads \ {t} : InMonitor(u)' /\ GoesOn(u)' /\ WindowHeld(u)' /\ OwnTile(u)'
  BY <1>0, OthersStep DEF Kept, NoReference
<1>3. WindowHeld(t)'
  BY DEF WindowHeld, NoReference, HoldingOne, HoldingTwo, InQuery
<1>4. ProviderShape'
  BY <1>0 DEF ProviderShape, loadVars
<1>5. QueryShape'
  <2>1. \A u \in Threads : call'[u].pc \in InQuery <=> call[u].pc \in InQuery
    BY <1>2 DEF NoReference
  <2> QED
    BY <1>0, <2>1, QueryFrame DEF queryVars
<1>6. PoolShape'
  <2>1. \A u \in Threads : call'[u].pc \in Connected <=> call[u].pc \in Connected
    BY <1>2 DEF NoReference, Connected, InQuery
  <2> QED
    BY <1>0, <2>1, PoolFrame
<1>7. DatabaseShape'
  <2>1. \A u \in Threads : /\ call'[u].pc \in HasDatabase <=> call[u].pc \in HasDatabase
                           /\ call'[u].pc \in Disposing <=> call[u].pc \in Disposing
    BY <1>2 DEF NoReference, HasDatabase, Disposing, InQuery
  <2> QED
    BY <1>0, <2>1, DatabaseFrame DEF poolVars
<1> QED
  BY <1>1, <1>2, <1>3, <1>4, <1>5, <1>6, <1>7 DEF IInv

\* A quiet step keeps the invariant.
LEMMA QuietStep ==
    ASSUME IInv, NEW t \in Threads, Quiet(t), UNCHANGED loadVars, UNCHANGED mainVars
    PROVE  IInv'
<1>0. Types /\ TypeOK /\ WindowShape /\ UNCHANGED load
  BY DEF IInv, Types, loadVars
<1>1. /\ Kept(t) /\ NoReference(call[t].pc) /\ NoReference(call'[t].pc)
      /\ InMonitor(t)' /\ GoesOn(t)' /\ OwnTile(t)'
  BY <1>0, QuietRequery, QuietFill, QuietMove, QuietBlob DEF Quiet
<1>2. /\ UNCHANGED windowVars /\ UNCHANGED queryVars /\ UNCHANGED poolVars
      /\ UNCHANGED mWindow /\ UNCHANGED monitor
      /\ mCount' \in {NO_COUNT, 0, 1} /\ mPos' \in {-1, 0}
      /\ cursorLock' \in Threads \cup {NULL}
  BY <1>0, QuietFrame
<1>3. /\ native' \in [Windows -> {"none", "live", "disposed"}]
      /\ windowRefs' \in [Windows -> Int] /\ holds' \in [Windows -> Stored \cup {NULL}]
      /\ mWindow' \in Windows \cup {NULL}
      /\ \A w \in Windows : native[w] # "none" => native'[w] # "none"
  BY <1>0, <1>2 DEF TypeOK, windowVars
<1>4. WindowShape'
  BY <1>0, <1>2 DEF WindowShape, windowVars
<1> QED
  BY <1>1, <1>2, <1>3, <1>4, NoReferenceStep

-----------------------------------------------------------------------------
(* Steps on the window outside of a query *)

\* After requery(), before the tile is read.
Middle == Labels \ (Outside \cup Requerying \cup {"count", "leave", "blobUse"})

\* Such a step keeps what the invariant says of the thread if the window it leaves the cursor
\* is the old one as it was, or an empty one, or one with the tile of the bound arguments.
LEMMA MiddleStep ==
    ASSUME IInv, NEW t \in Threads, Kept(t), UNCHANGED load, UNCHANGED monitor,
           call[t].pc \in Middle, call'[t].pc \in Middle \cup {"leave"},
           call'[t].read = call[t].read,
           call'[t].requeried = call[t].requeried, call'[t].outcome = call[t].outcome,
           mBindArgs' \in {mBindArgs, NULL},
           \A w \in Windows : native[w] # "none" => native'[w] # "none",
           mWindow' # NULL => \/ holds'[mWindow'] \in {mBindArgs, NULL}
                              \/ mWindow' = mWindow /\ holds'[mWindow] = holds[mWindow]
    PROVE  InMonitor(t)' /\ OwnTile(t)'
<1>0. InMonitor(t) /\ OwnTile(t) /\ call[t].read \in Windows \cup {NULL}
  BY DEF IInv, Types, TypeOK
<1>1. call[t].pc \notin Outside \cup Requerying \cup {"count", "leave", "idle"}
  BY DEF Middle, Outside
<1>2. /\ call'[t].pc \notin Outside \cup Requerying \cup {"count", "idle", "blobUse"}
      /\ call'[t].pc \notin {"enter", "clearUse", "reset"}
  BY DEF Middle, Outside, Requerying
<1>3. mBindArgs \in {call[t].want, NULL}
  BY <1>0, <1>1 DEF InMonitor
<1>4. InMonitor(t)'
  BY <1>0, <1>1, <1>2, <1>3 DEF InMonitor, Kept
<1>5. /\ (call[t].pc \notin {"idle", "leave"} => call[t].outcome = "none")'
      /\ (call[t].read # NULL => native[call[t].read] # "none")'
  BY <1>0, <1>1 DEF OwnTile
<1>6. (call[t].requeried /\ call[t].pc \notin {"idle", "leave"} /\ mWindow # NULL
          => holds[mWindow] \in {call[t].want, NULL})'
  BY <1>0, <1>1, <1>3 DEF OwnTile, Kept
<1>7. (call[t].requeried /\ call[t].outcome \in Tiles => call[t].outcome = call[t].want)'
  BY <1>0 DEF OwnTile, Kept
<1> QED
  BY <1>2, <1>4, <1>5, <1>6, <1>7 DEF OwnTile

\* Releasing a window keeps types, counts and the windows that were created.
LEMMA ReleaseEffect ==
    ASSUME Types, WindowShape, NEW w, releaseWindow(w), UNCHANGED mWindow
    PROVE  /\ native' \in [Windows -> {"none", "live", "disposed"}]
           /\ windowRefs' \in [Windows -> Int] /\ holds' \in [Windows -> Stored \cup {NULL}]
           /\ \A v \in Windows : native[v] # "none" => native'[v] # "none"
           /\ WindowShape'
<1>0. /\ native \in [Windows -> {"none", "live", "disposed"}]
      /\ windowRefs \in [Windows -> Int] /\ holds \in [Windows -> Stored \cup {NULL}]
      /\ mWindow \in Windows \cup {NULL}
  BY DEF Types, TypeOK
<1>1. UNCHANGED holds
  BY DEF releaseWindow
<1>2. windowRefs' \in [Windows -> Int] /\ native' \in [Windows -> {"none", "live", "disposed"}]
  <2>1. windowRefs' = [windowRefs EXCEPT ![w] = windowRefs[w] - 1]
    BY DEF releaseWindow
  <2>2. native' = native \/ native' = [native EXCEPT ![w] = "disposed"]
    BY DEF releaseWindow
  <2>3. \A v \in Windows : windowRefs[v] - 1 \in Int
    BY <1>0
  <2> QED
    BY <1>0, <2>1, <2>2, <2>3
<1>3. \A v \in Windows : windowRefs'[v] = IF v = w THEN windowRefs[v] - 1 ELSE windowRefs[v]
  BY <1>0 DEF releaseWindow
<1>4. \A v \in Windows : native'[v] = IF v = w /\ windowRefs[v] = 1 THEN "disposed" ELSE native[v]
  BY <1>0 DEF releaseWindow
<1>5. \A v \in Windows : native'[v] = "live" <=> windowRefs'[v] > 0
  <2> SUFFICES ASSUME NEW v \in Windows
               PROVE  native'[v] = "live" <=> windowRefs'[v] > 0
    OBVIOUS
  <2>1. windowRefs[v] \in Int /\ (native[v] = "live" <=> windowRefs[v] > 0)
    BY <1>0 DEF WindowShape
  <2>2. CASE v = w
    BY <1>3, <1>4, <2>1, <2>2
  <2>3. CASE v # w
    BY <1>3, <1>4, <2>1, <2>3
  <2> QED
    BY <2>2, <2>3
<1>6. \A v \in Windows : native[v] # "none" => native'[v] # "none"
  BY <1>4
<1>7. \A v \in Windows : native'[v] = "none" => native[v] = "none"
  BY <1>4
<1>8. WindowShape'
  BY <1>0, <1>1, <1>5, <1>6, <1>7 DEF WindowShape
<1> QED
  BY <1>0, <1>1, <1>2, <1>6, <1>8

\* Clearing a window likewise.
LEMMA ClearEffect ==
    ASSUME Types, WindowShape, NEW w, ClearWindow(w), UNCHANGED mWindow
    PROVE  /\ UNCHANGED <<native, windowRefs>> /\ holds' \in [Windows -> Stored \cup {NULL}]
           /\ \A v \in Windows : holds'[v] = IF v = w THEN NULL ELSE holds[v]
           /\ WindowShape'
<1>0. holds \in [Windows -> Stored \cup {NULL}] /\ mWindow \in Windows \cup {NULL}
  BY DEF Types, TypeOK
<1>1. UNCHANGED <<native, windowRefs>>
  BY DEF ClearWindow
<1>2. /\ holds' \in [Windows -> Stored \cup {NULL}]
      /\ \A v \in Windows : holds'[v] = IF v = w THEN NULL ELSE holds[v]
  BY <1>0 DEF ClearWindow
<1>3. WindowShape'
  BY <1>1, <1>2 DEF WindowShape
<1> QED
  BY <1>1, <1>2, <1>3

\* Clearing the window in requery() and in fillWindow keeps the invariant.
LEMMA ClearStep ==
    ASSUME IInv, NEW t \in Threads, ClearUse(t) \/ FillUse(t),
           UNCHANGED loadVars, UNCHANGED mainVars
    PROVE  IInv'
<1>0. Types /\ TypeOK /\ WindowShape /\ call \in [Threads -> Call] /\ UNCHANGED load
  BY DEF IInv, Types, loadVars
<1>1. /\ UNCHANGED queryVars /\ UNCHANGED poolVars /\ UNCHANGED <<mWindow, mCount, mPos>>
      /\ UNCHANGED <<monitor, cursorLock>> /\ ClearWindow(call[t].read)
  BY DEF ClearUse, FillUse, cursorVars, lockVars
<1>2. /\ UNCHANGED <<native, windowRefs>> /\ holds' \in [Windows -> Stored \cup {NULL}]
      /\ \A v \in Windows : holds'[v] = IF v = call[t].read THEN NULL ELSE holds[v]
      /\ WindowShape'
  BY <1>0, <1>1, ClearEffect
<1>3. PICK label \in {"reset", "fillArgument"} :
         /\ Goto(t, label)
         /\ call[t].pc = IF label = "reset" THEN "clearUse" ELSE "fillUse"
  BY DEF ClearUse, FillUse, At
<1>4. label \in Labels /\ NoReference(call[t].pc) /\ NoReference(label)
  BY <1>3 DEF Labels, NoReference, Outside, InQuery
<1>5. /\ Kept(t) /\ call'[t].pc = label
      /\ call'[t].then = call[t].then /\ call'[t].read = call[t].read
      /\ call'[t].requeried = call[t].requeried /\ call'[t].outcome = call[t].outcome
      /\ call'[t].failed = call[t].failed
  BY <1>0, <1>3, <1>4, GotoEffect
<1>6. mWindow \in Windows \cup {NULL}
  BY <1>0 DEF TypeOK
<1>7. InMonitor(t)' /\ OwnTile(t)'
  <2>1. CASE label = "fillArgument"
    <3>1. call[t].pc \in Middle /\ call'[t].pc \in Middle
      BY <1>3, <1>5, <2>1 DEF Middle, Labels, Outside, Requerying
    <3> QED
      BY <1>0, <1>1, <1>2, <1>5, <1>6, <3>1, MiddleStep DEF queryVars
  <2>2. CASE label = "reset"
    <3>0. InMonitor(t) /\ OwnTile(t) /\ call[t].pc = "clearUse" /\ call'[t].pc = "reset"
      BY <1>3, <1>5, <2>2 DEF IInv
    <3>1. InMonitor(t)'
      BY <1>0, <1>1, <1>5, <3>0 DEF InMonitor, Kept, Outside, Requerying, queryVars
    <3>2. ~call'[t].requeried /\ call'[t].outcome = "none"
      BY <1>5, <3>0 DEF OwnTile, Requerying
    <3>3. mWindow' # NULL => holds'[mWindow'] = NULL
      BY <1>1, <1>2, <1>6, <3>0 DEF OwnTile
    <3>4. call'[t].read # NULL => native'[call'[t].read] # "none"
      BY <1>2, <1>5, <3>0 DEF OwnTile
    <3> QED
      BY <3>0, <3>1, <3>2, <3>3, <3>4 DEF OwnTile
  <2> QED
    BY <2>1, <2>2
<1>8. GoesOn(t)'
  BY <1>3, <1>5 DEF IInv, GoesOn, Failing, InHandler, Disposing, Outside, Requerying, AfterFill
<1> QED
  BY <1>0, <1>1, <1>2, <1>4, <1>5, <1>7, <1>8, NoReferenceStep DEF TypeOK

\* Creating the window, or finding that there is one, keeps the invariant: a new window holds
\* nothing.
LEMMA FillTestStep ==
    ASSUME IInv, NEW t \in Threads, FillTest(t), UNCHANGED loadVars, UNCHANGED mainVars
    PROVE  IInv'
<1>0. Types /\ TypeOK /\ WindowShape /\ call \in [Threads -> Call] /\ UNCHANGED load
  BY DEF IInv, Types, loadVars
<1>1. /\ UNCHANGED queryVars /\ UNCHANGED poolVars /\ UNCHANGED <<mCount, mPos>>
      /\ UNCHANGED <<monitor, cursorLock>> /\ call[t].pc = "fillTest"
  BY DEF FillTest, lockVars, At
<1>2. PICK label \in {"fillRead", "fillArgument"} : Goto(t, label)
  BY DEF FillTest
<1>3. /\ label \in Labels /\ NoReference(call[t].pc) /\ NoReference(label)
      /\ call[t].pc \in Middle /\ label \in Middle
  BY <1>1 DEF Labels, NoReference, Outside, InQuery, Requerying, Middle
<1>4. /\ Kept(t) /\ call'[t].pc = label
      /\ call'[t].then = call[t].then /\ call'[t].read = call[t].read
      /\ call'[t].requeried = call[t].requeried /\ call'[t].outcome = call[t].outcome
      /\ call'[t].failed = call[t].failed
  BY <1>0, <1>2, <1>3, GotoEffect
<1>a. GoesOn(t)'
  BY <1>1, <1>2, <1>4 DEF IInv, GoesOn, Failing, InHandler, Disposing, Outside, Requerying,
     AfterFill
<1>5. CASE UNCHANGED windowVars /\ UNCHANGED mWindow
  <2>1. InMonitor(t)' /\ OwnTile(t)'
    BY <1>0, <1>1, <1>3, <1>4, <1>5, MiddleStep DEF windowVars, queryVars
  <2>2. WindowShape'
    BY <1>0, <1>5 DEF WindowShape, windowVars
  <2> QED
    BY <1>0, <1>1, <1>3, <1>4, <1>a, <1>5, <2>1, <2>2, NoReferenceStep DEF TypeOK, windowVars
<1>6. CASE \E w \in Windows : CreateWindow(w) /\ mWindow' = w
  <2>1. PICK w \in Windows : CreateWindow(w) /\ mWindow' = w
    BY <1>6
  <2>2. /\ native \in [Windows -> {"none", "live", "disposed"}]
        /\ windowRefs \in [Windows -> Int] /\ holds \in [Windows -> Stored \cup {NULL}]
    BY <1>0 DEF TypeOK
  <2>3. /\ native' \in [Windows -> {"none", "live", "disposed"}]
        /\ windowRefs' \in [Windows -> Int] /\ UNCHANGED holds
    BY <2>1, <2>2 DEF CreateWindow
  <2>4. /\ \A v \in Windows : native'[v] = IF v = w THEN "live" ELSE native[v]
        /\ \A v \in Windows : windowRefs'[v] = IF v = w THEN 1 ELSE windowRefs[v]
        /\ native[w] = "none"
    BY <2>1, <2>2 DEF CreateWindow
  <2>5. WindowShape'
    BY <1>0, <2>1, <2>3, <2>4 DEF WindowShape
  <2>6. holds'[mWindow'] = NULL
    BY <1>0, <2>1, <2>3, <2>4 DEF WindowShape
  <2>7. InMonitor(t)' /\ OwnTile(t)'
    BY <1>0, <1>1, <1>3, <1>4, <2>4, <2>6, MiddleStep DEF queryVars
  <2> QED
    BY <1>0, <1>1, <1>3, <1>4, <1>a, <2>1, <2>2, <2>3, <2>4, <2>5, <2>7, NoReferenceStep DEF TypeOK
<1> QED
  BY <1>5, <1>6 DEF FillTest

\* Closing the window after a failure keeps the invariant.
LEMMA CatchStep ==
    ASSUME IInv, NEW t \in Threads, CatchRelease(t) \/ CatchForget(t),
           UNCHANGED loadVars, UNCHANGED mainVars
    PROVE  IInv'
<1>0. Types /\ TypeOK /\ WindowShape /\ call \in [Threads -> Call] /\ UNCHANGED load
  BY DEF IInv, Types, loadVars
<1>1. CASE CatchRelease(t)
  <2>1. /\ UNCHANGED queryVars /\ UNCHANGED poolVars /\ UNCHANGED <<mWindow, mCount, mPos>>
        /\ UNCHANGED <<monitor, cursorLock>> /\ releaseWindow(call[t].read)
        /\ call[t].pc = "catchRelease" /\ Goto(t, "catchForget")
    BY <1>1 DEF CatchRelease, cursorVars, lockVars, At
  <2>2. /\ native' \in [Windows -> {"none", "live", "disposed"}]
        /\ windowRefs' \in [Windows -> Int] /\ holds' \in [Windows -> Stored \cup {NULL}]
        /\ \A v \in Windows : native[v] # "none" => native'[v] # "none"
        /\ WindowShape'
    BY <1>0, <2>1, ReleaseEffect
  <2>3. /\ "catchForget" \in Labels /\ NoReference(call[t].pc) /\ NoReference("catchForget")
        /\ call[t].pc \in Middle /\ "catchForget" \in Middle
    BY <2>1 DEF Labels, NoReference, Outside, InQuery, Requerying, Middle
  <2>4. /\ Kept(t) /\ call'[t].pc = "catchForget"
        /\ call'[t].then = call[t].then /\ call'[t].read = call[t].read
        /\ call'[t].requeried = call[t].requeried /\ call'[t].outcome = call[t].outcome
        /\ call'[t].failed = call[t].failed
    BY <1>0, <2>1, <2>3, GotoEffect
  <2>5. UNCHANGED holds
    BY <2>1 DEF releaseWindow
  <2>6. InMonitor(t)' /\ OwnTile(t)'
    BY <1>0, <2>1, <2>2, <2>3, <2>4, <2>5, MiddleStep DEF queryVars
  <2>7. GoesOn(t)'
    BY <2>1, <2>4 DEF IInv, GoesOn, Failing, InHandler, Disposing, Outside, Requerying, AfterFill
  <2> QED
    BY <1>0, <2>1, <2>2, <2>3, <2>4, <2>6, <2>7, NoReferenceStep DEF TypeOK
<1>2. CASE CatchForget(t)
  <2>1. /\ UNCHANGED windowVars /\ UNCHANGED queryVars /\ UNCHANGED poolVars
        /\ mWindow' = NULL /\ mCount' = NO_COUNT /\ UNCHANGED mPos
        /\ UNCHANGED <<monitor, cursorLock>>
        /\ call[t].pc = "catchForget" /\ Goto(t, "leave")
    BY <1>2 DEF CatchForget, resourceVars, lockVars, At
  <2>2. /\ "leave" \in Labels /\ NoReference(call[t].pc) /\ NoReference("leave")
        /\ call[t].pc \in Middle
    BY <2>1 DEF Labels, NoReference, Outside, InQuery, Requerying, Middle
  <2>3. /\ Kept(t) /\ call'[t].pc = "leave"
        /\ call'[t].then = call[t].then /\ call'[t].read = call[t].read
        /\ call'[t].requeried = call[t].requeried /\ call'[t].outcome = call[t].outcome
        /\ call'[t].failed = call[t].failed
    BY <1>0, <2>1, <2>2, GotoEffect
  <2>4. InMonitor(t)' /\ OwnTile(t)'
    BY <1>0, <2>1, <2>2, <2>3, MiddleStep DEF windowVars, queryVars
  <2>5. WindowShape'
    BY <1>0, <2>1 DEF WindowShape, windowVars
  <2>6. GoesOn(t)'
    BY <2>1, <2>3 DEF IInv, GoesOn, Failing, InHandler, Disposing
  <2> QED
    BY <1>0, <2>1, <2>2, <2>3, <2>4, <2>5, <2>6, NoReferenceStep DEF TypeOK, windowVars
<1> QED
  BY <1>1, <1>2

-----------------------------------------------------------------------------
(* Steps of a query *)

\* With one thread in the provider, the references of the query and the connection are its.
LEMMA OnlyThread ==
    ASSUME IInv, NEW t \in Threads, call[t].pc \notin Outside
    PROVE  /\ call[t].pc \in InQuery => QueryRefs(1)
           /\ call[t].pc \notin InQuery => QueryRefs(0)
           /\ connection = "acquired" <=> call[t].pc \in Connected
<1>1. \A u \in Threads \ {t} : call[u].pc \in Outside
  BY DEF IInv, InMonitor
<1>2. \A u \in Threads : call[u].pc \in InQuery \cup Connected => u = t
  BY <1>1 DEF Outside, InQuery, Connected
<1> QED
  BY <1>2 DEF IInv, QueryShape, PoolShape

\* The steps of a query leave these alone.
QueryStepVars == <<loadVars, mainVars, mWindow, mCount, mPos, monitor, cursorLock>>

\* A step that neither counts a reference of the database nor goes on to dispose of it keeps
\* what is said of the database.
LEMMA DatabaseStays ==
    ASSUME IInv, NEW t \in Threads, Kept(t), UNCHANGED QueryStepVars,
           UNCHANGED <<dbRefs, dbOpen, mIsOpen>>,
           call'[t].pc \in HasDatabase <=> call[t].pc \in HasDatabase,
           call'[t].pc \in Disposing <=> call[t].pc \in Disposing
    PROVE  DatabaseShape' /\ dbRefs' \in Int
<1>1. UNCHANGED <<load, main>> /\ DatabaseShape /\ dbRefs \in Int
  BY DEF QueryStepVars, loadVars, mainVars, IInv, Types, TypeOK
<1>2. \A u \in Threads : /\ call'[u].pc \in HasDatabase <=> call[u].pc \in HasDatabase
                         /\ call'[u].pc \in Disposing <=> call[u].pc \in Disposing
  BY DEF Kept, Others
<1> QED
  BY <1>1, <1>2, DatabaseFrame

\* A step of a query keeps the invariant if it keeps what is said of the windows and of the
\* references, for the thread alone.
LEMMA QueryStep ==
    ASSUME IInv, NEW t \in Threads, Kept(t), UNCHANGED QueryStepVars,
           call[t].pc \in Middle, call'[t].pc \in Middle,
           call'[t].read = call[t].read,
           call'[t].requeried = call[t].requeried, call'[t].outcome = call[t].outcome,
           native' \in [Windows -> {"none", "live", "disposed"}],
           windowRefs' \in [Windows -> Int], holds' \in [Windows -> Stored \cup {NULL}],
           \A w \in Windows : native[w] # "none" => native'[w] # "none",
           mWindow # NULL => holds'[mWindow] \in {holds[mWindow], mBindArgs, NULL},
           mBindArgs' \in {mBindArgs, NULL},
           call'[t].pc \in InQuery => QueryRefs(1)', call'[t].pc \notin InQuery => QueryRefs(0)',
           connection' = "acquired" <=> call'[t].pc \in Connected,
           connection' \in {"available", "acquired", "closed"},
           connection' \in {"available", "acquired"} => asset', connection' = "closed" => ~asset',
           connection' = "available" => mIsOpen', connection' = "closed" => ~mIsOpen',
           GoesOn(t)', WindowHeld(t)', WindowShape', DatabaseShape', dbRefs' \in Int
    PROVE  IInv'
<1>0. /\ Types /\ TypeOK /\ ProviderShape /\ QueryShape /\ PoolShape /\ InMonitor(t)
      /\ UNCHANGED <<load, main, mainRead, mWindow, mCount, mPos, monitor, cursorLock, overlay>>
  BY DEF IInv, Types, QueryStepVars, loadVars, mainVars
<1>1. call[t].pc \notin Outside /\ call'[t].pc \notin Outside
  BY DEF Middle
<1>2. /\ \A u \in Threads \ {t} : call[u].pc \in Outside /\ call'[u] = call[u]
      /\ \A u \in Threads \ {t} : InMonitor(u)' /\ GoesOn(u)' /\ WindowHeld(u)' /\ OwnTile(u)'
  BY <1>0, <1>1, OthersStep DEF Kept
<1>3. InMonitor(t)' /\ OwnTile(t)'
  BY <1>0, MiddleStep
<1>4. \A u \in Threads : call'[u].pc \in InQuery \cup Connected => u = t
  BY <1>2 DEF Outside, InQuery, Connected
<1>5. QueryShape'
  BY <1>4 DEF QueryShape
<1>6. queryRefs' \in -1 .. 2
  BY <1>5 DEF QueryShape, QueryRefs
<1>7. Types'
  <2>1. call' \in [Threads -> Call]
    BY DEF Kept
  <2>2. \A u \in Threads : call'[u].read \in Windows \cup {NULL}
    BY <2>1 DEF Call
  <2>3. mBindArgs' \in Tiles \cup {NULL}
    BY <1>0 DEF TypeOK
  <2> QED
    BY <1>0, <1>6, <2>1, <2>2, <2>3 DEF Types, TypeOK
<1>8. PoolShape'
  <2>1. load = "published"
    BY <1>0, <1>1 DEF InMonitor, Outside
  <2>2. connection' = "acquired" <=> \E u \in Threads : call'[u].pc \in Connected
    BY <1>4
  <2> QED
    BY <1>0, <2>1, <2>2 DEF PoolShape
<1>9. ProviderShape'
  BY <1>0 DEF ProviderShape
<1> QED
  BY <1>2, <1>3, <1>5, <1>7, <1>8, <1>9 DEF IInv

\* Counting a reference to a window keeps types and counts.
LEMMA AcquireEffect ==
    ASSUME Types, WindowShape, NEW w \in Windows, acquireWindow(w), UNCHANGED mWindow
    PROVE  /\ UNCHANGED <<native, holds>> /\ windowRefs' \in [Windows -> Int]
           /\ windowRefs[w] \in Int /\ windowRefs[w] > 0 /\ windowRefs'[w] = windowRefs[w] + 1
           /\ WindowShape'
<1>0. windowRefs \in [Windows -> Int] /\ mWindow \in Windows \cup {NULL}
  BY DEF Types, TypeOK
<1>1. /\ UNCHANGED <<native, holds>> /\ windowRefs[w] \in Int /\ windowRefs[w] > 0
      /\ windowRefs' = [windowRefs EXCEPT ![w] = windowRefs[w] + 1]
  BY <1>0 DEF acquireWindow
<1>2. \A v \in Windows : windowRefs'[v] = IF v = w THEN windowRefs[w] + 1 ELSE windowRefs[v]
  BY <1>0, <1>1
<1>3. windowRefs' \in [Windows -> Int]
  BY <1>0, <1>1
<1>4. \A v \in Windows : native'[v] = "live" <=> windowRefs'[v] > 0
  BY <1>0, <1>1, <1>2 DEF WindowShape
<1>5. WindowShape'
  BY <1>0, <1>1, <1>4 DEF WindowShape
<1> QED
  BY <1>1, <1>2, <1>3, <1>5

\* The thread has its session.
LEMMA SessionEffect ==
    ASSUME call \in [Threads -> Call], NEW t \in Threads, NEW label \in Labels,
           call' = [call EXCEPT ![t].pc = label, ![t].session = TRUE]
    PROVE  /\ Kept(t)
           /\ call'[t].pc = label
           /\ call'[t].then = call[t].then /\ call'[t].read = call[t].read
           /\ call'[t].requeried = call[t].requeried /\ call'[t].outcome = call[t].outcome
           /\ call'[t].failed = call[t].failed
<1> DEFINE c == [call[t] EXCEPT !.pc = label, !.session = TRUE]
<1>1. call' = [call EXCEPT ![t] = c]
  OBVIOUS
<1>2. c \in Call
  BY DEF Call
<1>3. /\ c.pc = label /\ c.then = call[t].then /\ c.read = call[t].read /\ c.want = call[t].want
      /\ c.requeried = call[t].requeried /\ c.outcome = call[t].outcome
      /\ c.failed = call[t].failed
  BY DEF Call
<1> HIDE DEF c
<1>4. call'[t] = c /\ Others(t) /\ call' \in [Threads -> Call]
  BY <1>1, <1>2 DEF Others
<1> QED
  BY <1>3, <1>4 DEF Kept

\* What a step of a query changes in the thread's call: its label, and where it goes on or
\* whether it has failed.
Relabelled(t, from, to) ==
    /\ Kept(t)
    /\ call[t].pc = from /\ call'[t].pc = to
    /\ call'[t].read = call[t].read
    /\ call'[t].requeried = call[t].requeried /\ call'[t].outcome = call[t].outcome

\* Taking a reference to the query, or finding it closed, keeps the invariant.
LEMMA AcquireQueryStep ==
    ASSUME IInv, NEW t \in Threads, AcquireQuery(t),
           UNCHANGED loadVars, UNCHANGED mainVars
    PROVE  IInv'
<1>0. /\ Types /\ TypeOK /\ WindowShape /\ PoolShape /\ WindowHeld(t)
      /\ call \in [Threads -> Call]
  BY DEF IInv, Types
<1>1. UNCHANGED windowVars /\ UNCHANGED poolVars /\ UNCHANGED QueryStepVars
  BY DEF AcquireQuery, QueryStepVars, cursorVars, lockVars
<1>2. PICK label \in {"acquireWindow", "catch"} :
         /\ call[t].pc = "acquireQuery"
         /\ IF label = "acquireWindow" THEN Goto(t, label) /\ acquireQuery
            ELSE Fails(t, label) /\ UNCHANGED queryVars
  BY DEF AcquireQuery, At
<1>3. label \in Labels /\ label \in Middle /\ call[t].pc \in Middle
  BY <1>2 DEF Labels, Middle, Outside, Requerying
<1>4. Relabelled(t, "acquireQuery", label)
  BY <1>0, <1>2, <1>3, GotoEffect, FailsEffect DEF Relabelled
<1>a. GoesOn(t)'
  BY <1>0, <1>2, <1>3, GotoEffect, FailsEffect
     DEF IInv, GoesOn, Failing, InHandler, Disposing, Outside, Requerying, AfterFill
<1>b. DatabaseShape' /\ dbRefs' \in Int
  BY <1>1, <1>2, <1>4, DatabaseStays
     DEF Relabelled, HasDatabase, Disposing, poolVars
<1>5. QueryRefs(0) /\ connection # "acquired"
  BY <1>2, OnlyThread DEF Outside, InQuery, Connected
<1>6. UNCHANGED mBindArgs /\ UNCHANGED <<load, main>>
  BY <1>1, <1>2 DEF acquireQuery, queryVars, QueryStepVars, loadVars, mainVars
<1>7. (label \in InQuery => QueryRefs(1)') /\ (label \notin InQuery => QueryRefs(0)')
  BY <1>2, <1>5, <1>6 DEF acquireQuery, queryVars, QueryRefs, InQuery
<1>8. label \notin Connected /\ connection # "none"
  BY <1>0, <1>2 DEF Connected, PoolShape, IInv, InMonitor
<1>9. WindowHeld(t)'
  BY <1>2, <1>4 DEF WindowHeld, Relabelled, HoldingOne, HoldingTwo
<1>10. WindowShape'
  BY <1>0, <1>1 DEF WindowShape, windowVars, QueryStepVars
<1> QED
  BY <1>0, <1>1, <1>3, <1>4, <1>5, <1>6, <1>7, <1>8, <1>9, <1>10, <1>a, <1>b, QueryStep
     DEF Relabelled, TypeOK, PoolShape, windowVars, poolVars

\* Taking a reference to the window, or finding it gone, keeps the invariant.
LEMMA AcquireWindowStep ==
    ASSUME IInv, NEW t \in Threads, AcquireWindow(t),
           UNCHANGED loadVars, UNCHANGED mainVars
    PROVE  IInv'
<1>0. /\ Types /\ TypeOK /\ WindowShape /\ PoolShape /\ WindowHeld(t)
      /\ call \in [Threads -> Call]
  BY DEF IInv, Types
<1>1. UNCHANGED queryVars /\ UNCHANGED poolVars /\ UNCHANGED QueryStepVars
  BY DEF AcquireWindow, QueryStepVars, cursorVars, lockVars
<1>2. PICK label \in {"session", "releaseQuery"} :
         /\ call[t].pc = "acquireWindow"
         /\ IF label = "session"
            THEN Goto(t, label) /\ call[t].read # NULL /\ acquireWindow(call[t].read)
            ELSE Fails(t, label) /\ UNCHANGED windowVars
  BY DEF AcquireWindow, At
<1>3. label \in Labels /\ label \in Middle /\ call[t].pc \in Middle
  BY <1>2 DEF Labels, Middle, Outside, Requerying
<1>4. Relabelled(t, "acquireWindow", label)
  BY <1>0, <1>2, <1>3, GotoEffect, FailsEffect DEF Relabelled
<1>a. GoesOn(t)'
  BY <1>0, <1>2, <1>3, GotoEffect, FailsEffect
     DEF IInv, GoesOn, Failing, InHandler, Disposing, Outside, Requerying, AfterFill
<1>b. DatabaseShape' /\ dbRefs' \in Int
  BY <1>1, <1>2, <1>4, DatabaseStays
     DEF Relabelled, HasDatabase, Disposing, poolVars
<1>5. QueryRefs(1) /\ connection # "acquired"
  BY <1>2, OnlyThread DEF Outside, InQuery, Connected
<1>6. QueryRefs(1)' /\ label \in InQuery /\ UNCHANGED mBindArgs
  BY <1>1, <1>5 DEF QueryRefs, queryVars, QueryStepVars, loadVars, mainVars, InQuery
<1>7. label \notin Connected /\ connection # "none"
  BY <1>0, <1>2 DEF Connected, PoolShape, IInv, InMonitor
<1>8. CASE label = "session"
  <2>1. call[t].read \in Windows /\ acquireWindow(call[t].read) /\ UNCHANGED mWindow
    BY <1>0, <1>1, <1>2, <1>8 DEF TypeOK, QueryStepVars
  <2>2. /\ UNCHANGED <<native, holds>> /\ windowRefs' \in [Windows -> Int]
        /\ windowRefs[call[t].read] \in Int /\ windowRefs[call[t].read] > 0
        /\ windowRefs'[call[t].read] = windowRefs[call[t].read] + 1
        /\ WindowShape'
    BY <1>0, <2>1, AcquireEffect
  <2>3. windowRefs'[call'[t].read] >= 2 /\ call'[t].read # NULL
    BY <1>2, <1>4, <1>8, <2>2 DEF Relabelled
  <2>4. windowRefs'[call'[t].read] >= IF Owed(call[t].read)' THEN 2 ELSE 1
    BY <1>4, <2>2, <2>3 DEF Relabelled
  <2>5. WindowHeld(t)'
    BY <1>4, <1>8, <2>3, <2>4 DEF WindowHeld, Relabelled, HoldingTwo
  <2> QED
    BY <1>0, <1>1, <1>3, <1>4, <1>5, <1>6, <1>7, <2>2, <2>5, <1>a, <1>b, QueryStep
       DEF Relabelled, TypeOK, PoolShape, poolVars
<1>9. CASE label = "releaseQuery"
  <2>1. UNCHANGED windowVars
    BY <1>2, <1>9
  <2>2. WindowHeld(t)'
    BY <1>4, <1>9 DEF WindowHeld, Relabelled, HoldingOne, HoldingTwo
  <2>3. WindowShape'
    BY <1>0, <1>1, <2>1 DEF WindowShape, windowVars, QueryStepVars
  <2> QED
    BY <1>0, <1>1, <1>3, <1>4, <1>5, <1>6, <1>7, <2>1, <2>2, <2>3, <1>a, <1>b, QueryStep
       DEF Relabelled, TypeOK, PoolShape, windowVars, poolVars
<1> QED
  BY <1>8, <1>9

\* Having or making a session, or finding the database closed, keeps the invariant.
LEMMA GetSessionStep ==
    ASSUME IInv, NEW t \in Threads, GetSession(t),
           UNCHANGED loadVars, UNCHANGED mainVars
    PROVE  IInv'
<1>0. /\ Types /\ TypeOK /\ WindowShape /\ PoolShape /\ WindowHeld(t)
      /\ call \in [Threads -> Call]
  BY DEF IInv, Types
<1>1. /\ UNCHANGED windowVars /\ UNCHANGED queryVars /\ UNCHANGED poolVars
      /\ UNCHANGED QueryStepVars
  BY DEF GetSession, QueryStepVars, cursorVars, lockVars, resourceVars
<1>2. PICK label \in {"acquireConnection", "releaseWindow"} :
         /\ call[t].pc = "session"
         /\ IF label = "acquireConnection"
            THEN call' = [call EXCEPT ![t].pc = label, ![t].session = TRUE]
            ELSE Fails(t, label)
  BY DEF GetSession, At
<1>3. label \in Labels /\ label \in Middle /\ call[t].pc \in Middle
  BY <1>2 DEF Labels, Middle, Outside, Requerying
<1>4. Relabelled(t, "session", label)
  BY <1>0, <1>2, <1>3, SessionEffect, FailsEffect DEF Relabelled
<1>a. GoesOn(t)'
  BY <1>0, <1>2, <1>3, SessionEffect, FailsEffect
     DEF IInv, GoesOn, Failing, InHandler, Disposing, Outside, Requerying, AfterFill
<1>b. DatabaseShape' /\ dbRefs' \in Int
  BY <1>1, <1>2, <1>4, DatabaseStays
     DEF Relabelled, HasDatabase, Disposing, poolVars
<1>5. QueryRefs(1) /\ connection # "acquired"
  BY <1>2, OnlyThread DEF Outside, InQuery, Connected
<1>6. QueryRefs(1)' /\ label \in InQuery /\ UNCHANGED mBindArgs
  BY <1>1, <1>5 DEF QueryRefs, queryVars, QueryStepVars, loadVars, mainVars, InQuery
<1>7. label \notin Connected /\ connection # "none"
  BY <1>0, <1>2 DEF Connected, PoolShape, IInv, InMonitor
<1>8. WindowHeld(t)'
  BY <1>0, <1>1, <1>2, <1>4
     DEF WindowHeld, Relabelled, HoldingOne, HoldingTwo, Owed, windowVars, QueryStepVars, mainVars
<1>9. WindowShape'
  BY <1>0, <1>1 DEF WindowShape, windowVars, QueryStepVars
<1> QED
  BY <1>0, <1>1, <1>3, <1>4, <1>5, <1>6, <1>7, <1>8, <1>9, <1>a, <1>b, QueryStep
     DEF Relabelled, TypeOK, PoolShape, windowVars, poolVars

\* Acquiring the connection, or finding the pool closed, keeps the invariant.
LEMMA AcquireConnectionStep ==
    ASSUME IInv, NEW t \in Threads, AcquireConnection(t),
           UNCHANGED loadVars, UNCHANGED mainVars
    PROVE  IInv'
<1>0. /\ Types /\ TypeOK /\ WindowShape /\ PoolShape /\ WindowHeld(t)
      /\ call \in [Threads -> Call]
  BY DEF IInv, Types
<1>1. UNCHANGED windowVars /\ UNCHANGED queryVars /\ UNCHANGED QueryStepVars
  BY DEF AcquireConnection, QueryStepVars, cursorVars, lockVars
<1>2. PICK label \in {"execute", "releaseWindow"} :
         /\ call[t].pc = "acquireConnection"
         /\ IF label = "execute" THEN Goto(t, label) /\ acquireConnection
            ELSE Fails(t, label) /\ UNCHANGED poolVars
  BY DEF AcquireConnection, At
<1>3. label \in Labels /\ label \in Middle /\ call[t].pc \in Middle
  BY <1>2 DEF Labels, Middle, Outside, Requerying
<1>4. Relabelled(t, "acquireConnection", label)
  BY <1>0, <1>2, <1>3, GotoEffect, FailsEffect DEF Relabelled
<1>a. GoesOn(t)'
  BY <1>0, <1>2, <1>3, GotoEffect, FailsEffect
     DEF IInv, GoesOn, Failing, InHandler, Disposing, Outside, Requerying, AfterFill
<1>b. DatabaseShape' /\ dbRefs' \in Int
  BY <1>1, <1>2, <1>4, DatabaseStays
     DEF Relabelled, HasDatabase, Disposing, poolVars, acquireConnection
<1>5. QueryRefs(1) /\ connection # "acquired"
  BY <1>2, OnlyThread DEF Outside, InQuery, Connected
<1>6. QueryRefs(1)' /\ label \in InQuery /\ UNCHANGED mBindArgs
  BY <1>1, <1>5 DEF QueryRefs, queryVars, QueryStepVars, loadVars, mainVars, InQuery
<1>7. connection # "none"
  BY <1>0, <1>2 DEF PoolShape, IInv, InMonitor
<1>8. connection' = "acquired" <=> label \in Connected
  BY <1>2, <1>5 DEF acquireConnection, poolVars, Connected
<1>9. /\ connection' \in {"available", "acquired", "closed"}
      /\ connection' \in {"available", "acquired"} => asset'
      /\ connection' = "closed" => ~asset' /\ ~mIsOpen'
      /\ connection' = "available" => mIsOpen'
      /\ UNCHANGED mIsOpen
  <2>1. CASE acquireConnection
    BY <1>0, <2>1 DEF acquireConnection, PoolShape
  <2>2. CASE UNCHANGED poolVars
    BY <1>0, <1>7, <2>2 DEF PoolShape, poolVars, TypeOK
  <2> QED
    BY <1>2, <2>1, <2>2
<1>10. WindowHeld(t)'
  BY <1>0, <1>1, <1>2, <1>4
     DEF WindowHeld, Relabelled, HoldingOne, HoldingTwo, Owed, windowVars, QueryStepVars, mainVars
<1>11. WindowShape'
  BY <1>0, <1>1 DEF WindowShape, windowVars, QueryStepVars
<1> QED
  BY <1>0, <1>1, <1>3, <1>4, <1>6, <1>8, <1>9, <1>10, <1>11, <1>a, <1>b, QueryStep
     DEF Relabelled, TypeOK, windowVars

\* The reference the connection counts of its own.
LEMMA ExecuteStep ==
    ASSUME IInv, NEW t \in Threads, Execute(t),
           UNCHANGED loadVars, UNCHANGED mainVars
    PROVE  IInv'
<1>0. /\ Types /\ TypeOK /\ WindowShape /\ PoolShape /\ WindowHeld(t)
      /\ call \in [Threads -> Call]
  BY DEF IInv, Types
<1>1. UNCHANGED queryVars /\ UNCHANGED poolVars /\ UNCHANGED QueryStepVars
  BY DEF Execute, QueryStepVars, cursorVars, lockVars
<1>2. call[t].pc = "execute" /\ Goto(t, "filling") /\ acquireWindow(call[t].read)
  BY DEF Execute, At
<1>3. "filling" \in Labels /\ "filling" \in Middle /\ call[t].pc \in Middle
  BY <1>2 DEF Labels, Middle, Outside, Requerying
<1>4. Relabelled(t, "execute", "filling")
  BY <1>0, <1>2, <1>3, GotoEffect DEF Relabelled
<1>a. GoesOn(t)'
  BY <1>0, <1>2, <1>3, GotoEffect
     DEF IInv, GoesOn, Failing, InHandler, Disposing, Outside, Requerying, AfterFill
<1>b. DatabaseShape' /\ dbRefs' \in Int
  BY <1>1, <1>2, <1>4, DatabaseStays
     DEF Relabelled, HasDatabase, Disposing, poolVars
<1>5. QueryRefs(1) /\ connection = "acquired"
  BY <1>2, OnlyThread DEF Outside, InQuery, Connected
<1>6. QueryRefs(1)' /\ call'[t].pc \in InQuery /\ UNCHANGED mBindArgs
  BY <1>1, <1>4, <1>5 DEF QueryRefs, queryVars, QueryStepVars, loadVars, mainVars, InQuery,
       Relabelled
<1>7. call'[t].pc \in Connected /\ asset
  BY <1>0, <1>4, <1>5 DEF Connected, PoolShape, Relabelled
<1>8. /\ call[t].read \in Windows /\ UNCHANGED mWindow
      /\ windowRefs[call[t].read] >= IF Owed(call[t].read) THEN 2 ELSE 1
  BY <1>0, <1>1, <1>2 DEF TypeOK, WindowHeld, HoldingOne, QueryStepVars
<1>9. /\ UNCHANGED <<native, holds>> /\ windowRefs' \in [Windows -> Int]
      /\ windowRefs[call[t].read] \in Int
      /\ windowRefs'[call[t].read] = windowRefs[call[t].read] + 1
      /\ WindowShape'
  BY <1>0, <1>2, <1>8, AcquireEffect
<1>10. Owed(call[t].read)' <=> Owed(call[t].read)
  BY <1>1, <1>4 DEF Owed, Relabelled, QueryStepVars, mainVars
<1>11. windowRefs'[call'[t].read] >= IF Owed(call[t].read)' THEN 3 ELSE 2
  BY <1>4, <1>8, <1>9, <1>10 DEF Relabelled
<1>12. WindowHeld(t)'
  BY <1>4, <1>8, <1>11, ResourceAssumption DEF WindowHeld, Relabelled, HoldingOne
<1> QED
  BY <1>0, <1>1, <1>3, <1>4, <1>5, <1>6, <1>7, <1>9, <1>12, <1>a, <1>b, QueryStep
     DEF Relabelled, TypeOK, PoolShape, poolVars

\* Filling the window, or failing to, keeps the invariant: it holds the tile of the bound
\* arguments, or nothing.
LEMMA FillStep ==
    ASSUME IInv, NEW t \in Threads, Fill(t) \/ FillFails(t),
           UNCHANGED loadVars, UNCHANGED mainVars
    PROVE  IInv'
<1>0. /\ Types /\ TypeOK /\ WindowShape /\ PoolShape /\ WindowHeld(t)
      /\ call \in [Threads -> Call]
  BY DEF IInv, Types
<1>1. UNCHANGED queryVars /\ UNCHANGED poolVars /\ UNCHANGED QueryStepVars
  BY DEF Fill, FillFails, QueryStepVars, cursorVars, lockVars, resourceVars
<1>2. /\ call[t].pc = "filling"
      /\ \/ Goto(t, "filled")
         \/ \E next \in AfterFailure : FailsThen(t, "filled", next)
  BY DEF Fill, FillFails, At, AfterFailure, FailsThen
<1>3. "filled" \in Labels /\ "filled" \in Middle /\ call[t].pc \in Middle
  BY <1>2 DEF Labels, Middle, Outside, Requerying
<1>4. Relabelled(t, "filling", "filled")
  BY <1>0, <1>2, <1>3, GotoEffect, FailsThenEffect DEF Relabelled, AfterFailure, Nexts
<1>a. GoesOn(t)'
  BY <1>0, <1>2, <1>3, GotoEffect, FailsThenEffect
     DEF IInv, GoesOn, Failing, InHandler, Disposing, Outside, Requerying, AfterFill,
       AfterFailure, Nexts
<1>b. DatabaseShape' /\ dbRefs' \in Int
  BY <1>1, <1>2, <1>4, DatabaseStays
     DEF Relabelled, HasDatabase, Disposing, poolVars
<1>5. QueryRefs(1) /\ connection = "acquired"
  BY <1>2, OnlyThread DEF Outside, InQuery, Connected
<1>6. QueryRefs(1)' /\ call'[t].pc \in InQuery /\ UNCHANGED mBindArgs
  BY <1>1, <1>4, <1>5 DEF QueryRefs, queryVars, QueryStepVars, loadVars, mainVars, InQuery,
       Relabelled
<1>7. call'[t].pc \in Connected /\ asset
  BY <1>0, <1>4, <1>5 DEF Connected, PoolShape, Relabelled
<1>8. call[t].read \in Windows /\ native[call[t].read] # "none"
  BY <1>0, <1>2 DEF TypeOK, WindowHeld, HoldingTwo, IInv, OwnTile
<1>9. UNCHANGED <<native, windowRefs>>
  BY DEF Fill, FillFails, resourceVars, windowVars
<1>10. PICK tile \in Stored \cup {NULL} :
          /\ tile \in {mBindArgs, NULL}
          /\ holds' = holds \/ holds' = [holds EXCEPT ![call[t].read] = tile]
  BY DEF Fill, FillFails, resourceVars, windowVars
<1>11. /\ holds' \in [Windows -> Stored \cup {NULL}]
       /\ \A w \in Windows : holds'[w] = holds[w] \/ (w = call[t].read /\ holds'[w] = tile)
  BY <1>0, <1>10 DEF TypeOK
<1>12. mWindow # NULL => holds'[mWindow] \in {holds[mWindow], mBindArgs, NULL}
  BY <1>0, <1>10, <1>11 DEF TypeOK
<1>13. WindowShape'
  BY <1>0, <1>1, <1>8, <1>9, <1>11 DEF WindowShape, QueryStepVars
<1>14. WindowHeld(t)'
  BY <1>0, <1>1, <1>2, <1>4, <1>9
     DEF WindowHeld, Relabelled, HoldingOne, HoldingTwo, Owed, QueryStepVars, mainVars
<1> QED
  BY <1>0, <1>1, <1>3, <1>4, <1>5, <1>6, <1>7, <1>9, <1>11, <1>12, <1>13, <1>14,
     <1>a, <1>b, QueryStep DEF Relabelled, TypeOK, PoolShape, poolVars

\* The connection gives its reference to the window back; the other one is still there.
LEMMA FilledStep ==
    ASSUME IInv, NEW t \in Threads, Filled(t),
           UNCHANGED loadVars, UNCHANGED mainVars
    PROVE  IInv'
<1>0. /\ Types /\ TypeOK /\ WindowShape /\ PoolShape /\ WindowHeld(t)
      /\ call \in [Threads -> Call]
  BY DEF IInv, Types
<1>1. UNCHANGED queryVars /\ UNCHANGED poolVars /\ UNCHANGED QueryStepVars
  BY DEF Filled, QueryStepVars, cursorVars, lockVars
<1>2. call[t].pc = "filled" /\ Goto(t, "releaseConnection") /\ releaseWindow(call[t].read)
  BY DEF Filled, At
<1>3. "releaseConnection" \in Labels /\ "releaseConnection" \in Middle /\ call[t].pc \in Middle
  BY <1>2 DEF Labels, Middle, Outside, Requerying
<1>4. Relabelled(t, "filled", "releaseConnection")
  BY <1>0, <1>2, <1>3, GotoEffect DEF Relabelled
<1>a. GoesOn(t)'
  BY <1>0, <1>2, <1>3, GotoEffect
     DEF IInv, GoesOn, Failing, InHandler, Disposing, Outside, Requerying, AfterFill
<1>b. DatabaseShape' /\ dbRefs' \in Int
  BY <1>1, <1>2, <1>4, DatabaseStays
     DEF Relabelled, HasDatabase, Disposing, poolVars
<1>5. QueryRefs(1) /\ connection = "acquired"
  BY <1>2, OnlyThread DEF Outside, InQuery, Connected
<1>6. QueryRefs(1)' /\ call'[t].pc \in InQuery /\ UNCHANGED mBindArgs
  BY <1>1, <1>4, <1>5 DEF QueryRefs, queryVars, QueryStepVars, loadVars, mainVars, InQuery,
       Relabelled
<1>7. call'[t].pc \in Connected /\ asset
  BY <1>0, <1>4, <1>5 DEF Connected, PoolShape, Relabelled
<1>8. /\ call[t].read \in Windows /\ UNCHANGED mWindow
      /\ windowRefs[call[t].read] >= IF Owed(call[t].read) THEN 3 ELSE 2
  BY <1>0, <1>1, <1>2 DEF TypeOK, WindowHeld, HoldingTwo, QueryStepVars
<1>9. /\ native' \in [Windows -> {"none", "live", "disposed"}]
      /\ windowRefs' \in [Windows -> Int] /\ holds' \in [Windows -> Stored \cup {NULL}]
      /\ \A v \in Windows : native[v] # "none" => native'[v] # "none"
      /\ WindowShape'
  BY <1>0, <1>2, <1>8, ReleaseEffect
<1>10. windowRefs[call[t].read] \in Int /\ windowRefs'[call[t].read] = windowRefs[call[t].read] - 1
  BY <1>0, <1>2, <1>8 DEF TypeOK, releaseWindow
<1>11. Owed(call[t].read)' <=> Owed(call[t].read)
  BY <1>1, <1>4 DEF Owed, Relabelled, QueryStepVars, mainVars
<1>12. windowRefs'[call'[t].read] >= IF Owed(call[t].read)' THEN 2 ELSE 1
  BY <1>4, <1>8, <1>10, <1>11 DEF Relabelled
<1>13. WindowHeld(t)'
  BY <1>4, <1>8, <1>12, ResourceAssumption DEF WindowHeld, Relabelled, HoldingTwo
<1>14. UNCHANGED holds
  BY <1>2 DEF releaseWindow
<1> QED
  BY <1>0, <1>1, <1>3, <1>4, <1>5, <1>6, <1>7, <1>9, <1>13, <1>14, <1>a, <1>b, QueryStep
     DEF Relabelled, TypeOK, PoolShape, poolVars

\* A step of a query that keeps its one reference to the window, and the window as it is.
LEMMA HeldStep ==
    ASSUME IInv, NEW t \in Threads, Kept(t), UNCHANGED QueryStepVars,
           UNCHANGED windowVars, UNCHANGED queryVars,
           call[t].pc \in HoldingOne, call'[t].pc \in HoldingOne,
           call'[t].read = call[t].read,
           call'[t].requeried = call[t].requeried, call'[t].outcome = call[t].outcome,
           connection' = "acquired" <=> call'[t].pc \in Connected,
           connection' \in {"available", "acquired", "closed"},
           connection' \in {"available", "acquired"} => asset', connection' = "closed" => ~asset',
           connection' = "available" => mIsOpen', connection' = "closed" => ~mIsOpen',
           GoesOn(t)', DatabaseShape', dbRefs' \in Int
    PROVE  IInv'
<1>0. /\ Types /\ TypeOK /\ WindowShape /\ WindowHeld(t)
  BY DEF IInv, Types
<1>1. call[t].pc \in Middle /\ call'[t].pc \in Middle /\ call[t].pc \notin Outside
  BY DEF HoldingOne, Middle, Labels, Outside, Requerying
<1>2. call[t].pc \in InQuery /\ call'[t].pc \in InQuery
  BY DEF HoldingOne, InQuery
<1>3. QueryRefs(1)
  BY <1>1, <1>2, OnlyThread
<1>4. QueryRefs(1)' /\ UNCHANGED mBindArgs
  BY <1>3 DEF QueryRefs, queryVars, QueryStepVars, loadVars, mainVars
<1>5. call'[t].pc \notin HoldingTwo
  BY DEF HoldingOne, HoldingTwo
<1>6. WindowHeld(t)'
  BY <1>0, <1>5 DEF WindowHeld, Owed, windowVars, QueryStepVars, mainVars
<1>7. WindowShape'
  BY <1>0 DEF WindowShape, windowVars, QueryStepVars
<1> QED
  BY <1>0, <1>1, <1>2, <1>4, <1>6, <1>7, QueryStep DEF TypeOK, windowVars

\* Taking the connection, and what is known of it.
LEMMA TakeEffect ==
    ASSUME PoolShape, acquireConnection
    PROVE  /\ connection' = "acquired" /\ asset' /\ UNCHANGED <<dbRefs, dbOpen, mIsOpen>>
  BY DEF acquireConnection, PoolShape

\* Giving it back: to the pool, or closed with its asset if the pool is.
LEMMA GiveBackEffect ==
    ASSUME PoolShape, connection = "acquired", releaseConnection
    PROVE  /\ connection' \in {"available", "closed"}
           /\ connection' = "available" => asset' /\ mIsOpen'
           /\ connection' = "closed" => ~asset' /\ ~mIsOpen'
           /\ UNCHANGED <<dbRefs, dbOpen, mIsOpen>>
<1>1. CASE mIsOpen
  BY <1>1 DEF releaseConnection, PoolShape
<1>2. CASE ~mIsOpen
  BY <1>2 DEF releaseConnection, closeConnection, ndkFileClose
<1> QED
  BY <1>1, <1>2

\* The connection goes back to the pool, or is closed with its asset if the pool is; the
\* handlers of the failure follow.
LEMMA ReleaseConnectionStep ==
    ASSUME IInv, NEW t \in Threads, ReleaseConnection(t),
           UNCHANGED loadVars, UNCHANGED mainVars
    PROVE  IInv'
<1>0. Types /\ PoolShape /\ GoesOn(t) /\ call \in [Threads -> Call]
  BY DEF IInv, Types
<1>1. UNCHANGED windowVars /\ UNCHANGED queryVars /\ UNCHANGED QueryStepVars
  BY DEF ReleaseConnection, QueryStepVars, cursorVars, lockVars
<1>2. PICK label \in {"releaseWindow", "onCorruption"} :
         /\ call[t].pc = "releaseConnection" /\ Goto(t, label) /\ releaseConnection
         /\ label = "onCorruption" => call[t].failed
  BY <1>0 DEF ReleaseConnection, At, GoesOn, AfterFailure
<1>3. label \in Labels /\ label \in HoldingOne /\ call[t].pc \in HoldingOne
  BY <1>2 DEF Labels, HoldingOne
<1>4. Relabelled(t, "releaseConnection", label)
  BY <1>0, <1>2, <1>3, GotoEffect DEF Relabelled
<1>5. connection = "acquired"
  BY <1>2, OnlyThread DEF Outside, Connected
<1>6. /\ connection' \in {"available", "closed"}
      /\ connection' = "available" => asset' /\ mIsOpen'
      /\ connection' = "closed" => ~asset' /\ ~mIsOpen'
      /\ UNCHANGED <<dbRefs, dbOpen, mIsOpen>>
  BY <1>0, <1>2, <1>5, GiveBackEffect
<1>7. label \notin Connected
  BY <1>2 DEF Connected
<1>8. GoesOn(t)'
  BY <1>0, <1>2, <1>3, GotoEffect
     DEF GoesOn, Failing, InHandler, Disposing, Outside, Requerying, AfterFill
<1>9. DatabaseShape' /\ dbRefs' \in Int
  BY <1>1, <1>2, <1>4, <1>6, DatabaseStays DEF Relabelled, HasDatabase, Disposing
<1> QED
  BY <1>1, <1>2, <1>3, <1>4, <1>6, <1>7, <1>8, <1>9, HeldStep DEF Relabelled

\* The reference to the window is given back.
LEMMA ReleaseWindowStep ==
    ASSUME IInv, NEW t \in Threads, ReleaseWindow(t),
           UNCHANGED loadVars, UNCHANGED mainVars
    PROVE  IInv'
<1>0. /\ Types /\ TypeOK /\ WindowShape /\ PoolShape /\ WindowHeld(t)
      /\ call \in [Threads -> Call]
  BY DEF IInv, Types
<1>1. UNCHANGED queryVars /\ UNCHANGED poolVars /\ UNCHANGED QueryStepVars
  BY DEF ReleaseWindow, QueryStepVars, cursorVars, lockVars
<1>2. call[t].pc = "releaseWindow" /\ Goto(t, "releaseQuery") /\ releaseWindow(call[t].read)
  BY DEF ReleaseWindow, At
<1>3. "releaseQuery" \in Labels /\ "releaseQuery" \in Middle /\ call[t].pc \in Middle
  BY <1>2 DEF Labels, Middle, Outside, Requerying
<1>4. Relabelled(t, "releaseWindow", "releaseQuery")
  BY <1>0, <1>2, <1>3, GotoEffect DEF Relabelled
<1>a. GoesOn(t)'
  BY <1>0, <1>2, <1>3, GotoEffect
     DEF IInv, GoesOn, Failing, InHandler, Disposing, Outside, Requerying, AfterFill
<1>b. DatabaseShape' /\ dbRefs' \in Int
  BY <1>1, <1>2, <1>4, DatabaseStays
     DEF Relabelled, HasDatabase, Disposing, poolVars
<1>5. QueryRefs(1) /\ connection # "acquired"
  BY <1>2, OnlyThread DEF Outside, InQuery, Connected
<1>6. QueryRefs(1)' /\ call'[t].pc \in InQuery /\ UNCHANGED mBindArgs
  BY <1>1, <1>4, <1>5 DEF QueryRefs, queryVars, QueryStepVars, loadVars, mainVars, InQuery,
       Relabelled
<1>7. call'[t].pc \notin Connected /\ connection # "none"
  BY <1>0, <1>2, <1>4 DEF Connected, Relabelled, PoolShape, IInv, InMonitor
<1>8. /\ native' \in [Windows -> {"none", "live", "disposed"}]
      /\ windowRefs' \in [Windows -> Int] /\ holds' \in [Windows -> Stored \cup {NULL}]
      /\ \A v \in Windows : native[v] # "none" => native'[v] # "none"
      /\ WindowShape'
  BY <1>0, <1>1, <1>2, ReleaseEffect DEF QueryStepVars
<1>9. WindowHeld(t)'
  BY <1>4 DEF WindowHeld, Relabelled, HoldingOne, HoldingTwo
<1>10. UNCHANGED holds
  BY <1>2 DEF releaseWindow
<1> QED
  BY <1>0, <1>1, <1>3, <1>4, <1>5, <1>6, <1>7, <1>8, <1>9, <1>10, <1>a, <1>b, QueryStep
     DEF Relabelled, TypeOK, PoolShape, poolVars

\* The reference to the query is given back.
LEMMA ReleaseQueryStep ==
    ASSUME IInv, NEW t \in Threads, ReleaseQuery(t),
           UNCHANGED loadVars, UNCHANGED mainVars
    PROVE  IInv'
<1>0. /\ Types /\ TypeOK /\ WindowShape /\ PoolShape /\ WindowHeld(t)
      /\ call \in [Threads -> Call]
  BY DEF IInv, Types
<1>1. UNCHANGED windowVars /\ UNCHANGED poolVars /\ UNCHANGED QueryStepVars
  BY DEF ReleaseQuery, QueryStepVars, cursorVars, lockVars
<1>2. PICK label \in {"catch", "counting"} :
         /\ call[t].pc = "releaseQuery" /\ Goto(t, label) /\ releaseQuery
         /\ label = "counting" => ~call[t].failed
  BY DEF ReleaseQuery, At
<1>3. label \in Labels /\ label \in Middle /\ call[t].pc \in Middle
  BY <1>2 DEF Labels, Middle, Outside, Requerying
<1>4. Relabelled(t, "releaseQuery", label)
  BY <1>0, <1>2, <1>3, GotoEffect DEF Relabelled
<1>a. GoesOn(t)'
  BY <1>0, <1>2, <1>3, GotoEffect
     DEF IInv, GoesOn, Failing, InHandler, Disposing, Outside, Requerying, AfterFill
<1>b. DatabaseShape' /\ dbRefs' \in Int
  BY <1>1, <1>2, <1>4, DatabaseStays
     DEF Relabelled, HasDatabase, Disposing, poolVars
<1>5. QueryRefs(1) /\ connection # "acquired"
  BY <1>2, OnlyThread DEF Outside, InQuery, Connected
<1>6. mBindArgs' \in {mBindArgs, NULL} /\ UNCHANGED <<load, main>>
  BY <1>1, <1>2 DEF releaseQuery, QueryStepVars, loadVars, mainVars
<1>7. QueryRefs(0)' /\ call'[t].pc \notin InQuery
  BY <1>2, <1>4, <1>5, <1>6 DEF releaseQuery, QueryRefs, InQuery, Relabelled
<1>8. call'[t].pc \notin Connected /\ connection # "none"
  BY <1>0, <1>2, <1>4 DEF Connected, Relabelled, PoolShape, IInv, InMonitor
<1>9. WindowHeld(t)'
  BY <1>4 DEF WindowHeld, Relabelled, HoldingOne, HoldingTwo
<1>10. WindowShape'
  BY <1>0, <1>1 DEF WindowShape, windowVars, QueryStepVars
<1> QED
  BY <1>0, <1>1, <1>3, <1>4, <1>5, <1>6, <1>7, <1>8, <1>9, <1>10, <1>a, <1>b, QueryStep
     DEF Relabelled, TypeOK, PoolShape, windowVars, poolVars

-----------------------------------------------------------------------------
(* Steps of the handler of a corrupt database *)

\* What the invariant says of the database, for the one thread that is in the provider.
DatabaseOf(t) ==
    /\ call[t].pc \in HasDatabase => dbRefs = Standing + 1
    /\ call[t].pc \notin HasDatabase => dbRefs <= Standing
    /\ dbRefs >= 1 => dbOpen /\ mIsOpen
    /\ dbRefs <= 0 /\ mIsOpen => main \in {"dispose", "pool"} \/ call[t].pc \in Disposing
    /\ main \in {"dispose", "pool"} => dbRefs <= 0
    /\ call[t].pc \in Disposing => dbRefs <= 0

\* It says that of a thread in the provider.
LEMMA DatabaseKnown ==
    ASSUME IInv, NEW t \in Threads, call[t].pc \notin Outside
    PROVE  DatabaseOf(t) /\ dbRefs \in Int
<1>1. \A u \in Threads \ {t} : call[u].pc \in Outside
  BY DEF IInv, InMonitor
<1>2. \A u \in Threads : call[u].pc \in HasDatabase \cup Disposing => u = t
  BY <1>1 DEF Outside, HasDatabase, Disposing
<1>3. load = "published" /\ DatabaseShape /\ dbRefs \in Int
  BY DEF IInv, InMonitor, Outside, Types, TypeOK
<1> QED
  BY <1>2, <1>3 DEF DatabaseShape, DatabaseOf

\* And is kept by what keeps that.
LEMMA DatabaseKept ==
    ASSUME IInv, NEW t \in Threads, Kept(t), UNCHANGED QueryStepVars,
           call[t].pc \notin Outside, DatabaseOf(t)'
    PROVE  DatabaseShape'
<1>1. \A u \in Threads \ {t} : call[u].pc \in Outside /\ call'[u] = call[u]
  BY DEF IInv, InMonitor, Kept, Others
<1>2. \A u \in Threads : call'[u].pc \in HasDatabase \cup Disposing => u = t
  BY <1>1 DEF Outside, HasDatabase, Disposing
<1>3. load = "published" /\ UNCHANGED <<load, main>>
  BY DEF IInv, InMonitor, Outside, QueryStepVars, loadVars, mainVars
<1> QED
  BY <1>2, <1>3 DEF DatabaseShape, DatabaseOf

\* A step of the handler that leaves the connection alone.
LEMMA HandlerStep ==
    ASSUME IInv, NEW t \in Threads, NEW label \in HoldingOne \ Connected,
           Kept(t), UNCHANGED QueryStepVars, UNCHANGED windowVars, UNCHANGED queryVars,
           call[t].pc \in InHandler \ Connected, call'[t].pc = label,
           call'[t].read = call[t].read,
           call'[t].requeried = call[t].requeried, call'[t].outcome = call[t].outcome,
           UNCHANGED <<mIsOpen, connection, asset>>,
           GoesOn(t)', DatabaseOf(t)', dbRefs' \in Int
    PROVE  IInv'
<1>0. PoolShape /\ connection \in {"none", "available", "acquired", "closed"}
  BY DEF IInv, Types, TypeOK
<1>1. call[t].pc \notin Outside /\ call[t].pc \in HoldingOne
  BY DEF InHandler, Outside, HoldingOne
<1>2. connection \notin {"none", "acquired"}
  BY <1>0, <1>1, OnlyThread DEF PoolShape, IInv, InMonitor, Outside
<1>3. DatabaseShape'
  BY <1>1, DatabaseKept
<1> QED
  BY <1>0, <1>1, <1>2, <1>3, HeldStep DEF PoolShape

\* The first steps: the database is still open, and gets a reference of this thread, or not.
LEMMA OnCorruptionStep ==
    ASSUME IInv, NEW t \in Threads, OnCorruption(t) \/ GetAttachedDbs(t),
           UNCHANGED loadVars, UNCHANGED mainVars
    PROVE  IInv'
<1>0. call \in [Threads -> Call] /\ GoesOn(t)
  BY DEF IInv, Types
<1>1. UNCHANGED windowVars /\ UNCHANGED queryVars /\ UNCHANGED QueryStepVars
  BY DEF OnCorruption, GetAttachedDbs, QueryStepVars, cursorVars, lockVars, resourceVars
<1>2. PICK label \in {"attached", "prepare", "releaseWindow", "closeDatabase"} :
         /\ Goto(t, label) /\ call[t].pc \in {"onCorruption", "attached"}
         /\ IF label = "prepare" THEN acquireDatabase ELSE UNCHANGED poolVars
  BY DEF OnCorruption, GetAttachedDbs, At, resourceVars
<1>3. /\ label \in Labels /\ label \in HoldingOne \ Connected
      /\ call[t].pc \in InHandler \ Connected /\ call[t].pc \notin Outside
  BY <1>2 DEF Labels, HoldingOne, Connected, InHandler, Outside
<1>4. /\ Kept(t) /\ call'[t].pc = label /\ call'[t].read = call[t].read
      /\ call'[t].requeried = call[t].requeried /\ call'[t].outcome = call[t].outcome
      /\ call'[t].then = call[t].then /\ call'[t].failed = call[t].failed
  BY <1>0, <1>2, <1>3, GotoEffect
<1>5. GoesOn(t)'
  BY <1>0, <1>2, <1>3, <1>4 DEF GoesOn, Failing, InHandler, Disposing
<1>6. DatabaseOf(t) /\ dbRefs \in Int
  BY <1>3, DatabaseKnown
<1>7. UNCHANGED <<dbOpen, mIsOpen, connection, asset, main>>
  BY <1>1, <1>2 DEF acquireDatabase, poolVars, QueryStepVars, mainVars
<1>8. Standing' = Standing /\ Standing \in {0, 1}
  BY <1>7 DEF Standing
<1>9. DatabaseOf(t)' /\ dbRefs' \in Int
  <2>1. call[t].pc \notin HasDatabase \cup Disposing /\ label \notin Disposing
    BY <1>2 DEF HasDatabase, Disposing
  <2>2. CASE label = "prepare"
    <3>1. dbRefs > 0 /\ dbRefs' = dbRefs + 1
      BY <1>2, <2>2 DEF acquireDatabase
    <3>2. dbRefs = 1 /\ Standing = 1
      BY <1>6, <1>8, <2>1, <3>1 DEF DatabaseOf
    <3> QED
      BY <1>4, <1>6, <1>7, <1>8, <2>1, <2>2, <3>1, <3>2 DEF DatabaseOf, HasDatabase
  <2>3. CASE label # "prepare"
    <3>1. dbRefs' = dbRefs /\ label \notin HasDatabase
      BY <1>2, <2>3 DEF poolVars, HasDatabase
    <3> QED
      BY <1>4, <1>6, <1>7, <1>8, <2>1, <3>1 DEF DatabaseOf
  <2> QED
    BY <2>2, <2>3
<1> QED
  BY <1>1, <1>3, <1>4, <1>5, <1>7, <1>9, HandlerStep

\* The pragma borrows the connection and gives it back.
LEMMA PragmaStep ==
    ASSUME IInv, NEW t \in Threads, UNCHANGED loadVars, UNCHANGED mainVars,
           \/ PragmaBorrows(t, "prepare", "preparing") \/ PragmaPrepared(t)
           \/ PragmaBorrows(t, "prepared", "listing") \/ PragmaListed(t)
    PROVE  IInv'
<1>0. PoolShape /\ call \in [Threads -> Call] /\ GoesOn(t)
  BY DEF IInv, Types
<1>1. UNCHANGED windowVars /\ UNCHANGED queryVars /\ UNCHANGED QueryStepVars
  BY DEF PragmaBorrows, PragmaPrepared, PragmaListed, QueryStepVars, cursorVars, lockVars
<1>2. PICK label \in {"preparing", "prepared", "listing", "detach"} :
         /\ Goto(t, label) /\ call[t].pc \in {"prepare", "preparing", "prepared", "listing"}
         /\ IF label \in Connected THEN acquireConnection
            ELSE call[t].pc \in Connected /\ releaseConnection
  BY DEF PragmaBorrows, PragmaPrepared, PragmaListed, At, Connected
<1>3. /\ label \in Labels /\ label \in HoldingOne
      /\ call[t].pc \in HoldingOne /\ call[t].pc \notin Outside
  BY <1>2 DEF Labels, HoldingOne, Outside
<1>4. /\ Kept(t) /\ call'[t].pc = label /\ call'[t].read = call[t].read
      /\ call'[t].requeried = call[t].requeried /\ call'[t].outcome = call[t].outcome
      /\ call'[t].then = call[t].then /\ call'[t].failed = call[t].failed
  BY <1>0, <1>2, <1>3, GotoEffect
<1>5. GoesOn(t)'
  BY <1>0, <1>2, <1>4 DEF GoesOn, Failing, InHandler, Disposing
<1>6. /\ connection' = "acquired" <=> label \in Connected
      /\ connection' \in {"available", "acquired", "closed"}
      /\ connection' \in {"available", "acquired"} => asset'
      /\ connection' = "closed" => ~asset' /\ ~mIsOpen'
      /\ connection' = "available" => mIsOpen'
      /\ UNCHANGED <<dbRefs, dbOpen, mIsOpen>>
  <2>1. CASE label \in Connected
    BY <1>0, <1>2, <2>1, TakeEffect
  <2>2. CASE label \notin Connected
    <3>1. connection = "acquired"
      BY <1>2, <1>3, <2>2, OnlyThread
    <3> QED
      BY <1>0, <1>2, <2>2, <3>1, GiveBackEffect
  <2> QED
    BY <2>1, <2>2
<1>7. DatabaseShape' /\ dbRefs' \in Int
  BY <1>1, <1>2, <1>4, <1>6, DatabaseStays DEF HasDatabase, Disposing
<1> QED
  BY <1>1, <1>3, <1>4, <1>5, <1>6, <1>7, HeldStep

\* Giving up a reference of the database: the thread's own, or the one that stands for close().
LEMMA GiveUpStep ==
    ASSUME IInv, NEW t \in Threads, UNCHANGED loadVars, UNCHANGED mainVars,
           \/ GiveUpDatabase(t, "detach", "closeDatabase")
           \/ GiveUpDatabase(t, "closeDatabase", "releaseWindow")
    PROVE  IInv'
<1>0. call \in [Threads -> Call] /\ GoesOn(t)
  BY DEF IInv, Types
<1>1. UNCHANGED windowVars /\ UNCHANGED queryVars /\ UNCHANGED QueryStepVars
  BY DEF GiveUpDatabase, QueryStepVars, cursorVars, lockVars
<1>2. PICK next \in AfterDispose :
         /\ call[t].pc = IF next = "closeDatabase" THEN "detach" ELSE "closeDatabase"
         /\ releaseDatabase
         /\ ThenAs(t, IF dbRefs = 1 THEN "dispose" ELSE next, next)
  BY DEF GiveUpDatabase, At, AfterDispose, ThenAs
<1> DEFINE label == IF dbRefs = 1 THEN "dispose" ELSE next
<1>3. /\ label \in Labels /\ label \in HoldingOne \ Connected
      /\ call[t].pc \in InHandler \ Connected /\ call[t].pc \notin Outside
      /\ next \in Nexts /\ label \in {"dispose", "closeDatabase", "releaseWindow"}
  BY <1>2 DEF Labels, HoldingOne, Connected, InHandler, Outside, AfterDispose, Nexts
<1>3a. ThenAs(t, label, next)
  BY <1>2
<1>a. (dbRefs = 1 => label = "dispose") /\ (dbRefs # 1 => label = next)
  OBVIOUS
<1> HIDE DEF label
<1>4. /\ Kept(t) /\ call'[t].pc = label /\ call'[t].then = next /\ call'[t].read = call[t].read
      /\ call'[t].requeried = call[t].requeried /\ call'[t].outcome = call[t].outcome
      /\ call'[t].failed = call[t].failed
  BY <1>0, <1>3, <1>3a, ThenEffect
<1>5. GoesOn(t)'
  BY <1>0, <1>2, <1>3, <1>4 DEF GoesOn, Failing, InHandler, Disposing
<1>6. DatabaseOf(t) /\ dbRefs \in Int
  BY <1>3, DatabaseKnown
<1>7. /\ dbRefs' = dbRefs - 1
      /\ UNCHANGED <<dbOpen, mIsOpen, connection, asset, main>>
  BY <1>1, <1>2 DEF releaseDatabase, QueryStepVars, mainVars
<1>8. Standing' = Standing /\ Standing \in {0, 1}
  BY <1>7 DEF Standing
<1>9. DatabaseOf(t)' /\ dbRefs' \in Int
  <2>1. /\ call[t].pc \notin Disposing /\ label \notin HasDatabase
        /\ label \in Disposing <=> dbRefs = 1
        /\ call[t].pc \in HasDatabase <=> next = "closeDatabase"
    BY <1>2, <1>3, <1>a DEF HasDatabase, Disposing, AfterDispose
  <2>2. dbRefs' <= Standing
    BY <1>6, <1>7, <1>8, <2>1 DEF DatabaseOf
  <2> QED
    BY <1>4, <1>6, <1>7, <1>8, <2>1, <2>2 DEF DatabaseOf
<1> QED
  BY <1>1, <1>3, <1>4, <1>5, <1>7, <1>9, HandlerStep

\* Taking the pool from the database.
LEMMA DisposeStep ==
    ASSUME IInv, NEW t \in Threads, Dispose(t), UNCHANGED loadVars, UNCHANGED mainVars
    PROVE  IInv'
<1>0. call \in [Threads -> Call] /\ GoesOn(t)
  BY DEF IInv, Types
<1>1. /\ UNCHANGED windowVars /\ UNCHANGED queryVars /\ UNCHANGED QueryStepVars
      /\ disposeDatabase /\ call[t].pc = "dispose" /\ Goto(t, "disposePool")
  BY DEF Dispose, QueryStepVars, cursorVars, lockVars, At
<1>2. /\ "disposePool" \in Labels /\ "disposePool" \in HoldingOne \ Connected
      /\ call[t].pc \in InHandler \ Connected /\ call[t].pc \notin Outside
      /\ call[t].pc \in Disposing \ HasDatabase /\ "disposePool" \in Disposing \ HasDatabase
  BY <1>1 DEF Labels, HoldingOne, Connected, InHandler, Outside, Disposing, HasDatabase
<1>3. /\ Kept(t) /\ call'[t].pc = "disposePool" /\ call'[t].read = call[t].read
      /\ call'[t].requeried = call[t].requeried /\ call'[t].outcome = call[t].outcome
      /\ call'[t].then = call[t].then /\ call'[t].failed = call[t].failed
  BY <1>0, <1>1, <1>2, GotoEffect
<1>4. GoesOn(t)'
  BY <1>0, <1>1, <1>3 DEF GoesOn, Failing, InHandler, Disposing
<1>5. DatabaseOf(t) /\ dbRefs \in Int
  BY <1>2, DatabaseKnown
<1>6. UNCHANGED <<dbRefs, mIsOpen, connection, asset, main>>
  BY <1>1 DEF disposeDatabase, QueryStepVars, mainVars
<1>7. Standing' = Standing
  BY <1>6 DEF Standing
<1>8. DatabaseOf(t)' /\ dbRefs' \in Int
  BY <1>2, <1>3, <1>5, <1>6, <1>7 DEF DatabaseOf
<1> QED
  BY <1>1, <1>2, <1>3, <1>4, <1>6, <1>8, HandlerStep

\* Closing the pool; no thread has its connection, this one being in the provider.
LEMMA DisposePoolStep ==
    ASSUME IInv, NEW t \in Threads, DisposePool(t), UNCHANGED loadVars, UNCHANGED mainVars
    PROVE  IInv'
<1>0. /\ call \in [Threads -> Call] /\ GoesOn(t) /\ PoolShape
      /\ connection \in {"none", "available", "acquired", "closed"}
  BY DEF IInv, Types, TypeOK
<1>1. PICK next \in AfterDispose :
         /\ UNCHANGED windowVars /\ UNCHANGED queryVars /\ UNCHANGED QueryStepVars
         /\ closePool /\ call[t].pc = "disposePool" /\ Goto(t, next)
  BY <1>0 DEF DisposePool, QueryStepVars, cursorVars, lockVars, At, GoesOn, Disposing
<1>2. /\ next \in Labels /\ next \in HoldingOne \ Connected
      /\ call[t].pc \in HoldingOne /\ call[t].pc \notin Outside \cup Connected
      /\ call[t].pc \in Disposing \ HasDatabase /\ next \notin Disposing \cup HasDatabase
  BY <1>1 DEF Labels, HoldingOne, Connected, Outside, Disposing, HasDatabase, AfterDispose
<1>3. /\ Kept(t) /\ call'[t].pc = next /\ call'[t].read = call[t].read
      /\ call'[t].requeried = call[t].requeried /\ call'[t].outcome = call[t].outcome
      /\ call'[t].then = call[t].then /\ call'[t].failed = call[t].failed
  BY <1>0, <1>1, <1>2, GotoEffect
<1>4. GoesOn(t)'
  BY <1>0, <1>1, <1>2, <1>3 DEF GoesOn, Failing, InHandler, Disposing, AfterDispose
<1>5. DatabaseOf(t) /\ dbRefs \in Int
  BY <1>2, DatabaseKnown
<1>6. UNCHANGED <<dbRefs, dbOpen, main>> /\ mIsOpen' = FALSE
  BY <1>1 DEF closePool, QueryStepVars, mainVars
<1>7. connection \notin {"none", "acquired"}
  BY <1>0, <1>2, OnlyThread DEF PoolShape, IInv, InMonitor, Outside
<1>8. connection' = "closed" /\ ~asset'
  BY <1>0, <1>1, <1>7 DEF closePool, closeConnection, ndkFileClose, PoolShape
<1>9. DatabaseOf(t)' /\ dbRefs' \in Int
  <2>1. Standing' = Standing
    BY <1>6 DEF Standing
  <2> QED
    BY <1>2, <1>3, <1>5, <1>6, <2>1 DEF DatabaseOf
<1>10. DatabaseShape'
  BY <1>1, <1>2, <1>3, <1>9, DatabaseKept
<1> QED
  BY <1>1, <1>2, <1>3, <1>4, <1>6, <1>8, <1>9, <1>10, HeldStep

-----------------------------------------------------------------------------
(* Entering and leaving the provider *)

\* Entering the monitor keeps the invariant: nobody else is in it.
LEMMA EnterStep ==
    ASSUME IInv, NEW t \in Threads, Enter(t), UNCHANGED loadVars, UNCHANGED mainVars
    PROVE  IInv'
<1>0. /\ Types /\ TypeOK /\ WindowShape /\ ProviderShape /\ QueryShape /\ PoolShape
      /\ DatabaseShape /\ GoesOn(t)
      /\ InMonitor(t) /\ OwnTile(t) /\ call \in [Threads -> Call]
  BY DEF IInv, Types
<1>1. /\ UNCHANGED windowVars /\ UNCHANGED queryRefs /\ UNCHANGED poolVars
      /\ UNCHANGED <<mWindow, mCount, mPos, cursorLock, load, main, mainRead, overlay>>
      /\ monitor = NULL /\ monitor' = t /\ mBindArgs' = call[t].want
      /\ call[t].pc = "enter" /\ Goto(t, "requery")
  BY DEF Enter, cursorVars, At, loadVars, mainVars
<1>2. "requery" \in Labels
  BY DEF Labels
<1>3. Relabelled(t, "enter", "requery")
  BY <1>0, <1>1, <1>2, GotoEffect DEF Relabelled
<1>4. /\ \A u \in Threads \ {t} : call[u].pc \in Outside /\ call'[u] = call[u]
      /\ \A u \in Threads \ {t} : InMonitor(u)' /\ GoesOn(u)' /\ WindowHeld(u)' /\ OwnTile(u)'
  BY <1>0, <1>1, <1>3, OthersStep DEF Relabelled, Kept, windowVars
<1>5. InMonitor(t)'
  BY <1>0, <1>1, <1>3 DEF InMonitor, Relabelled, Kept, Requerying
<1>6. WindowHeld(t)'
  BY <1>3 DEF WindowHeld, Relabelled, HoldingOne, HoldingTwo
<1>7. OwnTile(t)'
  <2>1. ~call'[t].requeried /\ call'[t].outcome = "none"
    BY <1>0, <1>3 DEF OwnTile, Relabelled
  <2>2. call'[t].read # NULL => native'[call'[t].read] # "none"
    BY <1>0, <1>1, <1>3 DEF OwnTile, Relabelled, windowVars
  <2> QED
    BY <1>3, <2>1, <2>2 DEF OwnTile, Relabelled
<1>8. Types'
  <2>1. call' \in [Threads -> Call] /\ call[t].want \in Tiles \cup {NULL}
    BY <1>0, <1>3 DEF Relabelled, Kept, Call
  <2>2. \A u \in Threads : call'[u].read \in Windows \cup {NULL}
    BY <2>1 DEF Call
  <2> QED
    BY <1>0, <1>1, <2>1, <2>2 DEF Types, TypeOK, windowVars, poolVars
<1>9. WindowShape' /\ ProviderShape'
  BY <1>0, <1>1 DEF WindowShape, ProviderShape, windowVars
<1>10. \A u \in Threads : /\ call'[u].pc \in InQuery <=> call[u].pc \in InQuery
                          /\ call'[u].pc \in Connected <=> call[u].pc \in Connected
                          /\ call'[u].pc \in HasDatabase <=> call[u].pc \in HasDatabase
                          /\ call'[u].pc \in Disposing <=> call[u].pc \in Disposing
  BY <1>1, <1>3, <1>4 DEF Relabelled, InQuery, Connected, HasDatabase, Disposing, Outside
<1>11. QueryShape' /\ PoolShape' /\ DatabaseShape'
  BY <1>0, <1>1, <1>10, QueryFrame, PoolFrame, DatabaseFrame DEF poolVars
<1>12. GoesOn(t)'
  BY <1>0, <1>1, <1>2, GotoEffect DEF GoesOn, Failing, InHandler, Disposing, Requerying
<1> QED
  BY <1>4, <1>5, <1>6, <1>7, <1>8, <1>9, <1>11, <1>12 DEF IInv

\* Leaving it too: the outcome is that of the call, or an exception.
LEMMA LeaveStep ==
    ASSUME IInv, NEW t \in Threads, Leave(t), UNCHANGED loadVars, UNCHANGED mainVars
    PROVE  IInv'
<1>0. /\ Types /\ TypeOK /\ WindowShape /\ ProviderShape /\ QueryShape /\ PoolShape
      /\ DatabaseShape
      /\ InMonitor(t) /\ OwnTile(t) /\ call \in [Threads -> Call]
  BY DEF IInv, Types
<1> DEFINE c == [NoCall EXCEPT !.session = call[t].session,
                               !.want = call[t].want, !.requeried = call[t].requeried,
                               !.outcome = IF call[t].failed THEN "threw" ELSE call[t].outcome]
<1>1. /\ UNCHANGED windowVars /\ UNCHANGED queryVars /\ UNCHANGED poolVars
      /\ UNCHANGED <<mWindow, mCount, mPos, cursorLock, load, main, mainRead, overlay>>
      /\ monitor' = NULL /\ call[t].pc = "leave" /\ call' = [call EXCEPT ![t] = c]
  BY DEF Leave, cursorVars, At, loadVars, mainVars, resourceVars
<1>2. /\ c.pc = "idle" /\ c.failed = FALSE /\ c.read = NULL /\ c.requeried = call[t].requeried
      /\ c.want = call[t].want /\ c.outcome \in {"threw", call[t].outcome}
  BY DEF NoCall
<1>3. c \in Call
  <2>1. call[t] \in Call /\ "idle" \in Labels
    BY <1>0 DEF Labels
  <2>2. NoCall.then \in Nexts /\ NoCall.failed = FALSE
    BY DEF NoCall, Nexts
  <2> QED
    BY <2>1, <2>2 DEF Call, NoCall
<1> HIDE DEF c
<1>4. call'[t] = c /\ Others(t) /\ call' \in [Threads -> Call]
  BY <1>0, <1>1, <1>3 DEF Others
<1>5. /\ \A u \in Threads \ {t} : call[u].pc \in Outside /\ call'[u] = call[u]
      /\ \A u \in Threads \ {t} : InMonitor(u)' /\ GoesOn(u)' /\ WindowHeld(u)' /\ OwnTile(u)'
  BY <1>0, <1>1, <1>4, OthersStep DEF Outside, windowVars
<1>6. InMonitor(t)' /\ WindowHeld(t)'
  BY <1>2, <1>4 DEF InMonitor, WindowHeld, Outside, HoldingOne, HoldingTwo
<1>7. OwnTile(t)'
  <2>1. c.requeried /\ c.outcome \in Tiles => c.outcome = c.want
    BY <1>0, <1>2, TileAssumption DEF OwnTile
  <2> QED
    BY <1>2, <1>4, <2>1 DEF OwnTile, Requerying
<1>8. Types'
  <2>1. \A u \in Threads : call'[u].read \in Windows \cup {NULL}
    BY <1>4 DEF Call
  <2> QED
    BY <1>0, <1>1, <1>4, <2>1 DEF Types, TypeOK, windowVars, queryVars, poolVars
<1>9. WindowShape' /\ ProviderShape'
  BY <1>0, <1>1 DEF WindowShape, ProviderShape, windowVars
<1>10. \A u \in Threads : /\ call'[u].pc \in InQuery <=> call[u].pc \in InQuery
                          /\ call'[u].pc \in Connected <=> call[u].pc \in Connected
                          /\ call'[u].pc \in HasDatabase <=> call[u].pc \in HasDatabase
                          /\ call'[u].pc \in Disposing <=> call[u].pc \in Disposing
  BY <1>1, <1>2, <1>4, <1>5 DEF InQuery, Connected, HasDatabase, Disposing, Outside
<1>11. QueryShape' /\ PoolShape' /\ DatabaseShape'
  BY <1>0, <1>1, <1>10, QueryFrame, PoolFrame, DatabaseFrame DEF queryVars, poolVars
<1>12. GoesOn(t)'
  BY <1>2, <1>4 DEF GoesOn, InHandler, Disposing, Outside
<1> QED
  BY <1>5, <1>6, <1>7, <1>8, <1>9, <1>11, <1>12 DEF IInv

\* So does asking for a tile.
LEMMA AskTileStep ==
    ASSUME IInv, NEW t \in Threads, NEW tile \in Tiles, AskTile(t, tile)
    PROVE  IInv'
<1>0. /\ Types /\ TypeOK /\ WindowShape /\ ProviderShape /\ QueryShape /\ PoolShape
      /\ DatabaseShape
      /\ call \in [Threads -> Call]
  BY DEF IInv, Types
<1> DEFINE c == [NoCall EXCEPT !.pc = "enter", !.want = tile, !.session = call[t].session]
<1>1. /\ UNCHANGED windowVars /\ UNCHANGED queryVars /\ UNCHANGED poolVars
      /\ UNCHANGED <<mWindow, mCount, mPos, monitor, cursorLock, load, main, mainRead, overlay>>
      /\ overlay /\ call[t].pc = "idle" /\ call' = [call EXCEPT ![t] = c]
  BY DEF AskTile, cursorVars, lockVars, At, loadVars, mainVars, resourceVars
<1>2. /\ c.pc = "enter" /\ c.read = NULL /\ c.want = tile /\ c.outcome = "none"
  BY DEF NoCall
<1>3. ~c.requeried /\ c.failed = FALSE
  BY DEF NoCall
<1>4. c \in Call
  <2>1. call[t] \in Call /\ "enter" \in Labels
    BY <1>0 DEF Labels
  <2>2. NoCall.then \in Nexts /\ NoCall.failed = FALSE
    BY DEF NoCall, Nexts
  <2> QED
    BY <2>1, <2>2 DEF Call, NoCall
<1> HIDE DEF c
<1>5. call'[t] = c /\ Others(t) /\ call' \in [Threads -> Call]
  BY <1>0, <1>1, <1>4 DEF Others
<1>6. \A u \in Threads \ {t} : InMonitor(u)' /\ GoesOn(u)' /\ WindowHeld(u)' /\ OwnTile(u)'
  <2> SUFFICES ASSUME NEW u \in Threads \ {t}
               PROVE  InMonitor(u)' /\ GoesOn(u)' /\ WindowHeld(u)' /\ OwnTile(u)'
    OBVIOUS
  <2>0. InMonitor(u) /\ GoesOn(u) /\ WindowHeld(u) /\ OwnTile(u) /\ call'[u] = call[u]
    BY <1>5 DEF IInv, Others
  <2>1. InMonitor(u)'
    BY <1>1, <2>0 DEF InMonitor, queryVars
  <2>2. WindowHeld(u)'
    BY <1>1, <2>0 DEF WindowHeld, Owed, windowVars
  <2>3. OwnTile(u)'
    BY <1>1, <2>0 DEF OwnTile, windowVars
  <2>4. GoesOn(u)'
    BY <2>0 DEF GoesOn
  <2> QED
    BY <2>1, <2>2, <2>3, <2>4
<1>7. InMonitor(t)' /\ WindowHeld(t)' /\ OwnTile(t)'
  <2>1. load' = "published" /\ tile # NULL
    BY <1>0, <1>1, ResourceAssumption DEF ProviderShape
  <2>2. InMonitor(t)' /\ WindowHeld(t)'
    BY <1>2, <1>5, <2>1 DEF InMonitor, WindowHeld, Outside, HoldingOne, HoldingTwo
  <2>3. OwnTile(t)'
    BY <1>2, <1>3, <1>5 DEF OwnTile
  <2> QED
    BY <2>2, <2>3
<1>8. Types'
  <2>1. \A u \in Threads : call'[u].read \in Windows \cup {NULL}
    BY <1>5 DEF Call
  <2> QED
    BY <1>0, <1>1, <1>5, <2>1 DEF Types, TypeOK, windowVars, queryVars, poolVars
<1>9. WindowShape' /\ ProviderShape'
  BY <1>0, <1>1 DEF WindowShape, ProviderShape, windowVars
<1>10. \A u \in Threads : /\ call'[u].pc \in InQuery <=> call[u].pc \in InQuery
                          /\ call'[u].pc \in Connected <=> call[u].pc \in Connected
                          /\ call'[u].pc \in HasDatabase <=> call[u].pc \in HasDatabase
                          /\ call'[u].pc \in Disposing <=> call[u].pc \in Disposing
  BY <1>1, <1>2, <1>5 DEF Others, InQuery, Connected, HasDatabase, Disposing
<1>11. QueryShape' /\ PoolShape' /\ DatabaseShape'
  BY <1>0, <1>1, <1>10, QueryFrame, PoolFrame, DatabaseFrame DEF queryVars, poolVars
<1>12. GoesOn(t)'
  BY <1>2, <1>3, <1>5 DEF GoesOn, InHandler, Disposing, Outside
<1> QED
  BY <1>6, <1>7, <1>8, <1>9, <1>11, <1>12 DEF IInv

-----------------------------------------------------------------------------
(* Steps of the loader *)

\* All that the invariant is about.
Shown == <<windowVars, queryVars, poolVars, loadVars, mainVars, mWindow, mCount, mPos, monitor,
           cursorLock, call>>

\* A step that leaves all of that alone keeps the invariant.
LEMMA SameStep ==
    ASSUME IInv, UNCHANGED Shown
    PROVE  IInv'
<1>1. /\ UNCHANGED <<native, windowRefs, holds, queryRefs, mBindArgs, dbRefs, dbOpen, mIsOpen,
                     connection, asset, load, overlay, main, mainRead>>
      /\ UNCHANGED <<mWindow, mCount, mPos, monitor, cursorLock, call>>
  BY DEF Shown, windowVars, queryVars, poolVars, loadVars, mainVars
<1>2. Types'
  BY <1>1 DEF IInv, Types, TypeOK
<1>3. \A t \in Threads : InMonitor(t)' /\ GoesOn(t)' /\ WindowHeld(t)' /\ OwnTile(t)'
  <2> SUFFICES ASSUME NEW t \in Threads
               PROVE  InMonitor(t)' /\ GoesOn(t)' /\ WindowHeld(t)' /\ OwnTile(t)'
    OBVIOUS
  <2>1. InMonitor(t)'
    BY <1>1 DEF IInv, InMonitor
  <2>2. WindowHeld(t)'
    BY <1>1 DEF IInv, WindowHeld, Owed
  <2>3. OwnTile(t)'
    BY <1>1 DEF IInv, OwnTile
  <2>4. GoesOn(t)'
    BY <1>1 DEF IInv, GoesOn
  <2> QED
    BY <2>1, <2>2, <2>3, <2>4
<1>4. WindowShape' /\ ProviderShape'
  BY <1>1 DEF IInv, WindowShape, ProviderShape
<1>5. QueryShape'
  BY <1>1, QueryFrame DEF IInv
<1>6. PoolShape' /\ DatabaseShape'
  BY <1>1, PoolFrame, DatabaseFrame DEF IInv, poolVars
<1> QED
  BY <1>2, <1>3, <1>4, <1>5, <1>6 DEF IInv

\* Until the provider is published no thread is in it: a step of the loader keeps the
\* invariant if it keeps what is said of the query and of the pool.
LEMMA LoadStep ==
    ASSUME IInv, load # "published", UNCHANGED overlay,
           UNCHANGED <<windowVars, mBindArgs, mainVars, mWindow, mCount, mPos, monitor, cursorLock,
                       call>>,
           load' \in {"queued", "opening", "built", "published", "failed"},
           load' = "published" => main = "run",
           QueryRefs(0)', PoolShape', DatabaseShape', dbRefs' \in Int,
           connection' \in {"none", "available", "acquired", "closed"}
    PROVE  IInv'
<1>0. /\ UNCHANGED <<native, windowRefs, holds, mBindArgs, main, mainRead>>
      /\ UNCHANGED <<mWindow, mCount, mPos, monitor, cursorLock, call, overlay>>
  BY DEF windowVars, mainVars
<1>1. \A t \in Threads : call[t].pc = "idle"
  BY DEF IInv, InMonitor
<1>2. ~overlay /\ main \notin Closing
  BY DEF IInv, ProviderShape
<1>3. QueryShape'
  BY <1>0, <1>1 DEF QueryShape, InQuery
<1>4. queryRefs' \in -1 .. 2
  BY DEF QueryRefs
<1>5. Types'
  BY <1>0, <1>4 DEF IInv, Types, TypeOK
<1>6. \A t \in Threads : InMonitor(t)' /\ GoesOn(t)' /\ WindowHeld(t)' /\ OwnTile(t)'
  <2> SUFFICES ASSUME NEW t \in Threads
               PROVE  InMonitor(t)' /\ GoesOn(t)' /\ WindowHeld(t)' /\ OwnTile(t)'
    OBVIOUS
  <2>1. InMonitor(t)' /\ WindowHeld(t)'
    BY <1>0, <1>1 DEF InMonitor, WindowHeld, Outside, HoldingOne, HoldingTwo
  <2>2. OwnTile(t)'
    BY <1>0 DEF IInv, OwnTile
  <2>3. GoesOn(t)'
    BY <1>0 DEF IInv, GoesOn
  <2> QED
    BY <2>1, <2>2, <2>3
<1>7. WindowShape' /\ ProviderShape'
  BY <1>0, <1>2 DEF IInv, WindowShape, ProviderShape
<1> QED
  BY <1>3, <1>5, <1>6, <1>7 DEF IInv

\* Every step of the loader keeps the invariant.
LEMMA LoadingStep ==
    ASSUME IInv, Loading
    PROVE  IInv'
<1>0. /\ UNCHANGED mainVars /\ UNCHANGED <<mWindow, mCount, mPos, monitor, cursorLock, call>>
      /\ UNCHANGED <<main, mainRead>>
  BY DEF Loading, cursorVars, lockVars, mainVars
<1>1. /\ Types /\ TypeOK /\ QueryShape /\ PoolShape /\ ProviderShape /\ DatabaseShape
      /\ dbRefs \in Int
  BY DEF IInv, Types, TypeOK
<1>2. load # "published" => QueryRefs(0) /\ main \notin Closing
                            /\ \A t \in Threads : call[t].pc = "idle"
  BY DEF IInv, InMonitor, QueryShape, ProviderShape, InQuery
<1>a. \A t \in Threads : call[t].pc = "idle"
         => call[t].pc \notin Connected \cup HasDatabase \cup Disposing
  BY DEF Connected, HasDatabase, Disposing
<1>b. Standing' = Standing
  BY <1>0 DEF Standing
<1>3. CASE loadData
  <2>1. /\ load = "none" /\ load' = "queued" /\ UNCHANGED overlay /\ UNCHANGED poolVars
        /\ UNCHANGED <<windowVars, queryRefs, mBindArgs>>
    BY <1>3 DEF loadData, resourceVars, queryVars
  <2>2. QueryRefs(0)'
    BY <1>2, <2>1 DEF QueryRefs
  <2>3. PoolShape' /\ connection' \in {"none", "available", "acquired", "closed"}
    BY <1>0, <1>1, <2>1 DEF PoolShape, poolVars, TypeOK
  <2>4. DatabaseShape' /\ dbRefs' \in Int
    BY <1>0, <1>1, <1>2, <1>a, <1>b, <2>1 DEF DatabaseShape, poolVars
  <2> QED
    BY <1>0, <2>1, <2>2, <2>3, <2>4, LoadStep
<1>4. CASE OpenDatabase
  <2>1. /\ load = "queued" /\ load' \in {"opening", "failed"} /\ UNCHANGED overlay
        /\ UNCHANGED <<windowVars, queryRefs, mBindArgs>>
    BY <1>4 DEF OpenDatabase, resourceVars, queryVars
  <2>2. QueryRefs(0)'
    BY <1>2, <2>1 DEF QueryRefs
  <2>3. \/ load' = "opening" /\ connection' = "available" /\ asset' = TRUE /\ mIsOpen' = TRUE
           /\ dbOpen' = TRUE /\ dbRefs' = 1
        \/ load' = "failed" /\ UNCHANGED poolVars
    BY <1>4 DEF OpenDatabase, resourceVars, openDatabase, ndkOpen
  <2>4. PoolShape' /\ connection' \in {"none", "available", "acquired", "closed"}
    BY <1>0, <1>1, <1>2, <1>a, <2>1, <2>3 DEF PoolShape, poolVars, TypeOK
  <2>5. DatabaseShape' /\ dbRefs' \in Int
    BY <1>0, <1>1, <1>2, <1>a, <2>1, <2>3 DEF DatabaseShape, poolVars, Closing, MainLabels
  <2> QED
    BY <1>0, <2>1, <2>2, <2>4, <2>5, LoadStep
<1>5. CASE BuildProvider
  <2>1. /\ load = "opening" /\ UNCHANGED overlay /\ load' \in {"built", "failed"}
        /\ UNCHANGED <<windowVars, mBindArgs>>
        /\ \/ load' = "built" /\ queryRefs' = 1
           \/ load' = "failed" /\ UNCHANGED queryRefs
    BY <1>5 DEF BuildProvider
  <2>2. QueryRefs(0)'
    BY <1>2, <2>1 DEF QueryRefs
  <2>3. \/ UNCHANGED poolVars
        \/ /\ load' = "failed" /\ dbRefs' = 0 /\ mIsOpen' = FALSE
           /\ connection' = "closed" /\ asset' = FALSE
    BY <1>5 DEF BuildProvider, closeConnection, ndkFileClose
  <2>4. PoolShape' /\ connection' \in {"none", "available", "acquired", "closed"}
    <3>1. CASE UNCHANGED poolVars
      BY <1>0, <1>1, <2>1, <3>1 DEF PoolShape, poolVars, TypeOK
    <3>2. CASE load' = "failed" /\ mIsOpen' = FALSE /\ connection' = "closed" /\ asset' = FALSE
      <4>1. \A t \in Threads : call'[t].pc \notin Connected
        BY <1>0, <1>2, <1>a, <2>1
      <4> QED
        BY <3>2, <4>1 DEF PoolShape
    <3> QED
      BY <2>3, <3>1, <3>2
  <2>5. DatabaseShape' /\ dbRefs' \in Int
    <3>1. CASE UNCHANGED poolVars
      BY <1>0, <1>1, <1>2, <1>a, <2>1, <3>1 DEF DatabaseShape, poolVars
    <3>2. CASE load' = "failed" /\ dbRefs' = 0 /\ mIsOpen' = FALSE
      BY <3>2 DEF DatabaseShape
    <3> QED
      BY <2>3, <3>1, <3>2
  <2> QED
    BY <1>0, <2>1, <2>2, <2>4, <2>5, LoadStep
<1>6. CASE Publish
  <2>1. /\ load = "built" /\ load' = "published" /\ main = "run" /\ UNCHANGED overlay
        /\ UNCHANGED poolVars /\ UNCHANGED <<windowVars, queryRefs, mBindArgs>>
    BY <1>6 DEF Publish, resourceVars, queryVars
  <2>2. QueryRefs(0)'
    BY <1>0, <1>2, <2>1 DEF QueryRefs
  <2>3. PoolShape' /\ connection' \in {"none", "available", "acquired", "closed"}
    BY <1>0, <1>1, <2>1 DEF PoolShape, poolVars, TypeOK
  <2>4. DatabaseShape' /\ dbRefs' \in Int
    BY <1>0, <1>1, <1>2, <1>a, <1>b, <2>1 DEF DatabaseShape, poolVars, Standing
  <2> QED
    BY <1>0, <2>1, <2>2, <2>3, <2>4, LoadStep
<1>7. CASE ShowTiles
  <2>0. /\ load = "published" /\ overlay' = TRUE /\ UNCHANGED load
        /\ UNCHANGED <<windowVars, queryVars, poolVars>>
    BY <1>7 DEF ShowTiles, resourceVars
  <2>1. UNCHANGED <<native, windowRefs, holds, queryRefs, mBindArgs, dbRefs, dbOpen, mIsOpen,
                    connection, asset, load>>
    BY <2>0 DEF windowVars, queryVars, poolVars
  <2>2. Types'
    BY <1>0, <2>1 DEF IInv, Types, TypeOK
  <2>3. \A t \in Threads : InMonitor(t)' /\ GoesOn(t)' /\ WindowHeld(t)' /\ OwnTile(t)'
    <3> SUFFICES ASSUME NEW t \in Threads
                 PROVE  InMonitor(t)' /\ GoesOn(t)' /\ WindowHeld(t)' /\ OwnTile(t)'
      OBVIOUS
    <3>1. InMonitor(t)'
      BY <1>0, <2>1 DEF IInv, InMonitor
    <3>2. WindowHeld(t)'
      BY <1>0, <2>1 DEF IInv, WindowHeld, Owed
    <3>3. OwnTile(t)'
      BY <1>0, <2>1 DEF IInv, OwnTile
    <3>4. GoesOn(t)'
      BY <1>0 DEF IInv, GoesOn
    <3> QED
      BY <3>1, <3>2, <3>3, <3>4
  <2>4. WindowShape' /\ ProviderShape'
    BY <1>0, <2>0, <2>1 DEF IInv, WindowShape, ProviderShape
  <2>5. QueryShape'
    BY <1>0, <2>1, QueryFrame DEF IInv
  <2>6. PoolShape' /\ DatabaseShape'
    BY <1>0, <2>1, PoolFrame, DatabaseFrame DEF IInv, poolVars
  <2> QED
    BY <2>2, <2>3, <2>4, <2>5, <2>6 DEF IInv
<1> QED
  BY <1>3, <1>4, <1>5, <1>6, <1>7 DEF Loading

-----------------------------------------------------------------------------
(* Steps of the main thread *)

\* What the main thread may do to the references of a window: nothing, or give back the one it
\* owes.
References(w) ==
    \/ windowRefs'[w] = windowRefs[w] /\ (Owed(w)' => Owed(w))
    \/ windowRefs'[w] = windowRefs[w] - 1 /\ Owed(w) /\ ~Owed(w)'

\* A step of onDestroy keeps the invariant if it keeps what is said of the windows, the query
\* and the pool, and takes no reference from the threads.
LEMMA MainStep ==
    ASSUME IInv, UNCHANGED <<load, mPos, mCount, monitor, cursorLock, call, holds>>,
           native' \in [Windows -> {"none", "live", "disposed"}],
           windowRefs' \in [Windows -> Int],
           \A w \in Windows : native[w] # "none" => native'[w] # "none",
           \A w \in Windows : References(w),
           mWindow' \in {mWindow, NULL}, mBindArgs' \in {mBindArgs, NULL},
           main' \in MainLabels, mainRead' \in Windows \cup {NULL},
           connection' \in {"none", "available", "acquired", "closed"},
           dbRefs' \in Int,
           WindowShape', ProviderShape', QueryShape', PoolShape', DatabaseShape'
    PROVE  IInv'
<1>0. /\ Types /\ TypeOK /\ call \in [Threads -> Call]
      /\ \A t \in Threads : InMonitor(t) /\ GoesOn(t) /\ WindowHeld(t) /\ OwnTile(t)
  BY DEF IInv, Types
<1>1. queryRefs' \in -1 .. 2
  BY DEF QueryShape, QueryRefs
<1>2. Types'
  BY <1>0, <1>1 DEF Types, TypeOK
<1>3. \A t \in Threads : InMonitor(t)' /\ GoesOn(t)'
  BY <1>0 DEF InMonitor, GoesOn
<1>4. \A t \in Threads : WindowHeld(t)'
  <2> SUFFICES ASSUME NEW t \in Threads PROVE WindowHeld(t)'
    OBVIOUS
  <2> DEFINE w == call[t].read
  <2>1. WindowHeld(t) /\ w \in Windows \cup {NULL} /\ call'[t] = call[t]
    BY <1>0 DEF TypeOK
  <2>2. CASE w # NULL
    <3>1. w \in Windows /\ windowRefs[w] \in Int /\ References(w)
      BY <1>0, <2>1, <2>2 DEF TypeOK
    <3>2. windowRefs[w] >= (IF Owed(w) THEN 2 ELSE 1) => windowRefs'[w] >= IF Owed(w)' THEN 2 ELSE 1
      BY <3>1 DEF References
    <3>3. windowRefs[w] >= (IF Owed(w) THEN 3 ELSE 2) => windowRefs'[w] >= IF Owed(w)' THEN 3 ELSE 2
      BY <3>1 DEF References
    <3> QED
      BY <2>1, <2>2, <3>2, <3>3 DEF WindowHeld, Owed
  <2>3. CASE w = NULL
    BY <2>1, <2>3 DEF WindowHeld
  <2> QED
    BY <2>2, <2>3
<1>5. \A t \in Threads : OwnTile(t)'
  <2> SUFFICES ASSUME NEW t \in Threads PROVE OwnTile(t)'
    OBVIOUS
  <2>1. OwnTile(t) /\ call'[t] = call[t] /\ call[t].read \in Windows \cup {NULL}
    BY <1>0 DEF TypeOK
  <2> QED
    BY <2>1 DEF OwnTile
<1> QED
  BY <1>2, <1>3, <1>4, <1>5 DEF IInv

\* The main thread at a label that says nothing of the query or the connection.
EarlyLabels == {"run", "close", "test", "read", "release", "forget", "query"}

\* A step of onDestroy before the query is closed leaves query, pool and database as they are.
LEMMA EarlyMainStep ==
    ASSUME QueryShape, PoolShape, DatabaseShape, UNCHANGED <<load, call>>,
           UNCHANGED queryVars, UNCHANGED poolVars, main \in EarlyLabels,
           main' \in EarlyLabels \/ (load # "published" /\ main' = "destroyed")
    PROVE  QueryShape' /\ PoolShape' /\ DatabaseShape'
<1>1. UNCHANGED <<queryRefs, connection, asset, dbRefs, dbOpen, mIsOpen>>
  BY DEF queryVars, poolVars
<1>2. \A n : QueryRefs(n)' <=> QueryRefs(n)
  BY <1>1 DEF QueryRefs, EarlyLabels
<1>3. QueryShape'
  BY <1>2 DEF QueryShape
<1>4. PoolShape'
  BY <1>1 DEF PoolShape
<1>5. DatabaseShape'
  <2>1. CASE load = "published"
    <3>1. Standing' = Standing /\ main' \in EarlyLabels
      BY <2>1 DEF Standing, EarlyLabels
    <3> QED
      BY <1>1, <2>1, <3>1 DEF DatabaseShape, EarlyLabels
  <2>2. CASE load # "published"
    BY <1>1, <2>2 DEF DatabaseShape, EarlyLabels
  <2> QED
    BY <2>1, <2>2
<1> QED
  BY <1>3, <1>4, <1>5

\* What the steps of onDestroy leave alone.
LEMMA MainKeeps ==
    ASSUME Destroy \/ close
    PROVE  /\ UNCHANGED <<load, mPos, mCount, monitor, cursorLock, call>>
           /\ UNCHANGED load /\ UNCHANGED call
  BY DEF Destroy, close, lockVars

\* onDestroy and the first steps of close() keep the invariant.
LEMMA CloseStartStep ==
    ASSUME IInv, Destroy \/ close,
           onDestroy \/ CloseCursor \/ CloseWindowTest \/ CloseWindowRead \/ CloseWindowForget
    PROVE  IInv'
<1>0. /\ Types /\ TypeOK /\ WindowShape /\ ProviderShape /\ QueryShape /\ PoolShape
      /\ DatabaseShape /\ dbRefs \in Int
      /\ main \in MainLabels /\ mainRead \in Windows \cup {NULL} /\ mWindow \in Windows \cup {NULL}
  BY DEF IInv, Types, TypeOK
<1>1. /\ UNCHANGED <<load, mPos, mCount, monitor, cursorLock, call>>
      /\ UNCHANGED load /\ UNCHANGED call
  BY MainKeeps
<1>2. UNCHANGED windowVars /\ UNCHANGED queryVars /\ UNCHANGED poolVars
  BY DEF onDestroy, CloseCursor, CloseWindowTest, CloseWindowRead, CloseWindowForget, resourceVars
<1>3. UNCHANGED <<native, windowRefs, holds, mBindArgs, connection, dbRefs>>
  BY <1>2 DEF windowVars, queryVars, poolVars
<1>4. /\ main \in EarlyLabels /\ main' \in MainLabels
      /\ main' \in EarlyLabels \/ (load # "published" /\ main' = "destroyed")
      /\ main # "run" => main \in Closing
      /\ main = "run" => main' \notin Closing \/ load = "published"
  BY DEF onDestroy, CloseCursor, CloseWindowTest, CloseWindowRead, CloseWindowForget, AtMain,
         EarlyLabels, MainLabels, Closing
<1>4a. overlay' = FALSE \/ UNCHANGED overlay
  BY DEF onDestroy, CloseCursor, CloseWindowTest, CloseWindowRead, CloseWindowForget
<1>5. ProviderShape'
  BY <1>0, <1>1, <1>4, <1>4a DEF ProviderShape, Closing
<1>6. QueryShape' /\ PoolShape' /\ DatabaseShape'
  BY <1>0, <1>1, <1>2, <1>4, EarlyMainStep
<1>7. mWindow' \in {mWindow, NULL} /\ mainRead' \in Windows \cup {NULL}
  BY <1>0 DEF onDestroy, CloseCursor, CloseWindowTest, CloseWindowRead, CloseWindowForget
<1>8. WindowShape'
  BY <1>0, <1>3, <1>7 DEF WindowShape
<1>9. \A w \in Windows : References(w)
  <2> SUFFICES ASSUME NEW w \in Windows PROVE Owed(w)' => Owed(w)
    BY <1>3 DEF References
  <2>1. CASE CloseWindowRead
    BY <2>1 DEF CloseWindowRead, AtMain, Owed
  <2>2. CASE onDestroy \/ CloseCursor \/ CloseWindowTest
    BY <2>2 DEF onDestroy, CloseCursor, CloseWindowTest, AtMain, Owed
  <2>3. CASE CloseWindowForget
    BY <2>3 DEF CloseWindowForget, AtMain, Owed
  <2> QED
    BY <2>1, <2>2, <2>3
<1>10. /\ native' \in [Windows -> {"none", "live", "disposed"}]
       /\ windowRefs' \in [Windows -> Int]
       /\ \A w \in Windows : native[w] # "none" => native'[w] # "none"
       /\ connection' \in {"none", "available", "acquired", "closed"} /\ dbRefs' \in Int
  BY <1>0, <1>3 DEF TypeOK
<1> QED
  BY <1>1, <1>3, <1>4, <1>5, <1>6, <1>7, <1>8, <1>9, <1>10, MainStep

\* Giving back the cursor's reference to its window keeps the invariant: the threads' own
\* references stay.
LEMMA CloseReleaseStep ==
    ASSUME IInv, close, CloseWindowRelease
    PROVE  IInv'
<1>0. /\ Types /\ TypeOK /\ WindowShape /\ ProviderShape /\ QueryShape /\ PoolShape
      /\ DatabaseShape /\ dbRefs \in Int
      /\ mainRead \in Windows \cup {NULL} /\ windowRefs \in [Windows -> Int]
  BY DEF IInv, Types, TypeOK
<1>1. /\ UNCHANGED <<load, mPos, mCount, monitor, cursorLock, call>>
      /\ UNCHANGED load /\ UNCHANGED call
  BY MainKeeps
<1>2. /\ UNCHANGED queryVars /\ UNCHANGED poolVars /\ UNCHANGED <<mainRead, mWindow, overlay>>
      /\ main = "release" /\ main' = "forget" /\ releaseWindow(mainRead)
  BY DEF CloseWindowRelease, AtMain
<1>3. /\ native' \in [Windows -> {"none", "live", "disposed"}]
      /\ windowRefs' \in [Windows -> Int]
      /\ \A v \in Windows : native[v] # "none" => native'[v] # "none"
      /\ WindowShape'
  BY <1>0, <1>2, ReleaseEffect
<1>4. UNCHANGED <<holds, mBindArgs, connection, dbRefs>>
  BY <1>2 DEF releaseWindow, queryVars, poolVars
<1>5. ProviderShape'
  BY <1>0, <1>1, <1>2 DEF ProviderShape, Closing, MainLabels
<1>6. QueryShape' /\ PoolShape' /\ DatabaseShape'
  BY <1>0, <1>1, <1>2, EarlyMainStep DEF EarlyLabels
<1>7. \A w \in Windows : References(w)
  <2>1. \A w \in Windows :
           windowRefs'[w] = IF w = mainRead THEN windowRefs[w] - 1 ELSE windowRefs[w]
    BY <1>0, <1>2 DEF releaseWindow
  <2> QED
    BY <1>2, <2>1 DEF References, Owed
<1>8. connection' \in {"none", "available", "acquired", "closed"} /\ main' \in MainLabels
  BY <1>0, <1>2, <1>4 DEF TypeOK, MainLabels
<1> QED
  BY <1>0, <1>1, <1>2, <1>3, <1>4, <1>5, <1>6, <1>7, <1>8, MainStep

\* The rest of close() keeps the invariant if it keeps what is said of the query, the pool and
\* the database.
LEMMA CloseEndFrame ==
    ASSUME IInv, close, UNCHANGED windowVars, UNCHANGED <<mainRead, mWindow, overlay>>,
           main \in {"query", "database", "databaseRelease", "dispose", "pool"},
           main' \in {"database", "databaseRelease", "dispose", "pool", "destroyed"},
           mBindArgs' \in {mBindArgs, NULL}, dbRefs' \in Int,
           connection' \in {"none", "available", "acquired", "closed"},
           QueryShape', PoolShape', DatabaseShape'
    PROVE  IInv'
<1>0. /\ Types /\ TypeOK /\ WindowShape /\ ProviderShape /\ mainRead \in Windows \cup {NULL}
  BY DEF IInv, Types
<1>1. /\ UNCHANGED <<load, mPos, mCount, monitor, cursorLock, call>>
      /\ UNCHANGED load /\ UNCHANGED call
  BY MainKeeps
<1>2. UNCHANGED <<native, windowRefs, holds>>
  BY DEF windowVars
<1>3. main' \in MainLabels /\ load = "published"
  BY <1>0 DEF ProviderShape, Closing, MainLabels
<1>4. WindowShape' /\ ProviderShape'
  BY <1>0, <1>1, <1>2, <1>3 DEF WindowShape, ProviderShape
<1>5. \A w \in Windows : References(w)
  BY <1>2 DEF References, Owed
<1>6. /\ native' \in [Windows -> {"none", "live", "disposed"}]
      /\ windowRefs' \in [Windows -> Int]
      /\ \A w \in Windows : native[w] # "none" => native'[w] # "none"
  BY <1>0, <1>2 DEF TypeOK
<1> QED
  BY <1>0, <1>1, <1>2, <1>3, <1>4, <1>5, <1>6, MainStep

\* Closing the query, and looking whether the database is open.
LEMMA CloseQueryStep ==
    ASSUME IInv, close, CloseQuery \/ CloseDatabaseTest
    PROVE  IInv'
<1>0. /\ Types /\ TypeOK /\ ProviderShape /\ QueryShape /\ PoolShape /\ DatabaseShape
  BY DEF IInv, Types
<1>1. UNCHANGED load /\ UNCHANGED call
  BY MainKeeps
<1>2. /\ UNCHANGED windowVars /\ UNCHANGED poolVars /\ UNCHANGED <<mainRead, mWindow, overlay>>
      /\ \/ main = "query" /\ main' = "database" /\ releaseQuery
         \/ /\ main = "database" /\ UNCHANGED queryVars
            /\ \/ main' = "databaseRelease"
               \/ main' = "destroyed" /\ ~dbOpen
  BY DEF CloseQuery, CloseDatabaseTest, AtMain, resourceVars
<1>3. load = "published"
  BY <1>0, <1>2 DEF ProviderShape, Closing, MainLabels
<1>4. mBindArgs' \in {mBindArgs, NULL}
  BY <1>2 DEF releaseQuery, queryVars
<1>5. QueryShape'
  <2>1. queryRefs \in Int
    BY <1>0 DEF TypeOK
  <2>2. QueryRefs(0) => QueryRefs(0)'
    BY <1>1, <1>2, <1>3, <2>1 DEF releaseQuery, queryVars, QueryRefs
  <2>3. QueryRefs(1) => QueryRefs(1)'
    BY <1>1, <1>2, <1>3, <2>1 DEF releaseQuery, queryVars, QueryRefs
  <2> QED
    BY <1>0, <1>1, <2>2, <2>3 DEF QueryShape
<1>6. UNCHANGED <<dbRefs, dbOpen, mIsOpen, connection, asset>>
  BY <1>2 DEF poolVars
<1>7. PoolShape' /\ connection' \in {"none", "available", "acquired", "closed"}
  BY <1>0, <1>1, <1>6 DEF PoolShape, TypeOK
<1>8. DatabaseShape' /\ dbRefs' \in Int
  <2>1. dbRefs \in Int
    BY <1>0 DEF TypeOK
  <2>2. CASE main' = "destroyed"
    <3>1. dbRefs <= 0 /\ Standing = 1 /\ Standing' = 0
      BY <1>0, <1>2, <2>1, <2>2 DEF DatabaseShape, Standing
    <3>2. \A t \in Threads : call[t].pc \notin HasDatabase
      BY <1>0, <1>3, <2>1, <3>1 DEF DatabaseShape
    <3> QED
      BY <1>0, <1>1, <1>2, <1>3, <1>6, <2>1, <2>2, <3>1, <3>2 DEF DatabaseShape
  <2>3. CASE main' # "destroyed"
    <3>1. Standing' = Standing
      BY <1>2, <2>3 DEF Standing
    <3> QED
      BY <1>0, <1>1, <1>2, <1>6, <2>1, <2>3, <3>1 DEF DatabaseShape
  <2> QED
    BY <2>2, <2>3
<1> QED
  BY <1>2, <1>4, <1>5, <1>7, <1>8, CloseEndFrame

\* Giving up the reference that stands for close().
LEMMA CloseDatabaseStep ==
    ASSUME IInv, close, CloseDatabase
    PROVE  IInv'
<1>0. /\ Types /\ TypeOK /\ ProviderShape /\ QueryShape /\ PoolShape /\ DatabaseShape
      /\ dbRefs \in Int
  BY DEF IInv, Types, TypeOK
<1>1. UNCHANGED load /\ UNCHANGED call
  BY MainKeeps
<1>2. /\ UNCHANGED windowVars /\ UNCHANGED queryVars /\ UNCHANGED <<mainRead, mWindow, overlay>>
      /\ main = "databaseRelease" /\ main' = IF dbRefs = 1 THEN "dispose" ELSE "destroyed"
      /\ dbRefs' = dbRefs - 1 /\ UNCHANGED <<dbOpen, mIsOpen, connection, asset>>
  BY DEF CloseDatabase, releaseDatabase
<1>3. load = "published"
  BY <1>0, <1>2 DEF ProviderShape, Closing, MainLabels
<1>4. \A n : QueryRefs(n)' <=> QueryRefs(n)
  BY <1>1, <1>2 DEF QueryRefs, queryVars
<1>5. QueryShape'
  BY <1>0, <1>1, <1>4 DEF QueryShape
<1>6. PoolShape' /\ connection' \in {"none", "available", "acquired", "closed"}
  BY <1>0, <1>1, <1>2 DEF PoolShape, TypeOK
<1>7. Standing = 1 /\ Standing' = 0
  BY <1>2 DEF Standing
<1>8. DatabaseShape'
  <2>1. CASE \E t \in Threads : call[t].pc \in HasDatabase
    <3>1. dbRefs = 2
      BY <1>0, <1>3, <1>7, <2>1 DEF DatabaseShape
    <3> QED
      BY <1>0, <1>1, <1>2, <1>3, <1>7, <2>1, <3>1 DEF DatabaseShape
  <2>2. CASE \A t \in Threads : call[t].pc \notin HasDatabase
    <3>1. dbRefs <= 1
      BY <1>0, <1>3, <1>7, <2>2 DEF DatabaseShape
    <3> QED
      BY <1>0, <1>1, <1>2, <1>3, <1>7, <2>2, <3>1 DEF DatabaseShape
  <2> QED
    BY <2>1, <2>2
<1>9. mBindArgs' \in {mBindArgs, NULL} /\ dbRefs' \in Int
  BY <1>0, <1>2 DEF queryVars
<1> QED
  BY <1>2, <1>5, <1>6, <1>8, <1>9, CloseEndFrame

\* Disposing of the database and closing the pool: a connection in use is left to the thread
\* that has it.
LEMMA ClosePoolStep ==
    ASSUME IInv, close, DisposeDatabase \/ ClosePool
    PROVE  IInv'
<1>0. /\ Types /\ TypeOK /\ QueryShape /\ PoolShape /\ DatabaseShape /\ dbRefs \in Int
  BY DEF IInv, Types, TypeOK
<1>1. UNCHANGED load /\ UNCHANGED call
  BY MainKeeps
<1>2. /\ UNCHANGED windowVars /\ UNCHANGED queryVars /\ UNCHANGED <<mainRead, mWindow, overlay>>
      /\ UNCHANGED dbRefs
      /\ \/ main = "dispose" /\ main' = "pool" /\ disposeDatabase
         \/ main = "pool" /\ main' = "destroyed" /\ closePool
  BY DEF DisposeDatabase, ClosePool, AtMain, disposeDatabase, closePool
<1>3. \A n : QueryRefs(n)' <=> QueryRefs(n)
  BY <1>1, <1>2 DEF QueryRefs, queryVars
<1>4. QueryShape'
  BY <1>0, <1>1, <1>3 DEF QueryShape
<1>5. PoolShape' /\ connection' \in {"none", "available", "acquired", "closed"}
  <2>1. CASE disposeDatabase
    BY <1>0, <1>1, <2>1 DEF disposeDatabase, PoolShape, TypeOK
  <2>2. CASE closePool
    <3>1. /\ mIsOpen' = FALSE
          /\ \/ connection = "available" /\ connection' = "closed" /\ asset' = FALSE
             \/ connection # "available" /\ UNCHANGED <<connection, asset>>
      BY <2>2 DEF closePool, closeConnection, ndkFileClose
    <3> QED
      BY <1>0, <1>1, <3>1 DEF PoolShape, TypeOK
  <2> QED
    BY <1>2, <2>1, <2>2
<1>6. Standing' = Standing /\ dbRefs <= 0
  BY <1>0, <1>2 DEF Standing, DatabaseShape
<1>7. DatabaseShape'
  <2>1. UNCHANGED mIsOpen \/ mIsOpen' = FALSE
    BY <1>2 DEF disposeDatabase, closePool
  <2>2. mIsOpen' => main' = "pool"
    BY <1>2 DEF closePool
  <2> QED
    BY <1>0, <1>1, <1>2, <1>6, <2>1, <2>2 DEF DatabaseShape
<1>8. mBindArgs' \in {mBindArgs, NULL} /\ dbRefs' \in Int
  BY <1>0, <1>2 DEF queryVars
<1> QED
  BY <1>2, <1>4, <1>5, <1>7, <1>8, CloseEndFrame

-----------------------------------------------------------------------------
(* The theorems *)

\* The invariant holds initially.
LEMMA InitIInv ==
    ASSUME Init
    PROVE  IInv
<1>0. /\ native = [w \in Windows |-> "none"] /\ windowRefs = [w \in Windows |-> 0]
      /\ holds = [w \in Windows |-> NULL] /\ queryRefs = 0 /\ mBindArgs = NULL
      /\ dbRefs = 0 /\ mIsOpen = FALSE /\ connection = "none"
      /\ load = "none" /\ overlay = FALSE /\ main = "run"
      /\ mainRead = NULL /\ mWindow = NULL /\ mPos = -1 /\ mCount = NO_COUNT
      /\ monitor = NULL /\ cursorLock = NULL
      /\ call = [t \in Threads |-> NoCall]
  BY DEF Init, ResourceInit
<1>1. NoCall \in Call
  <2>1. "idle" \in Labels /\ "idle" \in Nexts
    BY DEF Labels, Nexts
  <2> QED
    BY <2>1 DEF NoCall, Call
<1>2. call \in [Threads -> Call]
  BY <1>0, <1>1
<1>3. \A t \in Threads : /\ call[t].pc = "idle" /\ call[t].read = NULL
                         /\ call[t].outcome = "none" /\ call[t].failed = FALSE
  BY <1>0 DEF NoCall
<1>4. Types
  BY <1>0, <1>2, <1>3 DEF Types, TypeOK, MainLabels
<1>5. \A t \in Threads : InMonitor(t) /\ GoesOn(t) /\ WindowHeld(t) /\ OwnTile(t)
  <2> SUFFICES ASSUME NEW t \in Threads
               PROVE  InMonitor(t) /\ GoesOn(t) /\ WindowHeld(t) /\ OwnTile(t)
    OBVIOUS
  <2>1. InMonitor(t) /\ WindowHeld(t)
    BY <1>3 DEF InMonitor, WindowHeld, Outside, HoldingOne, HoldingTwo
  <2>2. OwnTile(t)
    BY <1>3, TileAssumption DEF OwnTile, Requerying
  <2>3. GoesOn(t)
    BY <1>3 DEF GoesOn, InHandler, Disposing, Outside
  <2> QED
    BY <2>1, <2>2, <2>3
<1>6. WindowShape /\ ProviderShape
  BY <1>0 DEF WindowShape, ProviderShape, Closing, MainLabels
<1>7. QueryShape
  BY <1>0, <1>3 DEF QueryShape, QueryRefs, InQuery
<1>8. PoolShape
  BY <1>0, <1>3 DEF PoolShape, Connected
<1>9. DatabaseShape
  BY <1>0, <1>3 DEF DatabaseShape, HasDatabase, Disposing
<1> QED
  BY <1>4, <1>5, <1>6, <1>7, <1>8, <1>9 DEF IInv

\* A step of a thread in getTile keeps it.
LEMMA GetTileStep ==
    ASSUME IInv, NEW t \in Threads, getTile(t)
    PROVE  IInv'
<1>0. UNCHANGED loadVars /\ UNCHANGED mainVars
  BY DEF getTile
<1>1. CASE Enter(t)
  BY <1>0, <1>1, EnterStep
<1>2. CASE requery(t)
  BY <1>0, <1>2, QuietStep, ClearStep DEF requery, Quiet
<1>3. CASE moveToPosition(t)
  BY <1>0, <1>3, QuietStep DEF Quiet
<1>4. CASE fillWindow(t)
  <2>1. CASE FillTest(t)
    BY <1>0, <2>1, FillTestStep
  <2>2. CASE FillUse(t)
    BY <1>0, <2>2, ClearStep
  <2>3. CASE AcquireQuery(t)
    BY <1>0, <2>3, AcquireQueryStep
  <2>4. CASE AcquireWindow(t)
    BY <1>0, <2>4, AcquireWindowStep
  <2>5. CASE GetSession(t)
    BY <1>0, <2>5, GetSessionStep
  <2>6. CASE AcquireConnection(t)
    BY <1>0, <2>6, AcquireConnectionStep
  <2>7. CASE Execute(t)
    BY <1>0, <2>7, ExecuteStep
  <2>8. CASE Fill(t)
    BY <1>0, <2>8, FillStep
  <2>9. CASE Filled(t)
    BY <1>0, <2>9, FilledStep
  <2>10. CASE ReleaseConnection(t)
    BY <1>0, <2>10, ReleaseConnectionStep
  <2>11. CASE ReleaseWindow(t)
    BY <1>0, <2>11, ReleaseWindowStep
  <2>12. CASE ReleaseQuery(t)
    BY <1>0, <2>12, ReleaseQueryStep
  <2>13. CASE CatchRelease(t) \/ CatchForget(t)
    BY <1>0, <2>13, CatchStep
  <2>14. CASE \/ FillRead(t) \/ FillArgument(t) \/ Counting(t) \/ CapacityRead(t)
              \/ CapacityUse(t) \/ Catch(t) \/ CatchRead(t)
    BY <1>0, <2>14, QuietStep DEF Quiet
  <2>15. CASE onCorruption(t)
    BY <1>0, <2>15, OnCorruptionStep, PragmaStep, GiveUpStep, DisposeStep, DisposePoolStep
       DEF onCorruption
  <2> QED
    BY <1>4, <2>1, <2>2, <2>3, <2>4, <2>5, <2>6, <2>7, <2>8, <2>9, <2>10, <2>11, <2>12, <2>13,
       <2>14, <2>15 DEF fillWindow
<1>5. CASE getBlob(t)
  BY <1>0, <1>5, QuietStep DEF Quiet
<1>6. CASE Leave(t)
  BY <1>0, <1>6, LeaveStep
<1> QED
  BY <1>1, <1>2, <1>3, <1>4, <1>5, <1>6 DEF getTile

\* Every step keeps it.
LEMMA NextIInv ==
    ASSUME IInv, [Next]_vars
    PROVE  IInv'
<1>1. CASE Loading
  BY <1>1, LoadingStep
<1>2. CASE Destroy
  BY <1>2, CloseStartStep DEF Destroy
<1>3. CASE close
  BY <1>3, CloseStartStep, CloseReleaseStep, CloseQueryStep, CloseDatabaseStep, ClosePoolStep
     DEF close
<1>4. CASE CloseWindowThrows
  <2>1. UNCHANGED Shown
    BY <1>4 DEF CloseWindowThrows, Shown, resourceVars, cursorVars, lockVars
  <2> QED
    BY <2>1, SameStep
<1>5. ASSUME NEW t \in Threads, getTile(t) PROVE IInv'
  BY <1>5, GetTileStep
<1>6. ASSUME NEW t \in Threads, FillFails(t) PROVE IInv'
  <2>1. UNCHANGED loadVars /\ UNCHANGED mainVars
    BY <1>6 DEF FillFails
  <2> QED
    BY <1>6, <2>1, FillStep
<1>7. ASSUME NEW t \in Threads, UseDisposed(t) PROVE IInv'
  <2>1. UNCHANGED Shown
    BY <1>7 DEF UseDisposed, Shown, resourceVars, cursorVars, lockVars
  <2> QED
    BY <2>1, SameStep
<1>8. ASSUME NEW t \in Threads, NEW tile \in Tiles, AskTile(t, tile) PROVE IInv'
  BY <1>8, AskTileStep
<1>9. CASE UNCHANGED vars
  <2>1. UNCHANGED Shown
    BY <1>9 DEF vars, Shown, resourceVars, cursorVars, lockVars
  <2> QED
    BY <2>1, SameStep
<1> QED
  BY <1>1, <1>2, <1>3, <1>4, <1>5, <1>6, <1>7, <1>8, <1>9 DEF Next

\* So it is an invariant of the specification.
LEMMA InvariantHolds == Spec => []IInv
<1>1. Init => IInv
  BY InitIInv
<1>2. IInv /\ [Next]_vars => IInv'
  BY NextIInv
<1> QED
  BY <1>1, <1>2, PTL DEF Spec

\* Every variable of the provider, the cursor and the resources behind it has its type; the
\* query's count stays between -1 and 2.
THEOREM TypeCorrect == Spec => []TypeOK
<1>1. IInv => TypeOK
  BY DEF IInv, Types
<1> QED
  BY <1>1, InvariantHolds, PTL

\* However many threads ask for tiles while onDestroy closes the provider, and whoever of them
\* finds the database corrupt and closes it too, the connection and the asset a query runs on
\* stay open until it is over: SQLiteConnectionPool.dispose leaves a connection in use to
\* releaseConnection, and the handler closes the database after its own query only.
THEOREM ConnectionStaysOpen == Spec => []ConnectionOpenWhileUsed
<1>1. IInv => ConnectionOpenWhileUsed
  BY DEF IInv, PoolShape, ConnectionOpenWhileUsed
<1> QED
  BY <1>1, InvariantHolds, PTL

\* The window a query fills is live until fillWindow gives it back, the handler of a corrupt
\* database included, even if onDestroy gives back the cursor's reference meanwhile: the counts
\* of SQLiteClosable outlive close().
THEOREM FilledWindowStaysLive == Spec => []FilledWindowIsHeld
<1>1. IInv => FilledWindowIsHeld
  <2> SUFFICES ASSUME IInv, NEW t \in Threads,
                      call[t].pc \in Connected \cup InHandler
                                      \cup {"session", "acquireConnection", "releaseWindow"}
               PROVE  native[call[t].read] = "live"
    BY DEF FilledWindowIsHeld
  <2>1. WindowHeld(t) /\ WindowShape /\ call[t].read \in Windows \cup {NULL}
        /\ windowRefs \in [Windows -> Int]
    BY DEF IInv, Types, TypeOK
  <2>2. call[t].pc \in HoldingOne \cup HoldingTwo
    BY DEF Connected, InHandler, HoldingOne, HoldingTwo
  <2>3. call[t].read \in Windows /\ windowRefs[call[t].read] \in Int
        /\ windowRefs[call[t].read] >= 1
    BY <2>1, <2>2 DEF WindowHeld
  <2> QED
    BY <2>1, <2>3 DEF WindowShape
<1> QED
  BY <1>1, InvariantHolds, PTL

\* Where the error handler is about to borrow the connection for its pragma.
PragmaFindsConnection ==
    \A t \in Threads :
        call[t].pc \in {"prepare", "prepared"} => mIsOpen /\ connection = "available" /\ asset

\* The reference getAttachedDbs counts keeps the pool open for the pragma, though close() on the
\* main thread may give up the other one meanwhile: the handler's query never finds the pool
\* closed, and never waits.
THEOREM PragmaIsServed == Spec => []PragmaFindsConnection
<1>1. IInv => PragmaFindsConnection
  <2> SUFFICES ASSUME IInv, NEW t \in Threads, call[t].pc \in {"prepare", "prepared"}
               PROVE  mIsOpen /\ connection = "available" /\ asset
    BY DEF PragmaFindsConnection
  <2>1. /\ call[t].pc \in HasDatabase /\ call[t].pc \notin Connected
        /\ call[t].pc \notin Outside /\ call[t].pc # "idle"
    BY DEF HasDatabase, Connected, Outside
  <2>2. DatabaseOf(t) /\ dbRefs \in Int
    BY <2>1, DatabaseKnown
  <2>3. mIsOpen
    BY <2>1, <2>2 DEF DatabaseOf, Standing
  <2>4. connection # "acquired" /\ load = "published" /\ PoolShape
    BY <2>1, OnlyThread DEF IInv, InMonitor
  <2>5. connection # "closed"
    BY <2>3, <2>4 DEF IInv, PoolShape
  <2> QED
    BY <2>3, <2>4, <2>5 DEF IInv, Types, TypeOK, PoolShape
<1> QED
  BY <1>1, InvariantHolds, PTL

\* Once onDestroy is over and the last call has returned, connection and asset are closed, by
\* whichever thread was last: close(), the error handler, or a query that gave its connection
\* back to a closed pool.  Nothing leaks.
THEOREM NothingLeftOpen == Spec => []ClosedInTheEnd
<1>1. IInv => ClosedInTheEnd
  <2> SUFFICES ASSUME IInv, load = "published", main = "destroyed",
                      \A t \in Threads : call[t].pc = "idle"
               PROVE  connection = "closed" /\ ~asset
    BY DEF ClosedInTheEnd, At
  <2>1. /\ PoolShape /\ DatabaseShape /\ dbRefs \in Int
        /\ connection \in {"none", "available", "acquired", "closed"}
    BY DEF IInv, Types, TypeOK
  <2>2. \A t \in Threads : call[t].pc \notin HasDatabase \cup Disposing \cup Connected
    BY DEF HasDatabase, Disposing, Connected
  <2>3. dbRefs <= 0
    BY <2>1, <2>2 DEF DatabaseShape, Standing
  <2>4. ~mIsOpen
    BY <2>1, <2>2, <2>3 DEF DatabaseShape
  <2> QED
    BY <2>1, <2>2, <2>4 DEF PoolShape
<1> QED
  BY <1>1, InvariantHolds, PTL

\* A call of getTile that asked the cursor again returns the tile it was asked for or none:
\* the monitor gives the query's arguments and the cursor to one call at a time.
THEOREM TileAsked == Spec => []TileIsTheOneAsked
<1>1. IInv => TileIsTheOneAsked
  BY DEF IInv, OwnTile, TileIsTheOneAsked
<1> QED
  BY <1>1, InvariantHolds, PTL

=============================================================================
