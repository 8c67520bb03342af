---------------------------- MODULE SQLiteCursor ----------------------------
(***************************************************************************)
(* A cursor over a query's result that keeps some of its rows in a         *)
(* CursorWindow: SQLiteCursor.java with the parts of AbstractCursor and    *)
(* AbstractWindowedCursor it inherits, and nativeExecuteForCursorWindow    *)
(* and copyRow of android_database_SQLiteConnection.cpp, which fill the    *)
(* window.                                                                 *)
(*                                                                         *)
(* The cursor is used by one thread.  A call of moveToPosition runs the    *)
(* query as often as it has to; each sqlite3_step, each allocRow and each  *)
(* put of a column is a step.  SQLite may answer a step with an error, or  *)
(* say that the database is busy.                                          *)
(***************************************************************************)
EXTENDS CursorWindow, Sequences

CONSTANTS Sizes,       \* the sizes a window may have
          Results,     \* the results the query may have, sequences of rows
          NumColumns,  \* sqlite3_column_count
          MaxRetries,  \* how often a busy database is asked again, 50 in the code
          MaxPosition  \* bound: the highest position asked for

\* A window has space for its header and its first chunk of row slots, which clear() writes
\* without a check.  sqlite3_column_bytes is not negative; values that are stored inline have
\* no bytes, and no bytes have no content.
ASSUME CursorAssumption ==
    /\ \A size \in Sizes : size \in Nat /\ SizeOfHeader + SizeOfChunk <= size
    /\ NumColumns \in Nat /\ MaxRetries \in Nat /\ MaxPosition \in Nat
    /\ \A r \in Results :
          /\ Len(r) \in Nat
          /\ \A i \in 1 .. Len(r) :
                /\ r[i] = [c \in 1 .. NumColumns |-> r[i][c]]
                /\ \A c \in 1 .. NumColumns :
                      /\ r[i][c] = [type |-> r[i][c].type, size |-> r[i][c].size,
                                    data |-> r[i][c].data]
                      /\ r[i][c].size \in Nat
                      /\ r[i][c].type \notin {"string", "blob"} => r[i][c].size = 0
                      /\ r[i][c].type = "blob" /\ r[i][c].size = 0 => r[i][c].data = 0

NO_COUNT == -1

VARIABLES
    result,       \* the rows of the query with its current arguments
    window,       \* the native window
    mWindow,      \* the cursor has a window
    mStartPos,    \* the position of the window's first row, for the window
    mPos, mCount, mCursorWindowCapacity,
    target,       \* the position moveToPosition was asked for
    moved,        \* the last call of moveToPosition returned true
    threw,        \* history: a query has thrown since the last requery
    pc,           \* where the call is: "idle", "count", "move" or in a fill
    fill          \* the locals of nativeExecuteForCursorWindow and copyRow

cursorVars == <<mPos, mCount, mCursorWindowCapacity, target, moved, threw>>

vars == <<result, window, mWindow, mStartPos, cursorVars, pc, fill>>

NoFill == [startPos |-> 0, requiredPos |-> 0, countAllRows |-> FALSE, retryCount |-> 0,
           totalRows |-> 0, addedRows |-> 0, windowFull |-> FALSE, column |-> 0]

Init ==
    /\ result \in Results
    /\ \E size \in Sizes : window = create(size)
    /\ mWindow = FALSE
    /\ mStartPos = 0
    /\ mPos = -1 /\ mCount = NO_COUNT /\ mCursorWindowCapacity = 0
    /\ target = -1
    /\ moved = FALSE /\ threw = FALSE
    /\ pc = "idle"
    /\ fill = NoFill

-----------------------------------------------------------------------------
(* The cursor *)

\* Math.max(cursorPosition - cursorWindowCapacity / 3, 0)
cursorPickFillWindowStartPosition(position, capacity) ==
    LET start == position - capacity \div 3 IN IF start > 0 THEN start ELSE 0

\* fillWindow: the window is created or cleared, and cleared again by the native code, which
\* then sets its columns.
fillWindow(requiredPos) ==
    LET counting == mCount = NO_COUNT IN
    /\ mWindow' = TRUE
    /\ mStartPos' = 0
    /\ window' = setNumColumns(clear(window), NumColumns)
    /\ fill' = [NoFill EXCEPT
                  !.startPos = cursorPickFillWindowStartPosition(requiredPos,
                                   IF counting THEN 0 ELSE mCursorWindowCapacity),
                  !.requiredPos = requiredPos,
                  !.countAllRows = counting]
    /\ pc' = "step"

\* moveToPosition asks for the count first, which fills the window at position 0.
moveToPosition(position) ==
    /\ pc = "idle"
    /\ target' = position
    /\ moved' = FALSE
    /\ IF mCount = NO_COUNT THEN fillWindow(0)
       ELSE pc' = "count" /\ UNCHANGED <<window, mWindow, mStartPos, fill>>
    /\ UNCHANGED <<result, mPos, mCount, mCursorWindowCapacity, threw>>

\* With the count known: past the end, before the beginning, no move at all, or onMove,
\* which fills the window unless the row is in it.
MoveCounted ==
    /\ pc = "count"
    /\ \/ /\ target >= mCount \/ target < 0
          /\ mPos' = IF target >= mCount THEN mCount ELSE -1
          /\ pc' = "idle"
          /\ UNCHANGED <<window, mWindow, mStartPos, fill, moved>>
       \/ /\ target \in 0 .. mCount - 1
          /\ target = mPos
          /\ moved' = TRUE
          /\ pc' = "idle"
          /\ UNCHANGED <<window, mWindow, mStartPos, fill, mPos>>
       \/ /\ target \in 0 .. mCount - 1
          /\ target # mPos
          /\ IF ~mWindow \/ target < mStartPos \/ target >= mStartPos + window.numRows
             THEN fillWindow(target)
             ELSE pc' = "move" /\ UNCHANGED <<window, mWindow, mStartPos, fill>>
          /\ UNCHANGED <<moved, mPos>>
    /\ UNCHANGED <<result, mCount, mCursorWindowCapacity, target, threw>>

\* onMove has returned true.
MoveDone ==
    /\ pc = "move"
    /\ mPos' = target
    /\ moved' = TRUE
    /\ pc' = "idle"
    /\ UNCHANGED <<result, window, mWindow, mStartPos, mCount, mCursorWindowCapacity, target,
                   threw, fill>>

\* Mutant: the window keeps the rows of the query's former arguments.
requeryKeepsRows(r) ==
    /\ pc = "idle"
    /\ result' = r
    /\ mPos' = -1
    /\ moved' = FALSE /\ threw' = FALSE
    /\ UNCHANGED <<window, mWindow, mStartPos, mCount, mCursorWindowCapacity, target, pc, fill>>

\* requery, after the query was given other arguments: the window is emptied, position and
\* count are forgotten, the capacity is not.
requery(r) ==
    /\ pc = "idle"
    /\ result' = r
    /\ window' = IF mWindow THEN clear(window) ELSE window
    /\ mStartPos' = 0
    /\ mPos' = -1
    /\ mCount' = NO_COUNT
    /\ moved' = FALSE /\ threw' = FALSE
    /\ fill' = NoFill
    /\ UNCHANGED <<mWindow, mCursorWindowCapacity, target, pc>>

-----------------------------------------------------------------------------
(* nativeExecuteForCursorWindow *)

\* The loop goes on while the window has space, or while rows are to be counted.
Looping == pc = "step" /\ (~fill.windowFull \/ fill.countAllRows)

\* SQLITE_ROW: the row is skipped, or copied by the steps that follow.
StepRow ==
    LET total == fill.totalRows + 1 IN
    /\ Looping
    /\ fill.totalRows < Len(result)
    /\ fill' = [fill EXCEPT !.retryCount = 0, !.totalRows = total]
    /\ pc' = IF fill.startPos >= total \/ fill.windowFull THEN "step" ELSE "allocRow"
    /\ UNCHANGED <<result, window, mWindow, mStartPos, cursorVars>>

\* A query that throws: the window is closed (setWindow(null)), and so the count unknown.
Throw ==
    /\ mWindow' = FALSE
    /\ window' = create(window.size)
    /\ mStartPos' = 0
    /\ mCount' = NO_COUNT
    /\ threw' = TRUE
    /\ fill' = NoFill
    /\ pc' = "idle"
    /\ UNCHANGED <<result, mPos, mCursorWindowCapacity, target, moved>>

\* Mutant: the retries are counted, and never given up.
StepBusyForever ==
    /\ Looping
    /\ fill' = [fill EXCEPT !.retryCount = (@ + 1) % (MaxRetries + 1)]
    /\ UNCHANGED <<result, window, mWindow, mStartPos, cursorVars, pc>>

\* SQLITE_BUSY or SQLITE_LOCKED: wait and try again, but not for ever.
StepBusy ==
    /\ Looping
    /\ \/ /\ fill.retryCount > MaxRetries
          /\ Throw
       \/ /\ fill.retryCount <= MaxRetries
          /\ fill' = [fill EXCEPT !.retryCount = @ + 1]
          /\ UNCHANGED <<result, window, mWindow, mStartPos, cursorVars, pc>>

StepError == Looping /\ Throw

\* SQLITE_DONE, or a full window without rows to count: the statement is reset, and the
\* position the window starts at and the number of rows are handed to the Java side.
FillReturns ==
    /\ pc = "step"
    /\ fill.totalRows = Len(result) \/ ~Looping
    /\ mStartPos' = fill.startPos
    /\ IF mCount = NO_COUNT
       THEN /\ mCount' = fill.totalRows
            /\ mCursorWindowCapacity' = window.numRows
            /\ pc' = "count"
       ELSE /\ pc' = "move"
            /\ UNCHANGED <<mCount, mCursorWindowCapacity>>
    /\ UNCHANGED <<result, window, mWindow, mPos, target, moved, threw, fill>>

-----------------------------------------------------------------------------
(* copyRow *)

\* Mutant: the window starts again at the row it started at before.
CopyFailsSamePlace(w) ==
    LET again == fill.addedRows > 0 /\ fill.startPos + fill.addedRows <= fill.requiredPos IN
    /\ window' = IF again THEN setNumColumns(clear(w), NumColumns) ELSE w
    /\ fill' = IF again THEN [fill EXCEPT !.addedRows = 0, !.column = 0]
               ELSE [fill EXCEPT !.windowFull = TRUE, !.column = 0]
    /\ pc' = IF again THEN "allocRow" ELSE "step"

\* Mutant: the window is taken as good when only the required row is missing.
CopyFailsTooSoon(w) ==
    LET again == fill.addedRows > 0 /\ fill.startPos + fill.addedRows < fill.requiredPos IN
    /\ window' = IF again THEN setNumColumns(clear(w), NumColumns) ELSE w
    /\ fill' = IF again
               THEN [fill EXCEPT !.startPos = @ + fill.addedRows, !.addedRows = 0, !.column = 0]
               ELSE [fill EXCEPT !.windowFull = TRUE, !.column = 0]
    /\ pc' = IF again THEN "allocRow" ELSE "step"

\* The row does not fit.  If the required row has not been reached the window is cleared,
\* and copyRow called once more for the same row; otherwise the window is full.
CopyFails(w) ==
    LET again == fill.addedRows > 0 /\ fill.startPos + fill.addedRows <= fill.requiredPos IN
    /\ window' = IF again THEN setNumColumns(clear(w), NumColumns) ELSE w
    /\ fill' = IF again
               THEN [fill EXCEPT !.startPos = @ + fill.addedRows, !.addedRows = 0, !.column = 0]
               ELSE [fill EXCEPT !.windowFull = TRUE, !.column = 0]
    /\ pc' = IF again THEN "allocRow" ELSE "step"

CopyAlloc ==
    LET a == allocRow(window) IN
    /\ pc = "allocRow"
    /\ \/ /\ a.ok
          /\ window' = a.w
          /\ pc' = "put"
          /\ UNCHANGED fill
       \/ ~a.ok /\ CopyFails(a.w)
    /\ UNCHANGED <<result, mWindow, mStartPos, cursorVars>>

\* The next column, at the row addedRows; after the last one the row is added.
CopyPut ==
    LET p == put(window, fill.addedRows, fill.column, result[fill.totalRows][fill.column + 1]) IN
    /\ pc = "put"
    /\ fill.column < NumColumns
    /\ \/ /\ p.ok
          /\ window' = p.w
          /\ fill' = [fill EXCEPT !.column = @ + 1]
          /\ UNCHANGED pc
       \/ ~p.ok /\ CopyFails(freeLastRow(p.w))
    /\ UNCHANGED <<result, mWindow, mStartPos, cursorVars>>

CopyDone ==
    /\ pc = "put"
    /\ fill.column = NumColumns
    /\ fill' = [fill EXCEPT !.addedRows = @ + 1, !.column = 0]
    /\ pc' = "step"
    /\ UNCHANGED <<result, window, mWindow, mStartPos, cursorVars>>

-----------------------------------------------------------------------------
(* The whole *)

Copy == CopyAlloc \/ CopyPut \/ CopyDone

Move == MoveCounted \/ MoveDone

Native == StepRow \/ StepBusy \/ StepError \/ FillReturns \/ Copy

Next ==
    \/ \E position \in -1 .. MaxPosition : moveToPosition(position)
    \/ \E r \in Results : requery(r)
    \/ Move
    \/ Native

Spec == Init /\ [][Next]_vars

\* The thread that moves the cursor runs.
FairSpec == Spec /\ WF_vars(Move \/ Native)

-----------------------------------------------------------------------------
(* Properties *)

\* Every variable has its type.
TypeOK ==
    /\ result \in Results
    /\ window.freeOffset \in 0 .. window.size
    /\ mWindow \in BOOLEAN /\ moved \in BOOLEAN /\ threw \in BOOLEAN
    /\ mPos \in -1 .. MaxPosition + 1
    /\ mCount \in Nat \cup {NO_COUNT}
    /\ pc \in {"idle", "count", "move", "step", "allocRow", "put"}
    /\ fill.addedRows <= fill.totalRows

\* The header, the chunks of row slots, the field directories and the buffers of the rows
\* in the window lie within it and apart from each other, directories and chunks at
\* multiples of four, also while a row is half copied or has just been backed out.
LayoutIsSound ==
    LET live == {r \in Regions(window) : r.lo < r.hi} IN
    /\ \A r \in live : r.hi <= window.size
    /\ \A r \in live : r.part[1] # "buffer" => r.lo % 4 = 0
    /\ \A r, s \in live : r.part # s.part => r.hi <= s.lo \/ s.hi <= r.lo

\* The rows that were copied completely, read back through slots, directories and buffers.
ReadBack ==
    [r \in 1 .. fill.addedRows |->
        [c \in 1 .. NumColumns |-> FieldValue(window, r - 1, c - 1)]]

Slice == INSTANCE ResultSlice WITH first <- fill.startPos, rows <- ReadBack

\* Whatever happens to the window, what can be read from it are consecutive rows of the
\* result it says it starts at: chunks, backed out rows, restarts and new arguments of the
\* query included.
HoldsSlice == Slice!Spec

\* The bytes the first n values of a row take beside their fields.
RowBytes(row, n) ==
    LET sum[c \in 0 .. n] == IF c = 0 THEN 0 ELSE sum[c - 1] + Bytes(row[c])
    IN sum[n]

\* A row that an empty window has the space for.
FitsAlone(row) ==
    LET start == allocRow(setNumColumns(create(window.size), NumColumns)) IN
    start.ok /\ start.w.freeOffset + RowBytes(row, NumColumns) <= window.size

\* "The position of a row that MUST be in the window": after a successful move the row can
\* be read and is the right one.  Two cases are out of it.  The code gives up at a row that
\* does not fit a window of its own, even one before the required row.  And a query that
\* throws leaves mPos alone: a second move to the same position then finds nothing to do.
MovedRowIsReadable ==
    pc = "idle" /\ moved /\ ~threw /\ (\A i \in 1 .. Len(result) : FitsAlone(result[i]))
    => /\ mPos - mStartPos \in 0 .. window.numRows - 1
       /\ \A c \in 1 .. NumColumns :
            FieldValue(window, mPos - mStartPos, c - 1) = result[mPos + 1][c]

\* The count is the number of rows of the result, however few of them fit.
CountIsExact == mCount # NO_COUNT => mCount = Len(result)

\* Every move ends, with a row, without one or with an exception, even when the database
\* stays busy.
MoveEnds == pc # "idle" ~> pc = "idle"

============================================================================
