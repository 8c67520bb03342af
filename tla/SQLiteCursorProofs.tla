------------------------- MODULE SQLiteCursorProofs -------------------------
(***************************************************************************)
(* Proofs about the cursor: that the rows that can be read from its window *)
(* are the rows of the result they should be, for every result, size of    *)
(* window, number of columns and of slots in a chunk.                      *)
(***************************************************************************)
EXTENDS SQLiteCursor, CursorWindowProofs, SequenceTheorems

-----------------------------------------------------------------------------
(* The inductive invariant *)

InFill == pc \in {"step", "allocRow", "put"}

FillType ==
    [startPos : Nat, requiredPos : Nat, countAllRows : BOOLEAN, retryCount : Nat,
     totalRows : Nat, addedRows : Nat, windowFull : BOOLEAN, column : Nat]

Types ==
    /\ result \in Results
    /\ mWindow \in BOOLEAN /\ moved \in BOOLEAN /\ threw \in BOOLEAN
    /\ mStartPos \in Nat /\ mCursorWindowCapacity \in Nat
    /\ mPos \in -1 .. MaxPosition + 1 /\ target \in -1 .. MaxPosition
    /\ mCount \in Nat \cup {NO_COUNT}
    /\ pc \in {"idle", "count", "move", "step", "allocRow", "put"}
    /\ fill \in FillType

\* The window's memory is sound.  It has the rows that were added, and the one that is being
\* copied.  While rows may still be added no chunk is left over from a row that was backed out.
WindowShape ==
    /\ window.size \in Sizes
    /\ WindowInv(window)
    /\ window.numRows = IF pc = "put" THEN fill.addedRows + 1 ELSE fill.addedRows
    /\ ~mWindow => window.numRows = 0
    /\ InFill \/ fill.addedRows # 0 => window.numColumns = NumColumns
    /\ InFill /\ ~fill.windowFull => NoSpare(window)

\* What the query has stepped over and what of it was added.
FillShape ==
    /\ InFill => /\ mWindow
                 /\ fill.countAllRows <=> mCount = NO_COUNT
                 /\ fill.totalRows <= Len(result)
    /\ fill.addedRows <= fill.totalRows
    /\ pc = "step" => IF fill.windowFull THEN fill.startPos + fill.addedRows < fill.totalRows
                      ELSE IF fill.totalRows <= fill.startPos THEN fill.addedRows = 0
                      ELSE fill.totalRows = fill.startPos + fill.addedRows
    /\ pc \in {"allocRow", "put"} => /\ ~fill.windowFull
                                     /\ fill.totalRows = fill.startPos + fill.addedRows + 1
    /\ IF pc = "put" THEN fill.column <= NumColumns ELSE fill.column = 0

\* The rows that were added, and the columns of the one that is being copied, are the result's.
RowsHeld ==
    /\ \A r \in 0 .. fill.addedRows - 1 :
          /\ fill.startPos + r < Len(result)
          /\ \A c \in 0 .. NumColumns - 1 :
                FieldValue(window, r, c) = result[fill.startPos + r + 1][c + 1]
    /\ pc = "put" => \A c \in 0 .. fill.column - 1 :
                        FieldValue(window, fill.addedRows, c) = result[fill.totalRows][c + 1]

\* The Java side knows where the window starts, and the count.
CursorShape ==
    /\ ~InFill => mStartPos = fill.startPos
    /\ mCount # NO_COUNT => mCount = Len(result)
    /\ mCount = NO_COUNT => pc \in {"idle", "step", "allocRow", "put"} /\ (threw \/ mPos = -1)
    /\ pc = "move" \/ (InFill /\ mCount # NO_COUNT) => target \in 0 .. mCount - 1
    /\ InFill /\ mCount # NO_COUNT => fill.requiredPos = target
    /\ moved => pc = "idle" /\ (threw \/ mPos \in 0 .. mCount - 1)

\* The window a fill starts with.
Fresh(size) == setNumColumns(create(size), NumColumns)

AllFit == \A i \in 1 .. Len(result) : FitsAlone(result[i])

InWindow(position) == position \in fill.startPos .. fill.startPos + fill.addedRows - 1

\* The required row will be in the window, and the row the cursor is at is.
Reaches ==
    /\ InFill => fill.startPos <= fill.requiredPos
    /\ InFill /\ ~fill.windowFull /\ fill.addedRows = 0 /\ pc # "put" => window = Fresh(window.size)
    /\ InFill /\ fill.windowFull /\ AllFit => fill.requiredPos < fill.startPos + fill.addedRows
    /\ pc = "move" /\ AllFit => InWindow(target)
    /\ pc \in {"idle", "count"} /\ ~threw /\ AllFit /\ mPos \in 0 .. mCount - 1 => InWindow(mPos)

\* How much of the window the first row takes.
FirstRow ==
    pc = "put" /\ fill.addedRows = 0 =>
      LET start == allocRow(Fresh(window.size)) IN
      start.ok /\ window.freeOffset = start.w.freeOffset + RowBytes(result[fill.totalRows], fill.column)

IInv == Types /\ WindowShape /\ FillShape /\ RowsHeld /\ CursorShape /\ Reaches /\ FirstRow

-----------------------------------------------------------------------------
(* The constants *)

\* A column of a row of a result is a value that put can store.
LEMMA ResultValues ==
    ASSUME NEW r \in Results, NEW i \in 1 .. Len(r)
    PROVE  /\ r[i] = [c \in 1 .. NumColumns |-> r[i][c]]
           /\ \A c \in 1 .. NumColumns : IsValue(r[i][c])
  BY CursorAssumption DEF IsValue

\* The window that a fill starts with, by the size of the one that was cleared.
LEMMA FreshWindow ==
    ASSUME NEW w, w.size \in Sizes
    PROVE  /\ setNumColumns(clear(w), NumColumns) = Fresh(w.size)
           /\ WindowInv(Fresh(w.size)) /\ Fresh(w.size).size = w.size
           /\ Fresh(w.size).numRows = 0 /\ Fresh(w.size).numColumns = NumColumns
           /\ NoSpare(Fresh(w.size))
<1>1. w.size \in Nat /\ SizeOfHeader + SizeOfChunk <= w.size /\ NumColumns \in Nat
  BY CursorAssumption
<1>2. clear(w) = clear([size |-> w.size])
  BY DEF clear
<1>3. setNumColumns(clear(w), NumColumns) = Fresh(w.size)
  BY <1>2 DEF Fresh, create
<1> DEFINE x == setNumColumns(clear(w), NumColumns)
<1>4. /\ WindowInv(x) /\ x.size = w.size /\ x.numRows = 0 /\ x.numColumns = NumColumns
      /\ x.chunks[FirstChunk].next = 0 /\ ChunksUsed(x) = 1
  BY <1>1, ClearedWindow
<1> HIDE DEF x
<1>5. NoSpare(x)
  <2>1. ChunkAt(x, ChunksUsed(x) - 1) = FirstChunk
    BY <1>4, ChunkAtStep
  <2> QED
    BY <1>4, <2>1 DEF NoSpare
<1>6. x = Fresh(w.size)
  BY <1>3 DEF x
<1> QED
  BY <1>3, <1>4, <1>5, <1>6

\* A window that was cleared or created and has no columns yet.
LEMMA EmptyWindow ==
    ASSUME NEW w, w.size \in Sizes
    PROVE  /\ WindowInv(clear(w)) /\ clear(w).size = w.size /\ clear(w).numRows = 0
           /\ create(w.size) = clear(w)
<1>1. w.size \in Nat /\ SizeOfHeader + SizeOfChunk <= w.size
  BY CursorAssumption
<1>2. create(w.size) = clear(w)
  BY DEF clear, create
<1> DEFINE x == setNumColumns(clear(w), 0)
<1>3. WindowInv(x) /\ x.size = w.size /\ x.numRows = 0
  BY <1>1, ClearedWindow
<1>4. x = clear(w)
  <2> DEFINE y == clear(w)
  <2>1. y.numColumns = 0
    BY DEF clear
  <2>2. \E a1, a2, a3, a5, a6, a7 :
          y = [size |-> a1, freeOffset |-> a2, numRows |-> a3, numColumns |-> 0,
               chunks |-> a5, dirs |-> a6, buffers |-> a7]
    BY DEF clear
  <2>3. x = [y EXCEPT !.numColumns = 0]
    BY <2>1 DEF setNumColumns
  <2> HIDE DEF x, y
  <2>4. x = y
    BY <2>2, <2>3
  <2> QED
    BY <2>4 DEF x, y
<1> QED
  BY <1>2, <1>3, <1>4

-----------------------------------------------------------------------------
(* The space a row takes *)

\* g is the function of the sums of a row's first n values.
Sums(row, n, g) == g = [c \in 0 .. n |-> IF c = 0 THEN 0 ELSE g[c - 1] + Bytes(row[c])]

\* There is one for every n.
LEMMA SumsExist ==
    ASSUME NEW row, NEW n \in Nat
    PROVE  \E g : Sums(row, n, g)
<1> DEFINE S == {k \in Nat : \E g : Sums(row, k, g)}
<1>1. 0 \in S
  <2> DEFINE g == [c \in 0 .. 0 |-> 0]
  <2>1. g = [c \in 0 .. 0 |-> IF c = 0 THEN 0 ELSE g[c - 1] + Bytes(row[c])]
    OBVIOUS
  <2> QED
    BY <2>1 DEF Sums
<1>2. ASSUME NEW k \in S PROVE k + 1 \in S
  <2>1. PICK g : Sums(row, k, g)
    OBVIOUS
  <2>2. /\ DOMAIN g = 0 .. k
        /\ \A c \in 0 .. k : g[c] = IF c = 0 THEN 0 ELSE g[c - 1] + Bytes(row[c])
    BY <2>1 DEF Sums
  <2> DEFINE h == [c \in 0 .. k + 1 |-> IF c = k + 1 THEN g[k] + Bytes(row[k + 1]) ELSE g[c]]
  <2>3. \A c \in 0 .. k + 1 : h[c] = IF c = 0 THEN 0 ELSE h[c - 1] + Bytes(row[c])
    <3> SUFFICES ASSUME NEW c \in 0 .. k + 1
                 PROVE  h[c] = IF c = 0 THEN 0 ELSE h[c - 1] + Bytes(row[c])
      OBVIOUS
    <3>1. k \in Nat
      OBVIOUS
    <3>2. CASE c = k + 1
      <4>1. h[c] = g[k] + Bytes(row[c]) /\ c # 0 /\ c - 1 = k /\ h[k] = g[k]
        BY <3>1, <3>2
      <4> QED
        BY <4>1
    <3>3. CASE c # k + 1 /\ c # 0
      <4>1. c \in 0 .. k /\ c - 1 \in 0 .. k /\ c - 1 # k + 1
        BY <3>1, <3>3
      <4>2. h[c] = g[c] /\ h[c - 1] = g[c - 1]
        BY <3>1, <3>3, <4>1
      <4> QED
        BY <2>2, <3>3, <4>1, <4>2
    <3>4. CASE c = 0
      BY <2>2, <3>1, <3>4
    <3> QED
      BY <3>2, <3>3, <3>4
  <2>4. h = [c \in 0 .. k + 1 |-> h[c]]
    OBVIOUS
  <2> HIDE DEF h
  <2>5. h = [c \in 0 .. k + 1 |-> IF c = 0 THEN 0 ELSE h[c - 1] + Bytes(row[c])]
    BY <2>3, <2>4
  <2> QED
    BY <2>5 DEF Sums
<1> HIDE DEF S
<1>3. S = Nat
  <2>1. S \in SUBSET Nat
    BY DEF S
  <2> QED
    BY <1>1, <1>2, <2>1, SetInduction
<1> QED
  BY <1>3 DEF S

\* Two of them agree where both are defined.
LEMMA SumsAgree ==
    ASSUME NEW row, NEW m \in Nat, NEW n \in Nat, NEW g, NEW h, Sums(row, m, g), Sums(row, n, h)
    PROVE  \A c \in Nat : c <= m /\ c <= n => g[c] = h[c]
<1> DEFINE S == {c \in Nat : c <= m /\ c <= n => g[c] = h[c]}
<1>1. /\ \A c \in 0 .. m : g[c] = IF c = 0 THEN 0 ELSE g[c - 1] + Bytes(row[c])
      /\ \A c \in 0 .. n : h[c] = IF c = 0 THEN 0 ELSE h[c - 1] + Bytes(row[c])
  BY DEF Sums
<1>2. 0 \in S
  BY <1>1
<1>3. ASSUME NEW c \in S PROVE c + 1 \in S
  <2> SUFFICES ASSUME c + 1 <= m, c + 1 <= n PROVE g[c + 1] = h[c + 1]
    OBVIOUS
  <2>1. c \in Nat /\ c + 1 \in 0 .. m /\ c + 1 \in 0 .. n /\ c + 1 # 0 /\ (c + 1) - 1 = c
    OBVIOUS
  <2>2. g[c] = h[c]
    BY <2>1
  <2> QED
    BY <1>1, <2>1, <2>2
<1> HIDE DEF S
<1>4. S = Nat
  <2>1. S \in SUBSET Nat
    BY DEF S
  <2> QED
    BY <1>2, <1>3, <2>1, SetInduction
<1> QED
  BY <1>4 DEF S

\* RowBytes adds up the values' bytes.
LEMMA RowBytesStep ==
    ASSUME NEW row
    PROVE  /\ RowBytes(row, 0) = 0
           /\ \A n \in Nat : RowBytes(row, n + 1) = RowBytes(row, n) + Bytes(row[n + 1])
<1> DEFINE F(n) == CHOOSE g : Sums(row, n, g)
<1>1. \A n : RowBytes(row, n) = F(n)[n]
  BY DEF RowBytes, Sums
<1>2. \A n \in Nat : Sums(row, n, F(n))
  BY SumsExist
<1> HIDE DEF F
<1>3. RowBytes(row, 0) = 0
  BY <1>1, <1>2 DEF Sums
<1>4. ASSUME NEW n \in Nat PROVE RowBytes(row, n + 1) = RowBytes(row, n) + Bytes(row[n + 1])
  <2>1. F(n)[n] = F(n + 1)[n]
    BY <1>2, SumsAgree
  <2>2. F(n + 1)[n + 1] = F(n + 1)[n] + Bytes(row[n + 1])
    <3>1. Sums(row, n + 1, F(n + 1)) /\ n + 1 \in 0 .. n + 1 /\ n + 1 # 0 /\ (n + 1) - 1 = n
      BY <1>2
    <3> QED
      BY <3>1 DEF Sums
  <2> QED
    BY <1>1, <2>1, <2>2
<1> QED
  BY <1>3, <1>4

\* The values of a result's row take more space the more there are of them.
LEMMA RowBytesGrow ==
    ASSUME NEW r \in Results, NEW i \in 1 .. Len(r)
    PROVE  \A n \in 0 .. NumColumns :
              RowBytes(r[i], n) \in Nat /\ RowBytes(r[i], n) <= RowBytes(r[i], NumColumns)
<1> DEFINE row == r[i]
           S == {n \in Nat : n <= NumColumns => RowBytes(row, n) \in Nat}
           T == {n \in Nat : n <= NumColumns =>
                                RowBytes(row, NumColumns - n) <= RowBytes(row, NumColumns)}
<1>0. NumColumns \in Nat
  BY CursorAssumption
<1>1. \A c \in 1 .. NumColumns : Bytes(row[c]) \in Nat
  <2>1. ASSUME NEW v, v.size \in Nat PROVE Bytes(v) \in Nat
    BY <2>1 DEF Bytes
  <2>2. \A c \in 1 .. NumColumns : row[c].size \in Nat
    BY ResultValues DEF IsValue
  <2> QED
    BY <2>1, <2>2
<1> HIDE DEF row
<1>2. 0 \in S
  BY RowBytesStep
<1>3. ASSUME NEW n \in S PROVE n + 1 \in S
  <2> SUFFICES ASSUME n + 1 <= NumColumns PROVE RowBytes(row, n + 1) \in Nat
    OBVIOUS
  <2>1. n \in Nat /\ n <= NumColumns /\ n + 1 \in 1 .. NumColumns
    BY <1>0
  <2>2. RowBytes(row, n) \in Nat /\ Bytes(row[n + 1]) \in Nat
    BY <1>1, <2>1
  <2>3. RowBytes(row, n + 1) = RowBytes(row, n) + Bytes(row[n + 1])
    BY <2>1, RowBytesStep
  <2> QED
    BY <2>2, <2>3
<1>4. S = Nat
  <2> HIDE DEF S
  <2>1. S \in SUBSET Nat
    BY DEF S
  <2> QED
    BY <1>2, <1>3, <2>1, SetInduction
<1>5. \A n \in 0 .. NumColumns : RowBytes(row, n) \in Nat
  BY <1>0, <1>4
<1> HIDE DEF S
<1>6. 0 \in T
  <2>1. NumColumns - 0 = NumColumns /\ NumColumns \in 0 .. NumColumns
    BY <1>0
  <2>2. RowBytes(row, NumColumns) \in Nat
    BY <1>5, <2>1
  <2> QED
    BY <2>1, <2>2
<1>7. ASSUME NEW n \in T PROVE n + 1 \in T
  <2> SUFFICES ASSUME n + 1 <= NumColumns
               PROVE  RowBytes(row, NumColumns - (n + 1)) <= RowBytes(row, NumColumns)
    OBVIOUS
  <2> DEFINE m == NumColumns - (n + 1)
  <2>1. n \in Nat /\ m \in Nat /\ m + 1 = NumColumns - n /\ m + 1 \in 1 .. NumColumns
        /\ m \in 0 .. NumColumns /\ m + 1 \in 0 .. NumColumns /\ n <= NumColumns
        /\ NumColumns \in 0 .. NumColumns
    BY <1>0
  <2>2. RowBytes(row, NumColumns - n) <= RowBytes(row, NumColumns)
    BY <2>1
  <2> HIDE DEF m
  <2>3. RowBytes(row, m + 1) = RowBytes(row, m) + Bytes(row[m + 1])
    BY <2>1, RowBytesStep
  <2>4. Bytes(row[m + 1]) \in Nat /\ RowBytes(row, m) \in Nat /\ RowBytes(row, m + 1) \in Nat
        /\ RowBytes(row, NumColumns) \in Nat
    BY <1>1, <1>5, <2>1
  <2>5. RowBytes(row, m + 1) <= RowBytes(row, NumColumns)
    BY <2>1, <2>2
  <2>6. RowBytes(row, m) <= RowBytes(row, NumColumns)
    BY <2>3, <2>4, <2>5
  <2> QED
    BY <2>6 DEF m
<1>8. T = Nat
  <2> HIDE DEF T
  <2>1. T \in SUBSET Nat
    BY DEF T
  <2> QED
    BY <1>6, <1>7, <2>1, SetInduction
<1>9. ASSUME NEW n \in 0 .. NumColumns PROVE RowBytes(row, n) <= RowBytes(row, NumColumns)
  <2>1. NumColumns - n \in Nat /\ NumColumns - n <= NumColumns /\ NumColumns - (NumColumns - n) = n
    BY <1>0
  <2> QED
    BY <1>8, <2>1
<1> QED
  BY <1>5, <1>9 DEF row

-----------------------------------------------------------------------------
(* The invariant is preserved *)

\* Whether every row fits a window of its own depends on the window's size alone.
LEMMA AllFitFrame ==
    ASSUME window'.size = window.size, result' = result
    PROVE  AllFit' <=> AllFit
  BY DEF AllFit, FitsAlone

\* Without a window, or with an empty one, and without a count.
LEMMA EmptyNext ==
    ASSUME window'.size \in Sizes, WindowInv(window'), window'.numRows = 0, fill' = NoFill,
           pc' = "idle", mStartPos' = 0, mCount' = NO_COUNT, threw' \/ mPos' = -1, moved' = FALSE
    PROVE  /\ fill' \in FillType
           /\ WindowShape' /\ FillShape' /\ RowsHeld' /\ CursorShape' /\ Reaches' /\ FirstRow'
<1>1. fill' \in FillType
  BY DEF NoFill, FillType
<1>2. /\ fill'.addedRows = 0 /\ fill'.totalRows = 0 /\ fill'.column = 0 /\ fill'.startPos = 0
      /\ ~InFill' /\ mCount' = -1
  BY DEF NoFill, InFill, NO_COUNT
<1>3. WindowShape'
  BY <1>2 DEF WindowShape
<1>4. FillShape' /\ RowsHeld' /\ FirstRow'
  BY <1>2 DEF FillShape, RowsHeld, FirstRow
<1>5. CursorShape' /\ Reaches'
  BY <1>2 DEF CursorShape, Reaches
<1> QED
  BY <1>1, <1>3, <1>4, <1>5

\* The position a fill starts at is not after the required one.
LEMMA PickedStart ==
    ASSUME NEW position \in Nat, NEW capacity \in Nat
    PROVE  /\ cursorPickFillWindowStartPosition(position, capacity) \in Nat
           /\ cursorPickFillWindowStartPosition(position, capacity) <= position
<1>1. capacity \div 3 \in Nat
  OBVIOUS
<1> DEFINE third == capacity \div 3
<1> HIDE DEF third
<1>2. third \in Nat
  BY <1>1 DEF third
<1>3. cursorPickFillWindowStartPosition(position, capacity) =
        IF position - third > 0 THEN position - third ELSE 0
  BY DEF cursorPickFillWindowStartPosition, third
<1> QED
  BY <1>2, <1>3

\* A fill starts with an empty window.
LEMMA FillStarts ==
    ASSUME window.size \in Sizes, mCursorWindowCapacity \in Nat, NEW required \in Nat,
           fillWindow(required), mCount' = mCount, result \in Results, result' = result
    PROVE  /\ fill' \in FillType /\ mWindow' = TRUE /\ mStartPos' = 0 /\ pc' = "step"
           /\ fill'.requiredPos = required
           /\ WindowShape' /\ FillShape' /\ RowsHeld' /\ Reaches' /\ FirstRow'
<1> DEFINE counting == mCount = NO_COUNT
           start == cursorPickFillWindowStartPosition(required,
                        IF counting THEN 0 ELSE mCursorWindowCapacity)
<1>1. /\ mWindow' = TRUE /\ mStartPos' = 0 /\ pc' = "step" /\ window' = Fresh(window.size)
      /\ fill' = [NoFill EXCEPT !.startPos = start, !.requiredPos = required,
                                !.countAllRows = counting]
  BY FreshWindow DEF fillWindow
<1>2. start \in Nat /\ start <= required
  BY PickedStart
<1> HIDE DEF start
<1>3. /\ fill' \in FillType /\ fill'.startPos = start /\ fill'.requiredPos = required
      /\ (fill'.countAllRows <=> counting) /\ fill'.totalRows = 0 /\ fill'.addedRows = 0
      /\ fill'.windowFull = FALSE /\ fill'.column = 0
  BY <1>1, <1>2 DEF NoFill, FillType
<1>4. /\ window'.size = window.size /\ window' = Fresh(window'.size) /\ WindowInv(window')
      /\ window'.numRows = 0 /\ window'.numColumns = NumColumns /\ NoSpare(window')
  BY <1>1, FreshWindow
<1>5. InFill' /\ Len(result) \in Nat
  BY <1>1, CursorAssumption DEF InFill
<1>6. WindowShape'
  BY <1>1, <1>3, <1>4 DEF WindowShape
<1>7. FillShape'
  BY <1>1, <1>2, <1>3, <1>5 DEF FillShape
<1>8. RowsHeld' /\ FirstRow'
  BY <1>1, <1>3 DEF RowsHeld, FirstRow
<1>9. Reaches'
  BY <1>1, <1>2, <1>3, <1>4 DEF Reaches
<1> QED
  BY <1>1, <1>3, <1>6, <1>7, <1>8, <1>9

\* A step that changes neither the window nor the fill, outside of a fill.
LEMMA WindowFrame ==
    ASSUME IInv, ~InFill, ~InFill', UNCHANGED <<result, window, mWindow, fill>>
    PROVE  WindowShape' /\ FillShape' /\ RowsHeld' /\ FirstRow' /\ (AllFit' <=> AllFit)
<1>1. pc # "put" /\ pc' # "put" /\ pc' \notin {"step", "allocRow"}
  BY DEF InFill
<1>2. WindowShape'
  BY <1>1 DEF IInv, WindowShape
<1>3. FillShape'
  BY <1>1 DEF IInv, FillShape
<1>4. RowsHeld' /\ FirstRow'
  BY <1>1 DEF IInv, RowsHeld, FirstRow
<1> QED
  BY <1>2, <1>3, <1>4, AllFitFrame

\* In the initial states no row was fetched.
LEMMA InitInv == Init => IInv
<1> SUFFICES ASSUME Init PROVE IInv
  OBVIOUS
<1>1. PICK size \in Sizes : window = create(size)
  BY DEF Init
<1>2. /\ result \in Results /\ mWindow = FALSE /\ mStartPos = 0 /\ mPos = -1 /\ mCount = -1
      /\ mCursorWindowCapacity = 0 /\ target = -1 /\ moved = FALSE /\ threw = FALSE
      /\ pc = "idle" /\ fill = NoFill /\ NO_COUNT = -1 /\ MaxPosition \in Nat
  BY CursorAssumption DEF Init, NO_COUNT
<1>3. window.size \in Sizes /\ WindowInv(window) /\ window.numRows = 0
  <2> DEFINE w == [size |-> size]
  <2>1. w.size = size
    OBVIOUS
  <2> HIDE DEF w
  <2>2. WindowInv(clear(w)) /\ clear(w).size = size /\ clear(w).numRows = 0 /\ create(size) = clear(w)
    BY <2>1, EmptyWindow
  <2> QED
    BY <1>1, <2>2
<1>4. /\ fill.addedRows = 0 /\ fill.totalRows = 0 /\ fill.column = 0 /\ fill.startPos = 0 /\ ~InFill
  BY <1>2 DEF NoFill, InFill
<1>5. Types
  <2>1. fill \in FillType
    BY <1>2 DEF NoFill, FillType
  <2>2. -1 \in -1 .. MaxPosition + 1 /\ -1 \in -1 .. MaxPosition
    BY <1>2
  <2> QED
    BY <1>2, <2>1, <2>2 DEF Types
<1>6. WindowShape
  BY <1>2, <1>3, <1>4 DEF WindowShape
<1>7. FillShape /\ RowsHeld /\ FirstRow
  BY <1>2, <1>4 DEF FillShape, RowsHeld, FirstRow
<1>8. CursorShape /\ Reaches
  BY <1>2, <1>4 DEF CursorShape, Reaches
<1> QED
  BY <1>5, <1>6, <1>7, <1>8 DEF IInv

\* moveToPosition forgets that a move succeeded, and fills the window if there is no count.
LEMMA MoveToPositionStep ==
    ASSUME IInv, NEW position \in -1 .. MaxPosition, moveToPosition(position)
    PROVE  IInv'
<1> USE DEF NO_COUNT
<1>1. /\ pc = "idle" /\ target' = position /\ moved' = FALSE /\ ~InFill
      /\ UNCHANGED <<result, mPos, mCount, mCursorWindowCapacity, threw>>
  BY DEF moveToPosition, InFill
<1>2. CASE mCount = NO_COUNT
  <2>1. fillWindow(0)
    BY <1>2 DEF moveToPosition
  <2>2. /\ fill' \in FillType /\ mWindow' = TRUE /\ mStartPos' = 0 /\ pc' = "step"
        /\ fill'.requiredPos = 0
        /\ WindowShape' /\ FillShape' /\ RowsHeld' /\ Reaches' /\ FirstRow'
    BY <1>1, <2>1, FillStarts DEF IInv, Types, WindowShape
  <2>3. Types'
    BY <1>1, <2>2 DEF IInv, Types
  <2>4. CursorShape'
    BY <1>1, <1>2, <2>2 DEF IInv, CursorShape, InFill
  <2> QED
    BY <2>2, <2>3, <2>4 DEF IInv
<1>3. CASE mCount # NO_COUNT
  <2>1. pc' = "count" /\ UNCHANGED <<window, mWindow, mStartPos, fill>> /\ ~InFill'
    BY <1>3 DEF moveToPosition, InFill
  <2>2. WindowShape' /\ FillShape' /\ RowsHeld' /\ FirstRow' /\ (AllFit' <=> AllFit)
    BY <1>1, <2>1, WindowFrame
  <2>3. Types'
    BY <1>1, <2>1 DEF IInv, Types
  <2>4. CursorShape'
    BY <1>1, <1>3, <2>1 DEF IInv, CursorShape
  <2>5. Reaches'
    BY <1>1, <2>1, <2>2 DEF IInv, Reaches, InWindow
  <2> QED
    BY <2>2, <2>3, <2>4, <2>5 DEF IInv
<1> QED
  BY <1>2, <1>3

\* With the count known the cursor goes to where there is no row, stays, or has the row's window
\* filled if it has to.
LEMMA MoveCountedStep ==
    ASSUME IInv, MoveCounted
    PROVE  IInv'
<1> USE DEF NO_COUNT
<1>1. pc = "count" /\ ~InFill /\ UNCHANGED <<result, mCount, mCursorWindowCapacity, target, threw>>
  BY DEF MoveCounted, InFill
<1>2. /\ mCount \in Nat /\ target \in -1 .. MaxPosition /\ MaxPosition \in Nat
      /\ mPos \in -1 .. MaxPosition + 1
  BY <1>1, CursorAssumption DEF IInv, Types, CursorShape
<1>3. CASE /\ target >= mCount \/ target < 0
           /\ mPos' = IF target >= mCount THEN mCount ELSE -1
           /\ pc' = "idle"
           /\ UNCHANGED <<window, mWindow, mStartPos, fill, moved>>
  <2>1. mPos' \in -1 .. MaxPosition + 1 /\ mPos' \notin 0 .. mCount - 1
    BY <1>2, <1>3
  <2>2. ~InFill' /\ moved = FALSE
    BY <1>1, <1>3 DEF InFill, IInv, CursorShape, Types
  <2>3. WindowShape' /\ FillShape' /\ RowsHeld' /\ FirstRow' /\ (AllFit' <=> AllFit)
    BY <1>1, <1>3, <2>2, WindowFrame
  <2>4. Types'
    BY <1>1, <1>3, <2>1 DEF IInv, Types
  <2>5. CursorShape'
    BY <1>1, <1>2, <1>3, <2>2 DEF IInv, CursorShape
  <2>6. Reaches'
    BY <1>1, <1>3, <2>1, <2>2 DEF Reaches
  <2> QED
    BY <2>3, <2>4, <2>5, <2>6 DEF IInv
<1>4. CASE /\ target \in 0 .. mCount - 1
           /\ target = mPos
           /\ moved' = TRUE
           /\ pc' = "idle"
           /\ UNCHANGED <<window, mWindow, mStartPos, fill, mPos>>
  <2>1. ~InFill'
    BY <1>4 DEF InFill
  <2>2. WindowShape' /\ FillShape' /\ RowsHeld' /\ FirstRow' /\ (AllFit' <=> AllFit)
    BY <1>1, <1>4, <2>1, WindowFrame
  <2>3. Types'
    BY <1>1, <1>4 DEF IInv, Types
  <2>4. CursorShape'
    BY <1>1, <1>2, <1>4, <2>1 DEF IInv, CursorShape
  <2>5. Reaches'
    BY <1>1, <1>4, <2>1, <2>2 DEF IInv, Reaches, InWindow
  <2> QED
    BY <2>2, <2>3, <2>4, <2>5 DEF IInv
<1>5. CASE /\ target \in 0 .. mCount - 1
           /\ fillWindow(target)
           /\ UNCHANGED <<moved, mPos>>
  <2>1. /\ fill' \in FillType /\ mWindow' = TRUE /\ mStartPos' = 0 /\ pc' = "step"
        /\ fill'.requiredPos = target
        /\ WindowShape' /\ FillShape' /\ RowsHeld' /\ Reaches' /\ FirstRow'
    <3>1. target \in Nat /\ fillWindow(target)
      BY <1>2, <1>5
    <3>2. window.size \in Sizes /\ mCursorWindowCapacity \in Nat /\ result \in Results
      BY DEF IInv, Types, WindowShape
    <3> QED
      BY <1>1, <3>1, <3>2, FillStarts
  <2>2. Types'
    BY <1>1, <1>5, <2>1 DEF IInv, Types
  <2>3. CursorShape'
    BY <1>1, <1>2, <1>5, <2>1 DEF IInv, CursorShape, InFill
  <2> QED
    BY <2>1, <2>2, <2>3 DEF IInv
<1>6. CASE /\ target \in 0 .. mCount - 1
           /\ ~(~mWindow \/ target < mStartPos \/ target >= mStartPos + window.numRows)
           /\ pc' = "move" /\ UNCHANGED <<window, mWindow, mStartPos, fill, moved, mPos>>
  <2>1. ~InFill'
    BY <1>6 DEF InFill
  <2>2. WindowShape' /\ FillShape' /\ RowsHeld' /\ FirstRow' /\ (AllFit' <=> AllFit)
    BY <1>1, <1>6, <2>1, WindowFrame
  <2>3. Types'
    BY <1>1, <1>6 DEF IInv, Types
  <2>4. CursorShape'
    BY <1>1, <1>2, <1>6, <2>1 DEF IInv, CursorShape
  <2>5. InWindow(target)'
    <3>1. /\ mStartPos = fill.startPos /\ window.numRows = fill.addedRows
          /\ fill.startPos \in Nat /\ fill.addedRows \in Nat
      BY <1>1 DEF IInv, CursorShape, WindowShape, Types, FillType
    <3> QED
      BY <1>1, <1>2, <1>6, <3>1 DEF InWindow
  <2>6. Reaches'
    BY <1>6, <2>1, <2>5 DEF Reaches
  <2> QED
    BY <2>2, <2>3, <2>4, <2>6 DEF IInv
<1> QED
  BY <1>1, <1>3, <1>4, <1>5, <1>6 DEF MoveCounted

\* The row that was moved to is in the window.
LEMMA MoveDoneStep ==
    ASSUME IInv, MoveDone
    PROVE  IInv'
<1> USE DEF NO_COUNT
<1>1. /\ pc = "move" /\ mPos' = target /\ moved' = TRUE /\ pc' = "idle" /\ ~InFill /\ ~InFill'
      /\ UNCHANGED <<result, window, mWindow, mStartPos, mCount, mCursorWindowCapacity, target,
                     threw, fill>>
  BY DEF MoveDone, InFill
<1>2. MaxPosition \in Nat
  BY CursorAssumption
<1>3. WindowShape' /\ FillShape' /\ RowsHeld' /\ FirstRow' /\ (AllFit' <=> AllFit)
  BY <1>1, WindowFrame
<1>4. Types'
  BY <1>1, <1>2 DEF IInv, Types
<1>5. CursorShape'
  BY <1>1 DEF IInv, CursorShape
<1>6. Reaches'
  BY <1>1, <1>3 DEF IInv, Reaches, InWindow
<1> QED
  BY <1>3, <1>4, <1>5, <1>6 DEF IInv

\* requery empties the window.
LEMMA RequeryStep ==
    ASSUME IInv, NEW r \in Results, requery(r)
    PROVE  IInv'
<1>1. /\ pc = "idle" /\ result' = r /\ window' = (IF mWindow THEN clear(window) ELSE window)
      /\ mStartPos' = 0 /\ mPos' = -1 /\ mCount' = NO_COUNT /\ moved' = FALSE /\ threw' = FALSE
      /\ fill' = NoFill /\ UNCHANGED <<mWindow, mCursorWindowCapacity, target, pc>>
  BY DEF requery
<1>2. WindowInv(window') /\ window'.size \in Sizes /\ window'.numRows = 0
  <2>1. CASE mWindow
    BY <1>1, <2>1, EmptyWindow DEF IInv, WindowShape
  <2>2. CASE ~mWindow
    BY <1>1, <2>2 DEF IInv, WindowShape
  <2> QED
    BY <2>1, <2>2
<1>3. /\ fill' \in FillType
      /\ WindowShape' /\ FillShape' /\ RowsHeld' /\ CursorShape' /\ Reaches' /\ FirstRow'
  BY <1>1, <1>2, EmptyNext
<1>4. Types'
  <2>1. -1 \in -1 .. MaxPosition + 1
    BY CursorAssumption
  <2> QED
    BY <1>1, <1>3, <2>1 DEF IInv, Types
<1> QED
  BY <1>3, <1>4 DEF IInv

\* A query that throws closes the window.
LEMMA ThrowStep ==
    ASSUME IInv, pc = "step", Throw
    PROVE  IInv'
<1>1. /\ mWindow' = FALSE /\ window' = create(window.size) /\ mStartPos' = 0
      /\ mCount' = NO_COUNT /\ threw' = TRUE /\ fill' = NoFill /\ pc' = "idle"
      /\ UNCHANGED <<result, mPos, mCursorWindowCapacity, target, moved>>
  BY DEF Throw
<1>2. WindowInv(window') /\ window'.size \in Sizes /\ window'.numRows = 0
  BY <1>1, EmptyWindow DEF IInv, WindowShape
<1>3. moved' = FALSE
  BY <1>1 DEF IInv, CursorShape, Types
<1>4. /\ fill' \in FillType
      /\ WindowShape' /\ FillShape' /\ RowsHeld' /\ CursorShape' /\ Reaches' /\ FirstRow'
  BY <1>1, <1>2, <1>3, EmptyNext
<1>5. Types'
  BY <1>1, <1>4 DEF IInv, Types
<1> QED
  BY <1>4, <1>5 DEF IInv

\* The numbers of a fill.
LEMMA FillNumbers ==
    ASSUME IInv
    PROVE  /\ fill \in FillType
           /\ fill.startPos \in Nat /\ fill.requiredPos \in Nat /\ fill.totalRows \in Nat
           /\ fill.addedRows \in Nat /\ fill.column \in Nat /\ fill.retryCount \in Nat
           /\ fill.windowFull \in BOOLEAN /\ fill.countAllRows \in BOOLEAN
           /\ Len(result) \in Nat /\ NumColumns \in Nat /\ result \in Results
<1>1. fill \in FillType /\ result \in Results
  BY DEF IInv, Types
<1> QED
  BY <1>1, CursorAssumption DEF FillType

\* A step that changes neither the window nor what was added of it, in a fill.
LEMMA FillFrame ==
    ASSUME IInv, pc = "step", pc' \in {"step", "allocRow"},
           UNCHANGED <<result, window, mWindow, mStartPos, cursorVars>>,
           fill' \in FillType, fill'.startPos = fill.startPos, fill'.requiredPos = fill.requiredPos,
           fill'.countAllRows = fill.countAllRows, fill'.addedRows = fill.addedRows,
           fill'.windowFull = fill.windowFull, fill'.column = fill.column
    PROVE  Types' /\ WindowShape' /\ RowsHeld' /\ CursorShape' /\ Reaches' /\ FirstRow'
<1>1. InFill /\ InFill' /\ pc # "put" /\ pc' # "put"
  BY DEF InFill
<1>2. Types'
  BY DEF IInv, Types, cursorVars
<1>3. WindowShape'
  BY <1>1 DEF IInv, WindowShape
<1>4. RowsHeld' /\ FirstRow'
  BY <1>1 DEF IInv, RowsHeld, FirstRow
<1>5. CursorShape'
  BY <1>1 DEF IInv, CursorShape, cursorVars, InFill
<1>6. AllFit' <=> AllFit
  BY AllFitFrame
<1>7. Reaches'
  BY <1>1, <1>6 DEF IInv, Reaches
<1> QED
  BY <1>2, <1>3, <1>4, <1>5, <1>7

\* A row of the result is skipped, counted, or about to be copied.
LEMMA StepRowStep ==
    ASSUME IInv, StepRow
    PROVE  IInv'
<1> DEFINE total == fill.totalRows + 1
<1>1. /\ pc = "step" /\ fill.totalRows < Len(result)
      /\ fill' = [fill EXCEPT !.retryCount = 0, !.totalRows = total]
      /\ pc' = (IF fill.startPos >= total \/ fill.windowFull THEN "step" ELSE "allocRow")
      /\ UNCHANGED <<result, window, mWindow, mStartPos, cursorVars>>
  BY DEF StepRow, Looping
<1>2. /\ fill \in FillType /\ fill.startPos \in Nat /\ fill.totalRows \in Nat
      /\ fill.addedRows \in Nat /\ Len(result) \in Nat /\ fill.windowFull \in BOOLEAN
  BY FillNumbers
<1>3. /\ fill' \in FillType /\ fill'.startPos = fill.startPos
      /\ fill'.requiredPos = fill.requiredPos /\ fill'.countAllRows = fill.countAllRows
      /\ fill'.addedRows = fill.addedRows /\ fill'.windowFull = fill.windowFull
      /\ fill'.column = fill.column /\ fill'.totalRows = fill.totalRows + 1
  <2>1. fill' = [fill EXCEPT !.retryCount = 0, !.totalRows = total] /\ total \in Nat
    BY <1>1, <1>2
  <2> HIDE DEF total
  <2>2. /\ fill' \in FillType /\ fill'.startPos = fill.startPos
        /\ fill'.requiredPos = fill.requiredPos /\ fill'.countAllRows = fill.countAllRows
        /\ fill'.addedRows = fill.addedRows /\ fill'.windowFull = fill.windowFull
        /\ fill'.column = fill.column /\ fill'.totalRows = total
    BY <1>2, <2>1 DEF FillType
  <2> QED
    BY <2>2 DEF total
<1>4. pc' \in {"step", "allocRow"}
  BY <1>1
<1>5. Types' /\ WindowShape' /\ RowsHeld' /\ CursorShape' /\ Reaches' /\ FirstRow'
  BY <1>1, <1>3, <1>4, FillFrame
<1>6. FillShape'
  <2>1. /\ mWindow /\ (fill.countAllRows <=> mCount = NO_COUNT) /\ fill.column = 0
        /\ fill.addedRows <= fill.totalRows
        /\ IF fill.windowFull THEN fill.startPos + fill.addedRows < fill.totalRows
           ELSE IF fill.totalRows <= fill.startPos THEN fill.addedRows = 0
           ELSE fill.totalRows = fill.startPos + fill.addedRows
    BY <1>1 DEF IInv, FillShape, InFill
  <2>2. mWindow' = mWindow /\ mCount' = mCount /\ result' = result
    BY <1>1 DEF cursorVars
  <2>3. CASE fill.startPos >= total \/ fill.windowFull
    <3>1. pc' = "step"
      BY <1>1, <2>3
    <3>2. IF fill'.windowFull THEN fill'.startPos + fill'.addedRows < fill'.totalRows
          ELSE IF fill'.totalRows <= fill'.startPos THEN fill'.addedRows = 0
          ELSE fill'.totalRows = fill'.startPos + fill'.addedRows
      BY <1>2, <1>3, <2>1, <2>3
    <3> QED
      BY <1>1, <1>2, <1>3, <2>1, <2>2, <3>1, <3>2 DEF FillShape, InFill
  <2>4. CASE ~(fill.startPos >= total \/ fill.windowFull)
    <3>1. pc' = "allocRow"
      BY <1>1, <2>4
    <3>2. fill'.totalRows = fill'.startPos + fill'.addedRows + 1 /\ ~fill'.windowFull
      BY <1>2, <1>3, <2>1, <2>4
    <3> QED
      BY <1>1, <1>2, <1>3, <2>1, <2>2, <3>1, <3>2 DEF FillShape, InFill
  <2> QED
    BY <2>3, <2>4
<1> QED
  BY <1>5, <1>6 DEF IInv

\* A busy database is asked again, or the query throws.
LEMMA StepBusyStep ==
    ASSUME IInv, StepBusy
    PROVE  IInv'
<1>1. pc = "step"
  BY DEF StepBusy, Looping
<1>2. CASE Throw
  BY <1>1, <1>2, ThrowStep
<1>3. CASE /\ fill' = [fill EXCEPT !.retryCount = @ + 1]
           /\ UNCHANGED <<result, window, mWindow, mStartPos, cursorVars, pc>>
  <2>1. fill \in FillType /\ fill.retryCount \in Nat
    BY FillNumbers
  <2>2. /\ fill' \in FillType /\ fill'.startPos = fill.startPos
        /\ fill'.requiredPos = fill.requiredPos /\ fill'.countAllRows = fill.countAllRows
        /\ fill'.addedRows = fill.addedRows /\ fill'.windowFull = fill.windowFull
        /\ fill'.column = fill.column /\ fill'.totalRows = fill.totalRows
    BY <1>3, <2>1 DEF FillType
  <2>3. Types' /\ WindowShape' /\ RowsHeld' /\ CursorShape' /\ Reaches' /\ FirstRow'
    BY <1>1, <1>3, <2>2, FillFrame
  <2>4. FillShape'
    BY <1>1, <1>3, <2>2 DEF IInv, FillShape, InFill, cursorVars
  <2> QED
    BY <2>3, <2>4 DEF IInv
<1> QED
  BY <1>2, <1>3 DEF StepBusy

\* An error is thrown.
LEMMA StepErrorStep ==
    ASSUME IInv, StepError
    PROVE  IInv'
  BY ThrowStep DEF StepError, Looping

\* The fill is over: all rows were counted, if they were to be, and the required row is there.
LEMMA FillReturnsStep ==
    ASSUME IInv, FillReturns
    PROVE  IInv'
<1> USE DEF NO_COUNT
<1>1. /\ pc = "step" /\ (fill.totalRows = Len(result) \/ ~Looping) /\ mStartPos' = fill.startPos
      /\ UNCHANGED <<result, window, mWindow, mPos, target, moved, threw, fill>>
      /\ InFill /\ pc # "put"
  BY DEF FillReturns, InFill
<1>2. /\ fill \in FillType /\ fill.startPos \in Nat /\ fill.totalRows \in Nat
      /\ fill.addedRows \in Nat /\ Len(result) \in Nat /\ fill.windowFull \in BOOLEAN
      /\ fill.requiredPos \in Nat
  BY FillNumbers
<1>3. /\ mWindow /\ (fill.countAllRows <=> mCount = NO_COUNT) /\ fill.column = 0
      /\ fill.addedRows <= fill.totalRows /\ fill.totalRows <= Len(result)
      /\ IF fill.windowFull THEN fill.startPos + fill.addedRows < fill.totalRows
         ELSE IF fill.totalRows <= fill.startPos THEN fill.addedRows = 0
         ELSE fill.totalRows = fill.startPos + fill.addedRows
  BY <1>1 DEF IInv, FillShape
<1>4. window.numRows = fill.addedRows /\ window.numColumns = NumColumns
  BY <1>1 DEF IInv, WindowShape
<1>5. ~Looping => fill.windowFull /\ ~fill.countAllRows
  BY <1>1 DEF Looping
<1>6. pc' \in {"count", "move"} /\ ~InFill'
  BY DEF FillReturns, InFill
<1>7. WindowShape'
  BY <1>1, <1>3, <1>4, <1>6 DEF IInv, WindowShape
<1>8. FillShape' /\ RowsHeld' /\ FirstRow'
  BY <1>1, <1>3, <1>6 DEF IInv, FillShape, RowsHeld, FirstRow
<1>9. AllFit' <=> AllFit
  BY <1>1, AllFitFrame
<1>10. moved = FALSE
  BY <1>1 DEF IInv, CursorShape, Types
<1>11. CASE mCount = NO_COUNT
  <2>1. /\ mCount' = fill.totalRows /\ mCursorWindowCapacity' = window.numRows /\ pc' = "count"
        /\ fill.totalRows = Len(result)
    BY <1>1, <1>3, <1>5, <1>11 DEF FillReturns
  <2>2. Types'
    BY <1>1, <1>2, <1>4, <2>1 DEF IInv, Types
  <2>3. threw \/ mPos = -1
    BY <1>11 DEF IInv, CursorShape
  <2>4. CursorShape'
    BY <1>1, <1>2, <1>6, <1>10, <2>1 DEF CursorShape
  <2>5. Reaches'
    BY <1>1, <1>6, <2>1, <2>3 DEF Reaches
  <2> QED
    BY <1>7, <1>8, <2>2, <2>4, <2>5 DEF IInv
<1>12. CASE mCount # NO_COUNT
  <2>1. pc' = "move" /\ mCount' = mCount /\ mCursorWindowCapacity' = mCursorWindowCapacity
    BY <1>12 DEF FillReturns
  <2>2. /\ target \in 0 .. mCount - 1 /\ fill.requiredPos = target /\ mCount = Len(result)
        /\ fill.startPos <= fill.requiredPos
        /\ fill.windowFull /\ AllFit => fill.requiredPos < fill.startPos + fill.addedRows
    BY <1>1, <1>12 DEF IInv, CursorShape, Reaches
  <2>3. Types'
    BY <1>1, <1>2, <2>1 DEF IInv, Types
  <2>4. CursorShape'
    BY <1>1, <1>6, <1>10, <1>12, <2>1, <2>2 DEF CursorShape
  <2>5. AllFit => InWindow(target)
    <3>1. CASE fill.windowFull
      BY <1>2, <2>2, <3>1 DEF InWindow
    <3>2. CASE ~fill.windowFull
      BY <1>1, <1>2, <1>3, <1>5, <2>2, <3>2 DEF InWindow
    <3> QED
      BY <3>1, <3>2
  <2>6. Reaches'
    BY <1>1, <1>6, <1>9, <2>1, <2>5 DEF Reaches, InWindow
  <2> QED
    BY <1>7, <1>8, <2>3, <2>4, <2>6 DEF IInv
<1> QED
  BY <1>11, <1>12

\* What a state of copyRow is.
LEMMA CopyFacts ==
    ASSUME IInv, pc \in {"allocRow", "put"}
    PROVE  /\ mWindow /\ (fill.countAllRows <=> mCount = NO_COUNT) /\ ~fill.windowFull
           /\ fill.totalRows <= Len(result) /\ fill.addedRows <= fill.totalRows
           /\ fill.totalRows = fill.startPos + fill.addedRows + 1
           /\ fill.totalRows \in 1 .. Len(result)
           /\ window.size \in Sizes /\ WindowInv(window) /\ NoSpare(window)
           /\ window.numColumns = NumColumns /\ fill.startPos <= fill.requiredPos
           /\ InFill
<1>1. InFill
  BY DEF InFill
<1>2. /\ mWindow /\ (fill.countAllRows <=> mCount = NO_COUNT) /\ ~fill.windowFull
      /\ fill.totalRows <= Len(result) /\ fill.addedRows <= fill.totalRows
      /\ fill.totalRows = fill.startPos + fill.addedRows + 1
  BY <1>1 DEF IInv, FillShape
<1>3. fill.totalRows \in 1 .. Len(result)
  <2>1. fill.startPos \in Nat /\ fill.addedRows \in Nat /\ Len(result) \in Nat
    BY FillNumbers
  <2> QED
    BY <1>2, <2>1
<1>4. /\ window.size \in Sizes /\ WindowInv(window) /\ NoSpare(window)
      /\ window.numColumns = NumColumns
  BY <1>1, <1>2 DEF IInv, WindowShape
<1>5. fill.startPos <= fill.requiredPos
  BY <1>1 DEF IInv, Reaches
<1> QED
  BY <1>1, <1>2, <1>3, <1>4, <1>5

\* The cursor's own variables while a row is copied.
LEMMA CopyFrame ==
    ASSUME IInv, InFill, pc' \in {"step", "allocRow", "put"}, fill' \in FillType,
           UNCHANGED <<result, mWindow, mStartPos, cursorVars>>,
           fill'.requiredPos = fill.requiredPos
    PROVE  Types' /\ CursorShape'
<1>1. Types'
  BY DEF IInv, Types, cursorVars
<1>2. CursorShape'
  BY DEF IInv, CursorShape, cursorVars, InFill
<1> QED
  BY <1>1, <1>2

\* A row that does not fit: the window starts again at that row, or it is full, and then has the
\* required row unless that row, alone, did not fit.
LEMMA CopyFailsStep ==
    ASSUME IInv, pc \in {"allocRow", "put"}, NEW w, WindowInv(w), w.size = window.size,
           w.numColumns = NumColumns, w.numRows = fill.addedRows,
           \A r \in 0 .. fill.addedRows - 1 : \A c \in 0 .. NumColumns - 1 :
              FieldValue(w, r, c) = FieldValue(window, r, c),
           AllFit => fill.addedRows # 0,
           CopyFails(w), UNCHANGED <<result, mWindow, mStartPos, cursorVars>>
    PROVE  IInv'
<1> DEFINE again == fill.addedRows > 0 /\ fill.startPos + fill.addedRows <= fill.requiredPos
<1>1. /\ fill \in FillType /\ fill.startPos \in Nat /\ fill.totalRows \in Nat
      /\ fill.addedRows \in Nat /\ Len(result) \in Nat /\ fill.requiredPos \in Nat
  BY FillNumbers
<1>2. /\ mWindow /\ (fill.countAllRows <=> mCount = NO_COUNT) /\ ~fill.windowFull
      /\ fill.totalRows <= Len(result) /\ fill.addedRows <= fill.totalRows
      /\ fill.totalRows = fill.startPos + fill.addedRows + 1
      /\ window.size \in Sizes /\ fill.startPos <= fill.requiredPos /\ InFill
  BY CopyFacts
<1>3. UNCHANGED <<result, mWindow, mStartPos, mCount>>
  BY DEF cursorVars
<1>4. CASE again
  <2>1. /\ window' = Fresh(window.size) /\ pc' = "allocRow"
        /\ fill' = [fill EXCEPT !.startPos = @ + fill.addedRows, !.addedRows = 0, !.column = 0]
    BY <1>2, <1>4, FreshWindow DEF CopyFails
  <2>2. /\ fill' \in FillType /\ fill'.startPos = fill.startPos + fill.addedRows
        /\ fill'.requiredPos = fill.requiredPos /\ fill'.countAllRows = fill.countAllRows
        /\ fill'.addedRows = 0 /\ fill'.windowFull = fill.windowFull /\ fill'.column = 0
        /\ fill'.totalRows = fill.totalRows
    <3> DEFINE start == fill.startPos + fill.addedRows
    <3>1. fill' = [fill EXCEPT !.startPos = start, !.addedRows = 0, !.column = 0] /\ start \in Nat
      BY <1>1, <2>1
    <3> HIDE DEF start
    <3>2. /\ fill' \in FillType /\ fill'.startPos = start
          /\ fill'.requiredPos = fill.requiredPos /\ fill'.countAllRows = fill.countAllRows
          /\ fill'.addedRows = 0 /\ fill'.windowFull = fill.windowFull /\ fill'.column = 0
          /\ fill'.totalRows = fill.totalRows
      BY <1>1, <3>1 DEF FillType
    <3> QED
      BY <3>2 DEF start
  <2>3. InFill'
    BY <2>1 DEF InFill
  <2>4. /\ window'.size = window.size /\ window' = Fresh(window'.size) /\ WindowInv(window')
        /\ window'.numRows = 0 /\ window'.numColumns = NumColumns /\ NoSpare(window')
    BY <1>2, <2>1, FreshWindow
  <2>5. WindowShape'
    BY <1>2, <1>3, <2>1, <2>2, <2>4 DEF WindowShape
  <2>6. FillShape'
    BY <1>1, <1>2, <1>3, <2>1, <2>2 DEF FillShape
  <2>7. RowsHeld' /\ FirstRow'
    BY <2>1, <2>2 DEF RowsHeld, FirstRow
  <2>8. Reaches'
    BY <1>2, <1>4, <2>1, <2>2, <2>4 DEF Reaches
  <2>9. Types' /\ CursorShape'
    BY <1>2, <2>1, <2>2, CopyFrame
  <2> QED
    BY <2>5, <2>6, <2>7, <2>8, <2>9 DEF IInv
<1>5. CASE ~again
  <2>1. window' = w /\ pc' = "step" /\ fill' = [fill EXCEPT !.windowFull = TRUE, !.column = 0]
    BY <1>5 DEF CopyFails
  <2>2. /\ fill' \in FillType /\ fill'.startPos = fill.startPos
        /\ fill'.requiredPos = fill.requiredPos /\ fill'.countAllRows = fill.countAllRows
        /\ fill'.addedRows = fill.addedRows /\ fill'.windowFull = TRUE /\ fill'.column = 0
        /\ fill'.totalRows = fill.totalRows
    BY <1>1, <2>1 DEF FillType
  <2>3. InFill'
    BY <2>1 DEF InFill
  <2>4. WindowShape'
    BY <1>2, <1>3, <2>1, <2>2 DEF WindowShape
  <2>5. FillShape'
    BY <1>1, <1>2, <1>3, <2>1, <2>2 DEF FillShape
  <2>6. RowsHeld'
    BY <1>3, <2>1, <2>2 DEF IInv, RowsHeld
  <2>7. FirstRow'
    BY <2>1 DEF FirstRow
  <2>8. AllFit' <=> AllFit
    BY <1>3, <2>1, AllFitFrame
  <2>9. AllFit' => fill'.requiredPos < fill'.startPos + fill'.addedRows
    BY <1>1, <1>5, <2>2, <2>8
  <2>10. Reaches'
    BY <1>2, <2>1, <2>2, <2>9 DEF Reaches
  <2>11. Types' /\ CursorShape'
    BY <1>2, <2>1, <2>2, CopyFrame
  <2> QED
    BY <2>4, <2>5, <2>6, <2>7, <2>10, <2>11 DEF IInv
<1> QED
  BY <1>4, <1>5

\* Rows with the same fields and the same buffers read the same.
LEMMA SameFieldsRead ==
    ASSUME NEW w, NEW v, SameFields(w, v)
    PROVE  \A r \in 0 .. w.numRows - 1 : \A c \in 0 .. w.numColumns - 1 :
              FieldValue(v, r, c) = FieldValue(w, r, c)
  BY DEF SameFields, FieldValue

\* A row is added to the window, or does not fit.
LEMMA CopyAllocStep ==
    ASSUME IInv, CopyAlloc
    PROVE  IInv'
<1> DEFINE a == allocRow(window)
<1>1. /\ pc = "allocRow" /\ UNCHANGED <<result, mWindow, mStartPos, cursorVars>>
      /\ \/ a.ok /\ window' = a.w /\ pc' = "put" /\ fill' = fill
         \/ ~a.ok /\ CopyFails(a.w)
  BY DEF CopyAlloc
<1>2. /\ fill \in FillType /\ fill.startPos \in Nat /\ fill.totalRows \in Nat
      /\ fill.addedRows \in Nat /\ Len(result) \in Nat /\ NumColumns \in Nat
  BY FillNumbers
<1>3. /\ mWindow /\ (fill.countAllRows <=> mCount = NO_COUNT) /\ ~fill.windowFull
      /\ fill.totalRows <= Len(result) /\ fill.addedRows <= fill.totalRows
      /\ fill.totalRows = fill.startPos + fill.addedRows + 1
      /\ fill.totalRows \in 1 .. Len(result)
      /\ window.size \in Sizes /\ WindowInv(window) /\ NoSpare(window)
      /\ window.numColumns = NumColumns /\ fill.startPos <= fill.requiredPos /\ InFill
  BY <1>1, CopyFacts
<1>4. window.numRows = fill.addedRows /\ fill.column = 0
  BY <1>1 DEF IInv, WindowShape, FillShape
<1>5. /\ WindowInv(a.w) /\ SameFields(window, a.w)
      /\ a.ok => a.w.numRows = fill.addedRows + 1 /\ NoSpare(a.w)
      /\ ~a.ok => a.w.numRows = fill.addedRows
  BY <1>3, <1>4, AllocRowEffect
<1>6. fill.addedRows = 0 => a = allocRow(Fresh(window.size))
  BY <1>1, <1>3 DEF IInv, Reaches
<1> HIDE DEF a
<1>7. a.w.size = window.size /\ a.w.numColumns = NumColumns
  BY <1>3, <1>5 DEF SameFields
<1>8. \A r \in 0 .. fill.addedRows - 1 : \A c \in 0 .. NumColumns - 1 :
        FieldValue(a.w, r, c) = FieldValue(window, r, c)
  BY <1>3, <1>4, <1>5, SameFieldsRead
<1>9. CASE a.ok /\ window' = a.w /\ pc' = "put" /\ fill' = fill
  <2>1. InFill' /\ UNCHANGED <<result, mWindow, mCount>>
    BY <1>1, <1>9 DEF InFill, cursorVars
  <2>2. WindowShape'
    BY <1>3, <1>5, <1>7, <1>9, <2>1 DEF WindowShape
  <2>3. FillShape'
    BY <1>2, <1>3, <1>4, <1>9, <2>1 DEF FillShape
  <2>4. RowsHeld'
    BY <1>4, <1>8, <1>9, <2>1 DEF IInv, RowsHeld
  <2>5. FirstRow'
    <3> SUFFICES ASSUME fill.addedRows = 0
                 PROVE  LET start == allocRow(Fresh(a.w.size)) IN
                        /\ start.ok
                        /\ a.w.freeOffset = start.w.freeOffset + RowBytes(result[fill.totalRows], 0)
      BY <1>4, <1>9, <2>1 DEF FirstRow
    <3>1. a = allocRow(Fresh(a.w.size)) /\ RowBytes(result[fill.totalRows], 0) = 0
      BY <1>6, <1>7, RowBytesStep
    <3>2. a.w.freeOffset \in Nat
      BY <1>5 DEF WindowInv, Shape
    <3> QED
      BY <1>9, <3>1, <3>2
  <2>6. Reaches'
    BY <1>3, <1>9, <2>1 DEF Reaches
  <2>7. Types' /\ CursorShape'
    BY <1>1, <1>2, <1>3, <1>9, CopyFrame
  <2> QED
    BY <2>2, <2>3, <2>4, <2>5, <2>6, <2>7 DEF IInv
<1>10. CASE ~a.ok /\ CopyFails(a.w)
  <2>1. AllFit => fill.addedRows # 0
    <3> SUFFICES ASSUME AllFit, fill.addedRows = 0 PROVE FALSE
      OBVIOUS
    <3>1. FitsAlone(result[fill.totalRows])
      BY <1>3 DEF AllFit
    <3>2. allocRow(Fresh(window.size)).ok
      BY <3>1 DEF FitsAlone, Fresh
    <3> QED
      BY <1>6, <1>10, <3>2
  <2> QED
    BY <1>1, <1>5, <1>7, <1>8, <1>10, <2>1, CopyFailsStep
<1> QED
  BY <1>1, <1>9, <1>10

\* A column is copied, or does not fit.
LEMMA CopyPutStep ==
    ASSUME IInv, CopyPut
    PROVE  IInv'
<1> DEFINE row == fill.addedRows
           col == fill.column
           x == result[fill.totalRows][col + 1]
           p == put(window, row, col, x)
<1>1. /\ pc = "put" /\ col < NumColumns /\ UNCHANGED <<result, mWindow, mStartPos, cursorVars>>
      /\ \/ p.ok /\ window' = p.w /\ fill' = [fill EXCEPT !.column = @ + 1] /\ pc' = pc
         \/ ~p.ok /\ CopyFails(freeLastRow(p.w))
  BY DEF CopyPut
<1>2. /\ fill \in FillType /\ fill.startPos \in Nat /\ fill.totalRows \in Nat
      /\ row \in Nat /\ col \in Nat /\ Len(result) \in Nat /\ NumColumns \in Nat
      /\ result \in Results
  BY FillNumbers
<1>3. /\ mWindow /\ (fill.countAllRows <=> mCount = NO_COUNT) /\ ~fill.windowFull
      /\ fill.totalRows <= Len(result) /\ row <= fill.totalRows
      /\ fill.totalRows = fill.startPos + row + 1
      /\ fill.totalRows \in 1 .. Len(result)
      /\ window.size \in Sizes /\ WindowInv(window) /\ NoSpare(window)
      /\ window.numColumns = NumColumns /\ fill.startPos <= fill.requiredPos /\ InFill
  BY <1>1, CopyFacts
<1>4. window.numRows = row + 1
  BY <1>1 DEF IInv, WindowShape
<1>5. IsValue(x)
  <2>1. col + 1 \in 1 .. NumColumns
    BY <1>1, <1>2
  <2> QED
    BY <1>2, <1>3, <2>1, ResultValues
<1>6. row \in 0 .. window.numRows - 1 /\ col \in 0 .. window.numColumns - 1
  BY <1>1, <1>2, <1>3, <1>4
<1>7. /\ p.ok \in BOOLEAN /\ WindowInv(p.w) /\ p.w.numRows = window.numRows /\ NoSpare(p.w)
      /\ p.ok => FieldValue(p.w, row, col) = x /\ SameValues(window, p.w, row, col)
                 /\ p.w.freeOffset = window.freeOffset + Bytes(x)
      /\ ~p.ok => p.w = window /\ window.freeOffset + Bytes(x) > window.size
  BY <1>3, <1>5, <1>6, PutEffect
<1> HIDE DEF p
<1>8. /\ \A r \in 0 .. row - 1 :
            /\ fill.startPos + r < Len(result)
            /\ \A c \in 0 .. NumColumns - 1 :
                  FieldValue(window, r, c) = result[fill.startPos + r + 1][c + 1]
      /\ \A c \in 0 .. col - 1 : FieldValue(window, row, c) = result[fill.totalRows][c + 1]
  BY <1>1 DEF IInv, RowsHeld
<1>9. RowBytes(result[fill.totalRows], col + 1) = RowBytes(result[fill.totalRows], col) + Bytes(x)
  BY <1>2, RowBytesStep
<1>10. Bytes(x) \in Nat /\ RowBytes(result[fill.totalRows], col) \in Nat
  <2>1. x.size \in Nat
    BY <1>5 DEF IsValue
  <2>2. col \in 0 .. NumColumns
    BY <1>1, <1>2
  <2>3. Bytes(x) \in Nat
    <3> HIDE DEF x
    <3> QED
      BY <2>1 DEF Bytes
  <2> QED
    BY <1>2, <1>3, <2>2, <2>3, RowBytesGrow
<1> DEFINE start == allocRow(Fresh(window.size))
<1>11. row = 0 => /\ start.ok
                  /\ window.freeOffset = start.w.freeOffset + RowBytes(result[fill.totalRows], col)
  BY <1>1 DEF IInv, FirstRow
<1>12. start.ok => start.w.freeOffset \in Nat
  <2>1. WindowInv(Fresh(window.size)) /\ NoSpare(Fresh(window.size))
    BY <1>3, FreshWindow
  <2>2. WindowInv(start.w)
    BY <2>1, AllocRowEffect
  <2> QED
    BY <2>2 DEF WindowInv, Shape
<1>13. CASE p.ok /\ window' = p.w /\ fill' = [fill EXCEPT !.column = @ + 1] /\ pc' = pc
  <2>1. /\ fill' \in FillType /\ fill'.startPos = fill.startPos
        /\ fill'.requiredPos = fill.requiredPos /\ fill'.countAllRows = fill.countAllRows
        /\ fill'.addedRows = row /\ fill'.windowFull = fill.windowFull /\ fill'.column = col + 1
        /\ fill'.totalRows = fill.totalRows
    BY <1>2, <1>13 DEF FillType
  <2>2. InFill' /\ UNCHANGED <<result, mWindow, mCount>> /\ pc' = "put"
    BY <1>1, <1>13 DEF InFill, cursorVars
  <2>3. window'.size = window.size /\ window'.numColumns = NumColumns /\ window'.numRows = row + 1
    BY <1>3, <1>4, <1>7, <1>13 DEF SameValues
  <2>4. WindowShape'
    BY <1>3, <1>7, <1>13, <2>1, <2>2, <2>3 DEF WindowShape
  <2>5. FillShape'
    <3>1. fill'.column <= NumColumns
      BY <1>1, <1>2, <2>1
    <3> QED
      BY <1>3, <2>1, <2>2, <3>1 DEF FillShape
  <2>6. RowsHeld'
    <3>1. ASSUME NEW r \in 0 .. row - 1, NEW c \in 0 .. NumColumns - 1
          PROVE  FieldValue(window', r, c) = FieldValue(window, r, c)
      <4>1. r \in 0 .. window.numRows - 1 /\ c \in 0 .. window.numColumns - 1 /\ r # row
        BY <1>2, <1>3, <1>4
      <4> QED
        BY <1>7, <1>13, <4>1 DEF SameValues
    <3>2. ASSUME NEW c \in 0 .. col PROVE FieldValue(window', row, c) = result[fill.totalRows][c + 1]
      <4>1. CASE c = col
        BY <1>7, <1>13, <4>1
      <4>2. CASE c # col
        <5>1. c \in 0 .. col - 1 /\ c \in 0 .. window.numColumns - 1
          BY <1>1, <1>2, <1>3, <4>2
        <5>2. FieldValue(window', row, c) = FieldValue(window, row, c)
          BY <1>6, <1>7, <1>13, <4>2, <5>1 DEF SameValues
        <5> QED
          BY <1>8, <5>1, <5>2
      <4> QED
        BY <4>1, <4>2
    <3>3. (col + 1) - 1 = col
      BY <1>2
    <3> QED
      BY <1>8, <2>1, <2>2, <3>1, <3>2, <3>3 DEF RowsHeld
  <2>7. FirstRow'
    <3> SUFFICES ASSUME row = 0
                 PROVE  /\ start.ok
                        /\ window'.freeOffset
                             = start.w.freeOffset + RowBytes(result[fill.totalRows], col + 1)
      BY <2>1, <2>2, <2>3 DEF FirstRow
    <3> HIDE DEF start, x, row, col
    <3> QED
      BY <1>7, <1>9, <1>10, <1>11, <1>12, <1>13
  <2>8. Reaches'
    BY <1>3, <2>1, <2>2 DEF Reaches
  <2>9. Types' /\ CursorShape'
    BY <1>1, <1>3, <1>13, <2>1, CopyFrame
  <2> QED
    BY <2>4, <2>5, <2>6, <2>7, <2>8, <2>9 DEF IInv
<1>14. CASE ~p.ok /\ CopyFails(freeLastRow(p.w))
  <2> DEFINE w == freeLastRow(window)
  <2>1. p.w = window /\ window.freeOffset + Bytes(x) > window.size /\ CopyFails(w)
    BY <1>7, <1>14
  <2>2. /\ WindowInv(w) /\ w.numRows = window.numRows - 1 /\ w.size = window.size
        /\ w.numColumns = window.numColumns
        /\ \A r, c : FieldValue(w, r, c) = FieldValue(window, r, c)
    BY <1>2, <1>3, <1>4, FreeLastRowEffect
  <2> HIDE DEF w
  <2>3. w.numRows = row
    BY <1>2, <1>4, <2>2
  <2>4. AllFit => row # 0
    <3> SUFFICES ASSUME AllFit, row = 0 PROVE FALSE
      OBVIOUS
    <3> DEFINE r == result[fill.totalRows]
    <3>1. FitsAlone(r)
      BY <1>3 DEF AllFit
    <3>2. start.w.freeOffset + RowBytes(r, NumColumns) <= window.size
      BY <3>1 DEF FitsAlone, Fresh
    <3>3. col + 1 \in 0 .. NumColumns /\ NumColumns \in 0 .. NumColumns
      BY <1>1, <1>2
    <3>4. /\ RowBytes(r, col + 1) <= RowBytes(r, NumColumns)
          /\ RowBytes(r, col + 1) \in Nat /\ RowBytes(r, NumColumns) \in Nat
      BY <1>2, <1>3, <3>3, RowBytesGrow
    <3>5. /\ window.freeOffset = start.w.freeOffset + RowBytes(r, col)
          /\ start.w.freeOffset \in Nat /\ RowBytes(r, col) \in Nat /\ Bytes(x) \in Nat
          /\ RowBytes(r, col + 1) = RowBytes(r, col) + Bytes(x)
      BY <1>9, <1>10, <1>11, <1>12
    <3>6. window.size \in Nat
      BY <1>3, CursorAssumption
    <3> HIDE DEF start, r, x, row, col
    <3> QED
      BY <2>1, <3>2, <3>4, <3>5, <3>6
  <2> QED
    BY <1>1, <1>3, <2>1, <2>2, <2>3, <2>4, CopyFailsStep
<1> QED
  BY <1>1, <1>13, <1>14

\* The row that was copied completely is one more row of the window.
LEMMA CopyDoneStep ==
    ASSUME IInv, CopyDone
    PROVE  IInv'
<1> DEFINE row == fill.addedRows
<1>1. /\ pc = "put" /\ fill.column = NumColumns /\ pc' = "step"
      /\ fill' = [fill EXCEPT !.addedRows = @ + 1, !.column = 0]
      /\ UNCHANGED <<result, window, mWindow, mStartPos, cursorVars>>
  BY DEF CopyDone
<1>2. /\ fill \in FillType /\ fill.startPos \in Nat /\ fill.totalRows \in Nat
      /\ row \in Nat /\ Len(result) \in Nat /\ NumColumns \in Nat
  BY FillNumbers
<1>3. /\ mWindow /\ (fill.countAllRows <=> mCount = NO_COUNT) /\ ~fill.windowFull
      /\ fill.totalRows <= Len(result) /\ row <= fill.totalRows
      /\ fill.totalRows = fill.startPos + row + 1
      /\ window.size \in Sizes /\ WindowInv(window) /\ NoSpare(window)
      /\ window.numColumns = NumColumns /\ fill.startPos <= fill.requiredPos /\ InFill
  BY <1>1, CopyFacts
<1>4. window.numRows = row + 1
  BY <1>1 DEF IInv, WindowShape
<1>5. /\ fill' \in FillType /\ fill'.startPos = fill.startPos
      /\ fill'.requiredPos = fill.requiredPos /\ fill'.countAllRows = fill.countAllRows
      /\ fill'.addedRows = row + 1 /\ fill'.windowFull = fill.windowFull /\ fill'.column = 0
      /\ fill'.totalRows = fill.totalRows
  <2> DEFINE new == row + 1
  <2>1. fill' = [fill EXCEPT !.addedRows = new, !.column = 0] /\ new \in Nat
    BY <1>1, <1>2
  <2> HIDE DEF new
  <2>2. /\ fill' \in FillType /\ fill'.startPos = fill.startPos
        /\ fill'.requiredPos = fill.requiredPos /\ fill'.countAllRows = fill.countAllRows
        /\ fill'.addedRows = new /\ fill'.windowFull = fill.windowFull /\ fill'.column = 0
        /\ fill'.totalRows = fill.totalRows
    BY <1>2, <2>1 DEF FillType
  <2> QED
    BY <2>2 DEF new
<1>6. InFill' /\ UNCHANGED <<result, mWindow, mCount, window>>
  BY <1>1 DEF InFill, cursorVars
<1>7. WindowShape'
  BY <1>1, <1>3, <1>4, <1>5, <1>6 DEF WindowShape
<1>8. FillShape'
  BY <1>1, <1>2, <1>3, <1>5, <1>6 DEF FillShape
<1>9. RowsHeld'
  <2>1. /\ \A r \in 0 .. row - 1 :
             /\ fill.startPos + r < Len(result)
             /\ \A c \in 0 .. NumColumns - 1 :
                   FieldValue(window, r, c) = result[fill.startPos + r + 1][c + 1]
        /\ \A c \in 0 .. NumColumns - 1 :
              FieldValue(window, row, c) = result[fill.totalRows][c + 1]
    BY <1>1 DEF IInv, RowsHeld
  <2>2. ASSUME NEW r \in 0 .. row
        PROVE  /\ fill.startPos + r < Len(result)
               /\ \A c \in 0 .. NumColumns - 1 :
                     FieldValue(window, r, c) = result[fill.startPos + r + 1][c + 1]
    <3>1. CASE r = row
      BY <1>2, <1>3, <2>1, <3>1
    <3>2. CASE r # row
      <4>1. r \in 0 .. row - 1
        BY <1>2, <3>2
      <4> QED
        BY <2>1, <4>1
    <3> QED
      BY <3>1, <3>2
  <2>3. (row + 1) - 1 = row
    BY <1>2
  <2> QED
    BY <1>1, <1>5, <1>6, <2>2, <2>3 DEF RowsHeld
<1>10. Reaches' /\ FirstRow'
  <2>1. fill'.addedRows # 0
    BY <1>2, <1>5
  <2> QED
    BY <1>1, <1>3, <1>5, <1>6, <2>1 DEF Reaches, FirstRow
<1>11. Types' /\ CursorShape'
  BY <1>1, <1>3, <1>5, CopyFrame
<1> QED
  BY <1>7, <1>8, <1>9, <1>10, <1>11 DEF IInv

\* A step that changes nothing.
LEMMA StutterStep ==
    ASSUME IInv, UNCHANGED vars
    PROVE  IInv'
<1>1. /\ UNCHANGED <<result, window, mWindow, mStartPos, mPos, mCount, mCursorWindowCapacity,
                     target, moved, threw, pc, fill>>
  BY DEF vars, cursorVars
<1>2. Types' /\ WindowShape' /\ FillShape'
  BY <1>1 DEF IInv, Types, WindowShape, FillShape, InFill
<1>3. RowsHeld' /\ CursorShape' /\ FirstRow'
  BY <1>1 DEF IInv, RowsHeld, CursorShape, FirstRow, InFill
<1>4. Reaches'
  <2>1. AllFit' <=> AllFit
    BY <1>1, AllFitFrame
  <2> QED
    BY <1>1, <2>1 DEF IInv, Reaches, InFill, InWindow
<1> QED
  BY <1>2, <1>3, <1>4 DEF IInv

\* Every step preserves the invariant.
LEMMA NextInv == IInv /\ [Next]_vars => IInv'
<1> SUFFICES ASSUME IInv, [Next]_vars PROVE IInv'
  OBVIOUS
<1>1. CASE UNCHANGED vars
  BY <1>1, StutterStep
<1>2. ASSUME NEW position \in -1 .. MaxPosition, moveToPosition(position) PROVE IInv'
  BY <1>2, MoveToPositionStep
<1>3. ASSUME NEW r \in Results, requery(r) PROVE IInv'
  BY <1>3, RequeryStep
<1>4. CASE Move
  BY <1>4, MoveCountedStep, MoveDoneStep DEF Move
<1>5. CASE Native
  BY <1>5, StepRowStep, StepBusyStep, StepErrorStep, FillReturnsStep, CopyAllocStep, CopyPutStep,
     CopyDoneStep DEF Native, Copy
<1> QED
  BY <1>1, <1>2, <1>3, <1>4, <1>5 DEF Next

\* The inductive invariant holds in every reachable state.
THEOREM Invariance == Spec => []IInv
  BY InitInv, NextInv, PTL DEF Spec

-----------------------------------------------------------------------------
(* The properties *)

\* Every variable keeps its type, and the free offset stays within the window.
THEOREM TypeCorrect == Spec => []TypeOK
<1>1. IInv => TypeOK
  <2> SUFFICES ASSUME IInv PROVE TypeOK
    OBVIOUS
  <2>1. window.freeOffset \in 0 .. window.size
    BY DEF IInv, WindowShape, WindowInv, Shape
  <2>2. fill.addedRows <= fill.totalRows
    BY DEF IInv, FillShape
  <2> QED
    BY <2>1, <2>2 DEF IInv, Types, TypeOK
<1> QED
  BY <1>1, Invariance, PTL

\* However rows are added, backed out and started again with, the parts of the window that are in
\* use lie within it and apart, chunks and directories aligned.
THEOREM LayoutStaysSound == Spec => []LayoutIsSound
<1>1. IInv => LayoutIsSound
  <2> SUFFICES ASSUME IInv PROVE LayoutIsSound
    OBVIOUS
  <2>1. /\ Sound(Regions(window), window.freeOffset) /\ window.freeOffset \in Nat
        /\ window.size \in Nat /\ window.freeOffset <= window.size
    BY DEF IInv, WindowShape, WindowInv, Shape
  <2>2. \A s \in Regions(window) : s.lo < s.hi => s.hi <= window.size
    BY <2>1 DEF Sound
  <2> QED
    BY <2>1, <2>2 DEF LayoutIsSound, Sound
<1> QED
  BY <1>1, Invariance, PTL

\* A count that is known is the number of rows of the result.
THEOREM CountedExactly == Spec => []CountIsExact
<1>1. IInv => CountIsExact
  BY DEF IInv, CursorShape, CountIsExact
<1> QED
  BY <1>1, Invariance, PTL

\* After a successful move the row is in the window, and what is read there is the result's row.
THEOREM MovedRowRead == Spec => []MovedRowIsReadable
<1>1. IInv => MovedRowIsReadable
  <2> SUFFICES ASSUME IInv, pc = "idle", moved, ~threw,
                      \A i \in 1 .. Len(result) : FitsAlone(result[i])
               PROVE  /\ mPos - mStartPos \in 0 .. window.numRows - 1
                      /\ \A c \in 1 .. NumColumns :
                           FieldValue(window, mPos - mStartPos, c - 1) = result[mPos + 1][c]
    BY DEF MovedRowIsReadable
  <2>1. AllFit /\ ~InFill
    BY DEF AllFit, InFill
  <2>2. mPos \in 0 .. mCount - 1 /\ mStartPos = fill.startPos
    BY <2>1 DEF IInv, CursorShape
  <2>3. InWindow(mPos)
    BY <2>1, <2>2 DEF IInv, Reaches
  <2>4. window.numRows = fill.addedRows
    BY DEF IInv, WindowShape
  <2>5. fill.startPos \in Nat /\ fill.addedRows \in Nat /\ NumColumns \in Nat /\ mPos \in Int
    BY FillNumbers DEF IInv, Types
  <2> DEFINE r == mPos - mStartPos
  <2>6. r \in 0 .. fill.addedRows - 1 /\ fill.startPos + r = mPos
    BY <2>2, <2>3, <2>5 DEF InWindow
  <2> HIDE DEF r
  <2>7. \A c \in 0 .. NumColumns - 1 : FieldValue(window, r, c) = result[mPos + 1][c + 1]
    BY <2>6 DEF IInv, RowsHeld
  <2>8. ASSUME NEW c \in 1 .. NumColumns PROVE FieldValue(window, r, c - 1) = result[mPos + 1][c]
    <3>1. c - 1 \in 0 .. NumColumns - 1 /\ (c - 1) + 1 = c
      BY <2>5
    <3> QED
      BY <2>7, <3>1
  <2> QED
    BY <2>4, <2>6, <2>8 DEF r
<1> QED
  BY <1>1, Invariance, PTL

-----------------------------------------------------------------------------
(* The window holds a slice of the result *)

\* A function on 1 .. n is a sequence.
LEMMA FunctionIsSeq ==
    ASSUME NEW n \in Nat, NEW S, NEW s \in [1 .. n -> S]
    PROVE  s \in Seq(S) /\ Len(s) = n
  OBVIOUS

\* One on no number is empty.
LEMMA EmptyFunction ==
    ASSUME NEW s, s = [i \in 1 .. 0 |-> s[i]]
    PROVE  s = <<>>
<1>1. s \in [1 .. 0 -> {}]
  OBVIOUS
<1>2. s \in Seq({}) /\ Len(s) = 0
  BY <1>1, FunctionIsSeq
<1> QED
  BY <1>2, EmptySeq

\* One that goes one further is the other with an element appended.
LEMMA AppendFunction ==
    ASSUME NEW n \in Nat, NEW S, NEW s \in [1 .. n -> S], NEW t \in [1 .. n + 1 -> S],
           \A i \in 1 .. n : t[i] = s[i]
    PROVE  Len(s) = n /\ t = Append(s, t[n + 1])
<1> DEFINE u == Append(s, t[n + 1])
<1>1. s \in Seq(S) /\ Len(s) = n
  BY FunctionIsSeq
<1>2. t \in Seq(S) /\ Len(t) = n + 1 /\ t[n + 1] \in S
  BY FunctionIsSeq
<1>3. /\ u \in Seq(S) /\ Len(u) = n + 1
      /\ \A i \in 1 .. n + 1 : u[i] = IF i = n + 1 THEN t[n + 1] ELSE s[i]
  BY <1>1, <1>2
<1> HIDE DEF u
<1>4. \A i \in 1 .. n + 1 : u[i] = t[i]
  BY <1>3
<1>5. u = t
  BY <1>2, <1>3, <1>4, SeqEqual
<1> QED
  BY <1>1, <1>5 DEF u

\* The rows that are read back are the result's.
ReadsResult == ReadBack = [r \in 1 .. fill.addedRows |-> result[fill.startPos + r]]

\* What is read back are the result's rows.
LEMMA ReadBackIs == IInv => ReadsResult
<1> SUFFICES ASSUME IInv PROVE ReadsResult
  OBVIOUS
<1>1. /\ fill.startPos \in Nat /\ fill.addedRows \in Nat /\ Len(result) \in Nat
      /\ NumColumns \in Nat /\ result \in Results
  BY FillNumbers
<1>2. ASSUME NEW r \in 1 .. fill.addedRows
      PROVE  [c \in 1 .. NumColumns |-> FieldValue(window, r - 1, c - 1)] = result[fill.startPos + r]
  <2> DEFINE i == fill.startPos + r
  <2>1. r - 1 \in 0 .. fill.addedRows - 1 /\ fill.startPos + (r - 1) + 1 = i
    BY <1>1
  <2>2. /\ fill.startPos + (r - 1) < Len(result)
        /\ \A c \in 0 .. NumColumns - 1 : FieldValue(window, r - 1, c) = result[i][c + 1]
    BY <2>1 DEF IInv, RowsHeld
  <2>3. i \in 1 .. Len(result)
    BY <1>1, <2>1, <2>2
  <2> HIDE DEF i
  <2>4. result[i] = [c \in 1 .. NumColumns |-> result[i][c]]
    BY <1>1, <2>3, ResultValues
  <2>5. ASSUME NEW c \in 1 .. NumColumns
        PROVE  FieldValue(window, r - 1, c - 1) = result[i][c]
    <3>1. c - 1 \in 0 .. NumColumns - 1 /\ (c - 1) + 1 = c
      BY <1>1
    <3> QED
      BY <2>2, <3>1
  <2>6. [c \in 1 .. NumColumns |-> FieldValue(window, r - 1, c - 1)] =
        [c \in 1 .. NumColumns |-> result[i][c]]
    BY <2>5
  <2> QED
    BY <2>4, <2>6 DEF i
<1> QED
  BY <1>2 DEF ReadBack, ReadsResult

\* What a step does to the rows that were added: nothing, one more, or none are left.
LEMMA SliceCases ==
    ASSUME IInv, Next
    PROVE  \/ /\ result' = result /\ fill'.startPos = fill.startPos
              /\ fill'.addedRows = fill.addedRows
           \/ fill'.addedRows = 0
           \/ /\ result' = result /\ fill'.startPos = fill.startPos
              /\ fill'.addedRows = fill.addedRows + 1
              /\ fill.startPos + fill.addedRows < Len(result)
<1>1. /\ fill \in FillType /\ fill.startPos \in Nat /\ fill.addedRows \in Nat
      /\ fill.totalRows \in Nat /\ Len(result) \in Nat
  BY FillNumbers
<1>2. NoFill.addedRows = 0
  BY DEF NoFill
<1>3. ASSUME NEW required, fillWindow(required) PROVE fill'.addedRows = 0
  BY <1>3 DEF fillWindow, NoFill
<1>4. ASSUME NEW w, CopyFails(w), result' = result
      PROVE  \/ /\ result' = result /\ fill'.startPos = fill.startPos
                /\ fill'.addedRows = fill.addedRows
             \/ fill'.addedRows = 0
  BY <1>1, <1>4 DEF CopyFails, FillType
<1>5. ASSUME NEW position, moveToPosition(position)
      PROVE  (fill' = fill /\ result' = result) \/ fill'.addedRows = 0
  BY <1>3, <1>5 DEF moveToPosition
<1>6. CASE Move
  BY <1>3, <1>6 DEF Move, MoveCounted, MoveDone
<1>7. ASSUME NEW r, requery(r) PROVE fill'.addedRows = 0
  BY <1>2, <1>7 DEF requery
<1>8. CASE StepRow \/ StepBusy \/ StepError \/ FillReturns
  BY <1>1, <1>2, <1>8 DEF StepRow, StepBusy, StepError, FillReturns, Throw, FillType
<1>9. CASE CopyAlloc \/ CopyPut
  BY <1>1, <1>4, <1>9 DEF CopyAlloc, CopyPut, FillType
<1>10. CASE CopyDone
  <2>1. pc = "put" /\ result' = result /\ fill' = [fill EXCEPT !.addedRows = @ + 1, !.column = 0]
    BY <1>10 DEF CopyDone
  <2>2. fill'.startPos = fill.startPos /\ fill'.addedRows = fill.addedRows + 1
    BY <1>1, <2>1 DEF FillType
  <2>3. fill.startPos + fill.addedRows + 1 \in 1 .. Len(result)
    BY <2>1, CopyFacts
  <2> QED
    BY <1>1, <2>1, <2>2, <2>3
<1> QED
  BY <1>5, <1>6, <1>7, <1>8, <1>9, <1>10 DEF Next, Native, Copy

\* Every step of the cursor is one of the slice, or none.
LEMMA SliceStep ==
    ASSUME IInv, IInv', [Next]_vars, ReadsResult, ReadsResult'
    PROVE  [Slice!Next]_(Slice!vars)
<1>0. /\ ReadBack = [r \in 1 .. fill.addedRows |-> result[fill.startPos + r]]
      /\ ReadBack' = [r \in 1 .. fill'.addedRows |-> result'[fill'.startPos + r]]
  BY DEF ReadsResult
<1>1. /\ fill.startPos \in Nat /\ fill.addedRows \in Nat
  BY FillNumbers
<1>2. fill'.startPos \in Nat
  BY DEF IInv, Types, FillType
<1>3. CASE /\ result' = result /\ fill'.startPos = fill.startPos
           /\ fill'.addedRows = fill.addedRows
  BY <1>0, <1>3 DEF Slice!vars
<1>4. CASE fill'.addedRows = 0
  <2>1. ReadBack' = [r \in 1 .. 0 |-> ReadBack'[r]]
    BY <1>0, <1>4
  <2>2. ReadBack' = <<>>
    BY <2>1, EmptyFunction
  <2> QED
    BY <1>2, <2>2 DEF Slice!Next, Slice!Restart
<1>5. CASE /\ result' = result /\ fill'.startPos = fill.startPos
           /\ fill'.addedRows = fill.addedRows + 1
           /\ fill.startPos + fill.addedRows < Len(result)
  <2> DEFINE n == fill.addedRows
             s == ReadBack
             t == ReadBack'
             S == {result[i] : i \in Nat}
  <2>1. /\ s = [r \in 1 .. n |-> result[fill.startPos + r]]
        /\ t = [r \in 1 .. n + 1 |-> result[fill.startPos + r]]
    BY <1>0, <1>5
  <2> HIDE DEF s, t
  <2>2. s \in [1 .. n -> S] /\ t \in [1 .. n + 1 -> S]
    <3>1. \A r \in 1 .. n + 1 : fill.startPos + r \in Nat
      BY <1>1
    <3>2. \A r \in 1 .. n + 1 : result[fill.startPos + r] \in S
      BY <3>1
    <3>3. 1 .. n \subseteq 1 .. n + 1
      BY <1>1
    <3> HIDE DEF S
    <3> QED
      BY <2>1, <3>2, <3>3
  <2>3. t[n + 1] = result[fill.startPos + n + 1] /\ \A i \in 1 .. n : t[i] = s[i]
    <3>1. n + 1 \in 1 .. n + 1 /\ 1 .. n \subseteq 1 .. n + 1
      BY <1>1
    <3>2. fill.startPos + (n + 1) = fill.startPos + n + 1
      BY <1>1
    <3>3. t[n + 1] = result[fill.startPos + (n + 1)]
      BY <2>1, <3>1
    <3>4. \A i \in 1 .. n : t[i] = s[i]
      BY <2>1, <3>1
    <3> QED
      BY <3>2, <3>3, <3>4
  <2> HIDE DEF S
  <2>4. Len(s) = n /\ t = Append(s, t[n + 1])
    BY <1>1, <2>2, <2>3, AppendFunction
  <2> QED
    BY <1>5, <2>3, <2>4 DEF Slice!Next, Slice!Fetch, s, t
<1>6. CASE UNCHANGED vars
  <2>1. result' = result /\ fill' = fill
    BY <1>6 DEF vars
  <2> QED
    BY <1>3, <2>1
<1> QED
  BY <1>3, <1>4, <1>5, <1>6, SliceCases

\* The window implements the slice: what can be read from it are consecutive rows of the result,
\* from the position it says it starts at, in every reachable state and after every step.
THEOREM WindowHoldsSlice == Spec => HoldsSlice
<1>1. Init => Slice!Init
  <2> SUFFICES ASSUME Init PROVE Slice!Init
    OBVIOUS
  <2>1. fill.addedRows = 0 /\ fill.startPos = 0
    BY DEF Init, NoFill
  <2>2. ReadBack = [r \in 1 .. 0 |-> ReadBack[r]]
    BY <2>1 DEF ReadBack
  <2>3. ReadBack = <<>>
    BY <2>2, EmptyFunction
  <2> QED
    BY <2>1, <2>3 DEF Slice!Init
<1>2. IInv' => ReadsResult'
  BY ReadBackIs, PTL
<1>3. IInv /\ IInv' /\ [Next]_vars => [Slice!Next]_(Slice!vars)
  BY <1>2, ReadBackIs, SliceStep
<1> QED
  BY <1>1, <1>3, Invariance, PTL DEF Spec, HoldsSlice, Slice!Spec

=============================================================================
