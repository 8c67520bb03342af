---------------------------- MODULE CursorWindow ----------------------------
(***************************************************************************)
(* The native window that holds rows of a query's result                   *)
(* (jni/sqlite-android/CursorWindow.cpp and .h): one block of mSize bytes, *)
(* with a header, a linked list of chunks of row slots, a field directory  *)
(* per row, and the bytes of strings and blobs.  Nothing in it is freed    *)
(* but by clear(); what is allocated starts at the next free offset.       *)
(*                                                                         *)
(* A window is a record.  Its memory is kept by what was placed at an      *)
(* offset: chunks, directories and buffers, each a function on the offsets *)
(* in use.  Bytes that nothing was placed at have no value, so an          *)
(* operator that read them would be undefined.  That two things placed in  *)
(* the window do not overlap is not built in: see Regions.                 *)
(***************************************************************************)
EXTENDS Integers

CONSTANT ChunkRows   \* ROW_SLOT_CHUNK_NUM_ROWS, 100 in the code

ASSUME ChunkAssumption == ChunkRows \in Nat \ {0}

SizeOfHeader == 16     \* four uint32_t
SizeOfFieldSlot == 12  \* packed: an int32_t and a union of eight bytes
SizeOfChunk == 4 * ChunkRows + 4   \* the slots and nextChunkOffset

FirstChunk == SizeOfHeader

\* Fields hold INTEGER and FLOAT values inline, STRING and BLOB values as the offset and
\* the size of a buffer.
NullField == [type |-> "null", offset |-> 0, size |-> 0, data |-> 0]

\* f with value v at x, x in its domain or not.
Placed(f, x, v) == [o \in DOMAIN f \cup {x} |-> IF o = x THEN v ELSE f[o]]

NoSlots == [i \in 0 .. ChunkRows - 1 |-> 0]

-----------------------------------------------------------------------------
(* Creation and allocation *)

clear(w) ==
    [size |-> w.size, freeOffset |-> SizeOfHeader + SizeOfChunk,
     numRows |-> 0, numColumns |-> 0,
     chunks |-> [o \in {FirstChunk} |-> [slots |-> NoSlots, next |-> 0]],
     dirs |-> [o \in {} |-> NullField], buffers |-> [o \in {} |-> 0]]

create(size) == clear([size |-> size])

setNumColumns(w, n) ==
    IF (w.numColumns > 0 \/ w.numRows > 0) /\ w.numColumns # n THEN w
    ELSE [w EXCEPT !.numColumns = n]

\* Mutant: the remainder is taken for what is missing.
PaddingByRemainder(w, aligned) == IF aligned THEN w.freeOffset % 4 ELSE 0

\* (~freeOffset + 1) & 3: what is missing to a multiple of four.
Padding(w, aligned) == IF aligned THEN (4 - (w.freeOffset % 4)) % 4 ELSE 0

\* Mutant: the check for space looks at the start of the allocation only.
allocAtStart(w, size, aligned) ==
    LET offset == w.freeOffset + Padding(w, aligned) IN
    IF offset > w.size THEN 0 ELSE offset

\* alloc: the offset of the allocation, or 0 if there is no space for it.
alloc(w, size, aligned) ==
    LET offset == w.freeOffset + Padding(w, aligned) IN
    IF offset + size > w.size THEN 0 ELSE offset

-----------------------------------------------------------------------------
(* Rows *)

\* The chunk that is reached by following nextChunkOffset k times.
ChunkAt(w, k) ==
    LET at[i \in 0 .. k] == IF i = 0 THEN FirstChunk ELSE w.chunks[at[i - 1]].next
    IN at[k]

\* getRowSlot: what the slot of a row holds, the offset of its field directory.
getRowSlot(w, row) == w.chunks[ChunkAt(w, row \div ChunkRows)].slots[row % ChunkRows]

\* allocRowSlot stops one chunk before getRowSlot does when the rows fill their chunks: the
\* new row then needs a chunk, which may be there from a row that was backed out.
allocRowSlot(w) ==
    LET last == IF w.numRows = 0 THEN 0 ELSE (w.numRows - 1) \div ChunkRows
        chunk == ChunkAt(w, last)
        pos == w.numRows - last * ChunkRows
        old == w.chunks[chunk].next
        new == IF old # 0 THEN old ELSE alloc(w, SizeOfChunk, TRUE)
        linked == Placed([w.chunks EXCEPT ![chunk].next = new],
                         new, [slots |-> IF old # 0 THEN w.chunks[old].slots ELSE NoSlots,
                               next |-> 0])
    IN
    IF pos < ChunkRows
    THEN [ok |-> TRUE, chunk |-> chunk, pos |-> pos, w |-> [w EXCEPT !.numRows = @ + 1]]
    ELSE IF new = 0 THEN [ok |-> FALSE, chunk |-> 0, pos |-> 0, w |-> w]
    ELSE [ok |-> TRUE, chunk |-> new, pos |-> 0,
          w |-> [w EXCEPT !.numRows = @ + 1, !.chunks = linked,
                          !.freeOffset = IF old # 0 THEN @ ELSE new + SizeOfChunk]]

\* allocRow: a slot and a directory of null fields; without space for the directory the row
\* is taken back, and a chunk it needed stays linked.
allocRow(w) ==
    LET slot == allocRowSlot(w)
        size == w.numColumns * SizeOfFieldSlot
        dir == alloc(slot.w, size, TRUE)
    IN
    IF ~slot.ok THEN [ok |-> FALSE, w |-> w]
    ELSE IF dir = 0 THEN [ok |-> FALSE, w |-> [slot.w EXCEPT !.numRows = @ - 1]]
    ELSE [ok |-> TRUE,
          w |-> [slot.w EXCEPT
                   !.freeOffset = dir + size,
                   !.chunks = [@ EXCEPT ![slot.chunk].slots[slot.pos] = dir],
                   !.dirs = Placed(@, dir, [c \in 0 .. w.numColumns - 1 |-> NullField])]]

freeLastRow(w) == [w EXCEPT !.numRows = IF @ > 0 THEN @ - 1 ELSE 0]

-----------------------------------------------------------------------------
(* Fields *)

\* getFieldSlot finds nothing outside of the window's rows and columns.
HasField(w, row, column) == row \in 0 .. w.numRows - 1 /\ column \in 0 .. w.numColumns - 1

FieldSlot(w, row, column) == w.dirs[getRowSlot(w, row)][column]

Stored(w, row, column, field) == [w.dirs EXCEPT ![getRowSlot(w, row)][column] = field]

\* putBlob and putString.  A buffer of no bytes holds nothing.
putBlobOrString(w, row, column, type, size, data) ==
    LET offset == alloc(w, size, FALSE) IN
    IF ~HasField(w, row, column) \/ offset = 0 THEN [ok |-> FALSE, w |-> w]
    ELSE [ok |-> TRUE,
          w |-> [w EXCEPT
                   !.freeOffset = offset + size,
                   !.buffers = IF size = 0 THEN @ ELSE Placed(@, offset, data),
                   !.dirs = Stored(w, row, column, [type |-> type, offset |-> offset,
                                                    size |-> size, data |-> 0])]]

\* putLong, putDouble and putNull need no space.
putInline(w, row, column, type, data) ==
    IF ~HasField(w, row, column) THEN [ok |-> FALSE, w |-> w]
    ELSE [ok |-> TRUE,
          w |-> [w EXCEPT
                   !.dirs = Stored(w, row, column, [type |-> type, offset |-> 0,
                                                    size |-> 0, data |-> data])]]

\* The bytes a value takes beside its field: sqlite3_column_bytes does not count the
\* terminator that is stored with a string.
Bytes(v) == IF v.type = "string" THEN v.size + 1 ELSE IF v.type = "blob" THEN v.size ELSE 0

\* A column's value as SQLite has it.
put(w, row, column, v) ==
    IF v.type \in {"string", "blob"}
    THEN putBlobOrString(w, row, column, v.type, Bytes(v), v.data)
    ELSE putInline(w, row, column, v.type, v.data)

\* nativeGetString, nativeGetBlob, nativeGetLong, nativeGetDouble and nativeGetType, each
\* for the type it is meant for.
FieldValue(w, row, column) ==
    LET field == FieldSlot(w, row, column) IN
    [type |-> field.type,
     size |-> IF field.type = "string" THEN field.size - 1 ELSE field.size,
     data |-> IF field.type \notin {"string", "blob"} THEN field.data
              ELSE IF field.size = 0 THEN 0 ELSE w.buffers[field.offset]]

-----------------------------------------------------------------------------
(* Layout *)

ChunksUsed(w) == IF w.numRows = 0 THEN 1 ELSE (w.numRows - 1) \div ChunkRows + 1

\* What is in use, with a name for each part: the bytes from lo to hi - 1.
Regions(w) ==
    {[part |-> <<"header">>, lo |-> 0, hi |-> SizeOfHeader]}
    \cup {[part |-> <<"chunk", k>>, lo |-> ChunkAt(w, k), hi |-> ChunkAt(w, k) + SizeOfChunk] :
            k \in 0 .. ChunksUsed(w) - 1}
    \cup {[part |-> <<"dir", r>>, lo |-> getRowSlot(w, r),
           hi |-> getRowSlot(w, r) + w.numColumns * SizeOfFieldSlot] :
            r \in 0 .. w.numRows - 1}
    \cup {[part |-> <<"buffer", rc[1], rc[2]>>, lo |-> FieldSlot(w, rc[1], rc[2]).offset,
           hi |-> FieldSlot(w, rc[1], rc[2]).offset + FieldSlot(w, rc[1], rc[2]).size] :
            rc \in (0 .. w.numRows - 1) \X (0 .. w.numColumns - 1)}

============================================================================
