------------------------- MODULE CursorWindowProofs -------------------------
(***************************************************************************)
(* Lemmas about CursorWindow, for any number of rows per chunk.            *)
(***************************************************************************)
EXTENDS CursorWindow, WellFoundedInduction, TLAPS

-----------------------------------------------------------------------------
(* Induction, stated of sets: what the provers can use *)

\* A set of natural numbers has a least element.
LEMMA LeastElement ==
    ASSUME NEW T \in SUBSET Nat, T # {}
    PROVE  \E n \in T : \A m \in T : n <= m
<1> DEFINE R == OpToRel(<, Nat)
<1>1. IsWellFoundedOn(R, Nat)
  BY NatLessThanWellFounded
<1>2. \A m, n \in Nat : m < n => <<m, n>> \in R
  BY DEF OpToRel
<1> HIDE DEF R
<1>3. PICK n \in T : \A m \in T : ~ (<<m, n>> \in R)
  BY <1>1, WFMin
<1>4. \A m \in T : n <= m
  <2> SUFFICES ASSUME NEW m \in T PROVE ~(m < n)
    OBVIOUS
  <2>1. m \in Nat /\ n \in Nat
    OBVIOUS
  <2>2. ~(<<m, n>> \in R)
    BY <1>3
  <2> QED
    BY <1>2, <2>1, <2>2
<1> QED
  BY <1>4

\* A set with zero and the successor of each of its elements has every number.
LEMMA SetInduction ==
    ASSUME NEW S \in SUBSET Nat, 0 \in S, \A n \in S : n + 1 \in S
    PROVE  S = Nat
<1> SUFFICES ASSUME Nat \ S # {} PROVE FALSE
  OBVIOUS
<1>1. PICK n \in Nat \ S : \A m \in Nat \ S : n <= m
  BY LeastElement
<1>2. n - 1 \in Nat /\ n - 1 \notin Nat \ S
  BY <1>1
<1> QED
  BY <1>1, <1>2

-----------------------------------------------------------------------------
(* The chain of chunks *)

\* The equation that defines ChunkAt's function.
Chain(w, k, g) ==
    g = [i \in 0 .. k |-> IF i = 0 THEN FirstChunk ELSE w.chunks[g[i - 1]].next]

\* It has a solution, however long the chain.
LEMMA ChainExists ==
    ASSUME NEW w, NEW k \in Nat
    PROVE  \E g : Chain(w, k, g)
<1> DEFINE S == {n \in Nat : \E g : Chain(w, n, g)}
<1>1. 0 \in S
  <2>1. Chain(w, 0, [i \in 0 .. 0 |-> FirstChunk])
    BY DEF Chain
  <2> QED
    BY <2>1
<1>2. ASSUME NEW n \in S PROVE n + 1 \in S
  <2>1. PICK g : Chain(w, n, g)
    OBVIOUS
  <2> DEFINE h == [i \in 0 .. n + 1 |-> IF i = n + 1 THEN w.chunks[g[n]].next ELSE g[i]]
  <2>2. n \in Nat
    OBVIOUS
  <2>3. \A i \in 0 .. n : h[i] = g[i]
    BY <2>2
  <2>4. \A i \in 0 .. n + 1 : h[i] = IF i = 0 THEN FirstChunk ELSE w.chunks[h[i - 1]].next
    <3> SUFFICES ASSUME NEW i \in 0 .. n + 1
                 PROVE  h[i] = IF i = 0 THEN FirstChunk ELSE w.chunks[h[i - 1]].next
      OBVIOUS
    <3>1. CASE i = n + 1
      BY <2>2, <2>3, <3>1
    <3>2. CASE i \in 0 .. n
      <4>1. h[i] = g[i] /\ (i # 0 => h[i - 1] = g[i - 1])
        BY <2>2, <2>3, <3>2
      <4>2. g[i] = IF i = 0 THEN FirstChunk ELSE w.chunks[g[i - 1]].next
        BY <2>1, <3>2 DEF Chain
      <4> QED
        BY <4>1, <4>2
    <3> QED
      BY <2>2, <3>1, <3>2
  <2>5. h = [i \in 0 .. n + 1 |-> h[i]]
    OBVIOUS
  <2> HIDE DEF h
  <2>6. Chain(w, n + 1, h)
    BY <2>4, <2>5 DEF Chain
  <2> QED
    BY <2>2, <2>6
<1> HIDE DEF S
<1>3. S = Nat
  <2>1. S \in SUBSET Nat
    BY DEF S
  <2> QED
    BY <1>1, <1>2, <2>1, SetInduction
<1> QED
  BY <1>3 DEF S

\* Two solutions agree where both are defined.
LEMMA ChainUnique ==
    ASSUME NEW w, NEW k \in Nat, NEW m \in Nat, k <= m, NEW g, NEW h, Chain(w, k, g), Chain(w, m, h)
    PROVE  \A i \in 0 .. k : g[i] = h[i]
<1> DEFINE S == {n \in Nat : n <= k => g[n] = h[n]}
<1>1. 0 \in S
  BY DEF Chain
<1>2. ASSUME NEW n \in S PROVE n + 1 \in S
  BY <1>2 DEF Chain
<1> HIDE DEF S
<1>3. S = Nat
  <2>1. S \in SUBSET Nat
    BY DEF S
  <2> QED
    BY <1>1, <1>2, <2>1, SetInduction
<1> QED
  BY <1>3 DEF S

\* ChunkAt follows the links.
LEMMA ChunkAtStep ==
    ASSUME NEW w
    PROVE  /\ ChunkAt(w, 0) = FirstChunk
           /\ \A k \in Nat : ChunkAt(w, k + 1) = w.chunks[ChunkAt(w, k)].next
<1> DEFINE F(k) == CHOOSE g : Chain(w, k, g)
<1>1. \A k : ChunkAt(w, k) = F(k)[k]
  BY DEF ChunkAt, Chain
<1>2. \A k \in Nat : Chain(w, k, F(k))
  BY ChainExists
<1> HIDE DEF F
<1>3. ChunkAt(w, 0) = FirstChunk
  BY <1>1, <1>2 DEF Chain
<1>4. ASSUME NEW k \in Nat PROVE ChunkAt(w, k + 1) = w.chunks[ChunkAt(w, k)].next
  <2>1. F(k)[k] = F(k + 1)[k]
    BY <1>2, ChainUnique
  <2>2. F(k + 1)[k + 1] = w.chunks[F(k + 1)[k]].next
    <3>1. Chain(w, k + 1, F(k + 1)) /\ k + 1 \in 0 .. k + 1
      BY <1>2
    <3> QED
      BY <3>1 DEF Chain
  <2> QED
    BY <1>1, <2>1, <2>2
<1> QED
  BY <1>3, <1>4

\* Chunks whose links are the same are reached in the same way.
LEMMA ChunkFrame ==
    ASSUME NEW w, NEW v, NEW n \in Nat,
           \A k \in 0 .. n - 1 : v.chunks[ChunkAt(w, k)].next = w.chunks[ChunkAt(w, k)].next
    PROVE  \A k \in 0 .. n : ChunkAt(v, k) = ChunkAt(w, k)
<1> DEFINE S == {k \in Nat : k <= n => ChunkAt(v, k) = ChunkAt(w, k)}
<1>1. 0 \in S
  BY ChunkAtStep
<1>2. ASSUME NEW k \in S PROVE k + 1 \in S
  <2>1. k \in Nat
    OBVIOUS
  <2>2. /\ ChunkAt(w, k + 1) = w.chunks[ChunkAt(w, k)].next
        /\ ChunkAt(v, k + 1) = v.chunks[ChunkAt(v, k)].next
    BY <2>1, ChunkAtStep
  <2>3. k + 1 <= n => ChunkAt(v, k) = ChunkAt(w, k) /\ k \in 0 .. n - 1
    BY <2>1
  <2> QED
    BY <2>1, <2>2, <2>3
<1> HIDE DEF S
<1>3. S = Nat
  <2>1. S \in SUBSET Nat
    BY DEF S
  <2> QED
    BY <1>1, <1>2, <2>1, SetInduction
<1> QED
  BY <1>3 DEF S

-----------------------------------------------------------------------------
(* Division by the number of rows of a chunk *)

\* Quotient and remainder are what they should be.
LEMMA DivisionUnique ==
    ASSUME NEW q \in Nat, NEW p \in 0 .. ChunkRows - 1
    PROVE  /\ (q * ChunkRows + p) \div ChunkRows = q
           /\ (q * ChunkRows + p) % ChunkRows = p
  BY ChunkAssumption

\* Every number has them.
LEMMA Division ==
    ASSUME NEW n \in Nat
    PROVE  \E q \in Nat : \E p \in 0 .. ChunkRows - 1 :
              n = q * ChunkRows + p /\ n \div ChunkRows = q /\ n % ChunkRows = p
<1> DEFINE S == {m \in Nat : \E q \in Nat : \E p \in 0 .. ChunkRows - 1 : m = q * ChunkRows + p}
<1>1. 0 \in S
  <2>1. 0 \in 0 .. ChunkRows - 1 /\ 0 = 0 * ChunkRows + 0
    BY ChunkAssumption
  <2> QED
    BY <2>1
<1>2. ASSUME NEW m \in S PROVE m + 1 \in S
  <2>1. PICK q \in Nat, p \in 0 .. ChunkRows - 1 : m = q * ChunkRows + p
    OBVIOUS
  <2>2. CASE p + 1 < ChunkRows
    <3>1. p + 1 \in 0 .. ChunkRows - 1 /\ m + 1 = q * ChunkRows + (p + 1)
      BY <2>1, <2>2, ChunkAssumption
    <3> QED
      BY <3>1
  <2>3. CASE p + 1 = ChunkRows
    <3>1. q + 1 \in Nat /\ 0 \in 0 .. ChunkRows - 1 /\ m + 1 = (q + 1) * ChunkRows + 0
      BY <2>1, <2>3, ChunkAssumption
    <3> QED
      BY <3>1
  <2> QED
    BY <2>2, <2>3, ChunkAssumption
<1> HIDE DEF S
<1>3. S = Nat
  <2>1. S \in SUBSET Nat
    BY DEF S
  <2> QED
    BY <1>1, <1>2, <2>1, SetInduction
<1>4. PICK q \in Nat, p \in 0 .. ChunkRows - 1 : n = q * ChunkRows + p
  BY <1>3 DEF S
<1>5. n \div ChunkRows = q /\ n % ChunkRows = p
  BY <1>4, DivisionUnique
<1> QED
  BY <1>4, <1>5

\* The chunk and the slot of the next row: in the last chunk in use while that has a slot left,
\* and the first slot of a further chunk after that.
LEMMA NextSlot ==
    ASSUME NEW n \in Nat, NEW last, last = IF n = 0 THEN 0 ELSE (n - 1) \div ChunkRows
    PROVE  /\ last \in Nat /\ last * ChunkRows \in Nat /\ n - last * ChunkRows \in 0 .. ChunkRows
           /\ n - last * ChunkRows < ChunkRows
                 => n \div ChunkRows = last /\ n % ChunkRows = n - last * ChunkRows
           /\ n - last * ChunkRows = ChunkRows
                 => n \div ChunkRows = last + 1 /\ n % ChunkRows = 0
<1>1. CASE n = 0
  <2>1. last = 0 /\ last * ChunkRows = 0 /\ 0 \in 0 .. ChunkRows - 1
    BY <1>1, ChunkAssumption
  <2>2. 0 \div ChunkRows = 0 /\ 0 % ChunkRows = 0
    BY <2>1, DivisionUnique
  <2> QED
    BY <1>1, <2>1, <2>2, ChunkAssumption
<1>2. CASE n # 0
  <2>1. PICK p \in 0 .. ChunkRows - 1 : last \in Nat /\ n - 1 = last * ChunkRows + p
    <3>1. n - 1 \in Nat
      BY <1>2
    <3>2. PICK q \in Nat : \E p \in 0 .. ChunkRows - 1 :
             n - 1 = q * ChunkRows + p /\ (n - 1) \div ChunkRows = q
      BY <3>1, Division
    <3>3. last = q
      BY <1>2, <3>2
    <3> QED
      BY <3>2, <3>3
  <2>2. last * ChunkRows \in Nat /\ ChunkRows \in Nat /\ n = last * ChunkRows + (p + 1)
    BY <2>1, ChunkAssumption
  <2>3. n - last * ChunkRows = p + 1
    BY <2>2
  <2> DEFINE pos == n - last * ChunkRows
  <2> HIDE DEF pos
  <2>4. CASE p + 1 < ChunkRows
    <3>1. p + 1 \in 0 .. ChunkRows - 1
      BY <2>2, <2>4
    <3>2. n \div ChunkRows = last /\ n % ChunkRows = p + 1
      BY <2>1, <2>2, <3>1, DivisionUnique
    <3>3. pos = p + 1 /\ p + 1 \in 0 .. ChunkRows /\ p + 1 # ChunkRows
      BY <2>2, <2>3, <2>4, <3>1 DEF pos
    <3>4. pos \in 0 .. ChunkRows /\ pos # ChunkRows /\ n % ChunkRows = pos
      BY <3>2, <3>3, Zenon
    <3> QED
      BY <2>1, <2>2, <3>2, <3>4, Zenon DEF pos
  <2>5. CASE p + 1 = ChunkRows
    <3>1. n = (last + 1) * ChunkRows + 0 /\ 0 \in 0 .. ChunkRows - 1 /\ last + 1 \in Nat
      BY <2>1, <2>2, <2>5, ChunkAssumption
    <3>2. n \div ChunkRows = last + 1 /\ n % ChunkRows = 0
      BY <3>1, DivisionUnique
    <3>3. pos = ChunkRows /\ ChunkRows \in 0 .. ChunkRows /\ ~(ChunkRows < ChunkRows)
      BY <2>2, <2>3, <2>5 DEF pos
    <3>4. pos \in 0 .. ChunkRows /\ ~(pos < ChunkRows)
      BY <3>3, Zenon
    <3> QED
      BY <2>1, <2>2, <3>2, <3>4, Zenon DEF pos
  <2> QED
    BY <2>2, <2>4, <2>5
<1> QED
  BY <1>1, <1>2

\* Quotients grow with what is divided.
LEMMA DivisionMonotone ==
    ASSUME NEW m \in Nat, NEW n \in Nat, m <= n
    PROVE  m \div ChunkRows <= n \div ChunkRows
<1>1. PICK q \in Nat : \E p \in 0 .. ChunkRows - 1 :
        m = q * ChunkRows + p /\ m \div ChunkRows = q
  BY Division
<1>2. PICK r \in Nat : \E s \in 0 .. ChunkRows - 1 :
        n = r * ChunkRows + s /\ n \div ChunkRows = r
  BY Division
<1>3. PICK p \in 0 .. ChunkRows - 1, s \in 0 .. ChunkRows - 1 :
        m = q * ChunkRows + p /\ n = r * ChunkRows + s
  BY <1>1, <1>2
<1>4. ASSUME r + 1 <= q PROVE FALSE
  <2>1. (r + 1) * ChunkRows <= q * ChunkRows
    BY <1>4, ChunkAssumption
  <2>2. (r + 1) * ChunkRows = r * ChunkRows + ChunkRows
    BY ChunkAssumption
  <2> DEFINE a == r * ChunkRows
             b == q * ChunkRows
  <2>3. a \in Int /\ b \in Int /\ ChunkRows \in Int /\ m = b + p /\ n = a + s /\ a + ChunkRows <= b
    BY <1>3, <2>1, <2>2, ChunkAssumption
  <2> HIDE DEF a, b
  <2> QED
    BY <2>3
<1> QED
  BY <1>1, <1>2, <1>4

-----------------------------------------------------------------------------
(* A sound layout *)

\* The parts of the window one by one.
Header == [part |-> <<"header">>, lo |-> 0, hi |-> SizeOfHeader]

ChunkRegion(w, k) ==
    [part |-> <<"chunk", k>>, lo |-> ChunkAt(w, k), hi |-> ChunkAt(w, k) + SizeOfChunk]

DirRegion(w, r) ==
    [part |-> <<"dir", r>>, lo |-> getRowSlot(w, r),
     hi |-> getRowSlot(w, r) + w.numColumns * SizeOfFieldSlot]

BufferRegion(w, r, c) ==
    [part |-> <<"buffer", r, c>>, lo |-> FieldSlot(w, r, c).offset,
     hi |-> FieldSlot(w, r, c).offset + FieldSlot(w, r, c).size]

\* Regions has just those.
LEMMA RegionKinds ==
    ASSUME NEW w, NEW s
    PROVE  s \in Regions(w) <=>
              \/ s = Header
              \/ \E k \in 0 .. ChunksUsed(w) - 1 : s = ChunkRegion(w, k)
              \/ \E r \in 0 .. w.numRows - 1 : s = DirRegion(w, r)
              \/ \E r \in 0 .. w.numRows - 1 : \E c \in 0 .. w.numColumns - 1 :
                    s = BufferRegion(w, r, c)
<1> DEFINE Buffers == {[part |-> <<"buffer", rc[1], rc[2]>>, lo |-> FieldSlot(w, rc[1], rc[2]).offset,
               hi |-> FieldSlot(w, rc[1], rc[2]).offset + FieldSlot(w, rc[1], rc[2]).size] :
                 rc \in (0 .. w.numRows - 1) \X (0 .. w.numColumns - 1)}
<1>1. s \in Buffers <=>
        \E r \in 0 .. w.numRows - 1 : \E c \in 0 .. w.numColumns - 1 : s = BufferRegion(w, r, c)
  <2>1. ASSUME s \in Buffers
        PROVE  \E r \in 0 .. w.numRows - 1 : \E c \in 0 .. w.numColumns - 1 : s = BufferRegion(w, r, c)
    <3>1. PICK rc \in (0 .. w.numRows - 1) \X (0 .. w.numColumns - 1) :
             s = BufferRegion(w, rc[1], rc[2])
      BY <2>1 DEF BufferRegion
    <3>2. rc[1] \in 0 .. w.numRows - 1 /\ rc[2] \in 0 .. w.numColumns - 1
      OBVIOUS
    <3> QED
      BY <3>1, <3>2
  <2>2. ASSUME NEW r \in 0 .. w.numRows - 1, NEW c \in 0 .. w.numColumns - 1,
               s = BufferRegion(w, r, c)
        PROVE  s \in Buffers
    <3> DEFINE rc == <<r, c>>
    <3>1. rc \in (0 .. w.numRows - 1) \X (0 .. w.numColumns - 1) /\ rc[1] = r /\ rc[2] = c
      OBVIOUS
    <3>2. s = [part |-> <<"buffer", rc[1], rc[2]>>, lo |-> FieldSlot(w, rc[1], rc[2]).offset,
               hi |-> FieldSlot(w, rc[1], rc[2]).offset + FieldSlot(w, rc[1], rc[2]).size]
      BY <2>2, <3>1 DEF BufferRegion
    <3> HIDE DEF rc
    <3> QED
      BY <3>1, <3>2
  <2> QED
    BY <2>1, <2>2
<1>2. s \in {ChunkRegion(w, k) : k \in 0 .. ChunksUsed(w) - 1} <=>
        \E k \in 0 .. ChunksUsed(w) - 1 : s = ChunkRegion(w, k)
  OBVIOUS
<1>3. s \in {DirRegion(w, r) : r \in 0 .. w.numRows - 1} <=>
        \E r \in 0 .. w.numRows - 1 : s = DirRegion(w, r)
  OBVIOUS
<1>4. Regions(w) = {Header} \cup {ChunkRegion(w, k) : k \in 0 .. ChunksUsed(w) - 1}
                     \cup {DirRegion(w, r) : r \in 0 .. w.numRows - 1} \cup Buffers
  BY DEF Regions, Header, ChunkRegion, DirRegion
<1> HIDE DEF Buffers
<1> QED
  BY <1>1, <1>2, <1>3, <1>4

\* Parts that lie below an offset and apart from each other.
Sound(R, free) ==
    /\ \A s \in R : s.lo \in Nat /\ s.hi \in Nat
    /\ \A s \in R : s.lo < s.hi => s.hi <= free /\ (s.part[1] # "buffer" => s.lo % 4 = 0)
    /\ \A s, t \in R : s.lo < s.hi /\ t.lo < t.hi /\ s.part # t.part
                          => s.hi <= t.lo \/ t.hi <= s.lo

\* What is placed above all that is there is apart from it.
LEMMA SoundGrows ==
    ASSUME NEW R, NEW New, NEW Q, NEW free \in Nat, NEW free2 \in Nat, free <= free2,
           Sound(R, free), Sound(New, free2), \A s \in New : s.lo < s.hi => free <= s.lo,
           Q \subseteq R \cup New
    PROVE  Sound(Q, free2)
<1>1. \A s \in Q : s.lo \in Nat /\ s.hi \in Nat
  BY DEF Sound
<1>2. \A s \in Q : s.lo < s.hi => s.hi <= free2 /\ (s.part[1] # "buffer" => s.lo % 4 = 0)
  BY <1>1 DEF Sound
<1>3. ASSUME NEW s \in Q, NEW t \in Q, s.lo < s.hi, t.lo < t.hi, s.part # t.part
      PROVE  s.hi <= t.lo \/ t.hi <= s.lo
  <2>1. CASE s \in R /\ t \in R
    BY <1>3, <2>1 DEF Sound
  <2>2. CASE s \in New /\ t \in New
    BY <1>3, <2>2 DEF Sound
  <2>3. CASE s \in R /\ t \in New
    <3>1. s.hi <= free /\ free <= t.lo
      BY <1>3, <2>3 DEF Sound
    <3> QED
      BY <1>1, <3>1
  <2>4. CASE s \in New /\ t \in R
    <3>1. t.hi <= free /\ free <= s.lo
      BY <1>3, <2>4 DEF Sound
    <3> QED
      BY <1>1, <3>1
  <2> QED
    BY <2>1, <2>2, <2>3, <2>4
<1> QED
  BY <1>1, <1>2, <1>3 DEF Sound

\* Fewer parts are as sound.
LEMMA SoundSubset ==
    ASSUME NEW R, NEW Q, NEW free, Sound(R, free), Q \subseteq R
    PROVE  Sound(Q, free)
  BY DEF Sound

-----------------------------------------------------------------------------
(* The window's invariant *)

\* A window is a record with these fields.
Shape(w) ==
    /\ w = [size |-> w.size, freeOffset |-> w.freeOffset, numRows |-> w.numRows,
            numColumns |-> w.numColumns, chunks |-> w.chunks, dirs |-> w.dirs,
            buffers |-> w.buffers]
    /\ w.size \in Nat /\ w.freeOffset \in Nat /\ w.numRows \in Nat /\ w.numColumns \in Nat
    /\ w.freeOffset <= w.size

IsChunk(c) == c = [slots |-> c.slots, next |-> c.next] /\ c.slots \in [0 .. ChunkRows - 1 -> Nat]

\* The chunk that is reached by following k links is there.
HasChunk(w, k) == ChunkAt(w, k) \in DOMAIN w.chunks /\ IsChunk(w.chunks[ChunkAt(w, k)])

\* A field's buffer, if it has one, is there.
IsField(w, f) ==
    f.offset \in Nat /\ f.size \in Nat /\ (f.size # 0 => f.offset \in DOMAIN w.buffers)

\* The field directory at an offset is there.
HasDir(w, o) ==
    /\ o \in DOMAIN w.dirs
    /\ DOMAIN w.dirs[o] = 0 .. w.numColumns - 1
    /\ \A c \in 0 .. w.numColumns - 1 : IsField(w, w.dirs[o][c])

\* The chunks and the directories of the rows in the window are there, the chunks that are in
\* use linked from the first one, and all that is in use lies below the free offset, apart.
WindowInv(w) ==
    /\ Shape(w)
    /\ \A k \in 0 .. ChunksUsed(w) - 1 : HasChunk(w, k)
    /\ \A r \in 0 .. w.numRows - 1 : HasDir(w, getRowSlot(w, r))
    /\ Sound(Regions(w), w.freeOffset)

\* The number of chunks in use.
LEMMA ChunksUsedFacts ==
    ASSUME NEW w, w.numRows \in Nat
    PROVE  /\ ChunksUsed(w) \in Nat \ {0}
           /\ \A r \in 0 .. w.numRows - 1 : /\ r \div ChunkRows \in 0 .. ChunksUsed(w) - 1
                                           /\ r % ChunkRows \in 0 .. ChunkRows - 1
<1>1. ChunksUsed(w) \in Nat \ {0}
  <2>1. CASE w.numRows = 0
    BY <2>1 DEF ChunksUsed
  <2>2. CASE w.numRows # 0
    <3>1. w.numRows - 1 \in Nat
      BY <2>2
    <3>2. (w.numRows - 1) \div ChunkRows \in Nat
      BY <3>1, Division
    <3> QED
      BY <2>2, <3>2 DEF ChunksUsed
  <2> QED
    BY <2>1, <2>2
<1>2. ASSUME NEW r \in 0 .. w.numRows - 1
      PROVE  r \div ChunkRows \in 0 .. ChunksUsed(w) - 1 /\ r % ChunkRows \in 0 .. ChunkRows - 1
  <2>1. r \in Nat /\ w.numRows - 1 \in Nat /\ r <= w.numRows - 1 /\ w.numRows # 0
    OBVIOUS
  <2>2. /\ r \div ChunkRows \in Nat /\ r % ChunkRows \in 0 .. ChunkRows - 1
        /\ (w.numRows - 1) \div ChunkRows \in Nat
        /\ r \div ChunkRows <= (w.numRows - 1) \div ChunkRows
    BY <2>1, Division, DivisionMonotone
  <2>3. ChunksUsed(w) - 1 = (w.numRows - 1) \div ChunkRows
    BY <2>1, <2>2 DEF ChunksUsed
  <2> QED
    BY <2>2, <2>3
<1> QED
  BY <1>1, <1>2

\* The slot of a row holds an offset.
LEMMA SlotType ==
    ASSUME NEW w, WindowInv(w), NEW r \in 0 .. w.numRows - 1
    PROVE  getRowSlot(w, r) \in Nat
<1>1. r \div ChunkRows \in 0 .. ChunksUsed(w) - 1 /\ r % ChunkRows \in 0 .. ChunkRows - 1
  BY ChunksUsedFacts DEF WindowInv, Shape
<1>2. HasChunk(w, r \div ChunkRows)
  BY <1>1 DEF WindowInv
<1> QED
  BY <1>1, <1>2 DEF getRowSlot, HasChunk, IsChunk

\* alloc finds space above all that is in use.
LEMMA AllocEffect ==
    ASSUME NEW w, Shape(w), NEW size \in Nat, NEW aligned \in BOOLEAN, alloc(w, size, aligned) # 0
    PROVE  /\ alloc(w, size, aligned) \in Nat
           /\ w.freeOffset <= alloc(w, size, aligned)
           /\ alloc(w, size, aligned) + size <= w.size
           /\ aligned => alloc(w, size, aligned) % 4 = 0
<1>1. w.freeOffset \in Nat /\ w.size \in Nat
  BY DEF Shape
<1>2. Padding(w, aligned) \in 0 .. 3 /\ (aligned => (w.freeOffset + Padding(w, aligned)) % 4 = 0)
  <2>1. CASE aligned
    <3>1. ASSUME NEW f \in Nat PROVE (4 - (f % 4)) % 4 \in 0 .. 3 /\ (f + ((4 - (f % 4)) % 4)) % 4 = 0
      OBVIOUS
    <3> QED
      BY <1>1, <2>1, <3>1 DEF Padding
  <2>2. CASE ~aligned
    BY <2>2 DEF Padding
  <2> QED
    BY <2>1, <2>2
<1>3. /\ alloc(w, size, aligned) = w.freeOffset + Padding(w, aligned)
      /\ w.freeOffset + Padding(w, aligned) + size <= w.size
  BY <1>1, <1>2 DEF alloc
<1> QED
  BY <1>1, <1>2, <1>3

\* The window after clear(), with its columns set.
LEMMA ClearedWindow ==
    ASSUME NEW w, w.size \in Nat, SizeOfHeader + SizeOfChunk <= w.size, NEW n \in Nat
    PROVE  LET x == setNumColumns(clear(w), n) IN
           /\ WindowInv(x) /\ x.size = w.size /\ x.numRows = 0 /\ x.numColumns = n
           /\ x.chunks[FirstChunk].next = 0 /\ ChunksUsed(x) = 1
<1> DEFINE x == setNumColumns(clear(w), n)
<1>0. ChunkRows \in Nat \ {0} /\ SizeOfChunk \in Nat \ {0} /\ SizeOfHeader = 16 /\ FirstChunk = 16
      /\ SizeOfChunk = 4 * ChunkRows + 4
  BY ChunkAssumption DEF SizeOfChunk, SizeOfHeader, FirstChunk
<1>1. x = [size |-> w.size, freeOffset |-> SizeOfHeader + SizeOfChunk, numRows |-> 0,
           numColumns |-> n, chunks |-> [o \in {FirstChunk} |-> [slots |-> NoSlots, next |-> 0]],
           dirs |-> [o \in {} |-> NullField], buffers |-> [o \in {} |-> 0]]
  BY DEF setNumColumns, clear
<1>2. /\ x.size = w.size /\ x.freeOffset = SizeOfHeader + SizeOfChunk /\ x.numRows = 0
      /\ x.numColumns = n /\ x.chunks = [o \in {FirstChunk} |-> [slots |-> NoSlots, next |-> 0]]
  BY <1>1
<1>3. Shape(x)
  <2>1. x = [size |-> x.size, freeOffset |-> x.freeOffset, numRows |-> x.numRows,
             numColumns |-> x.numColumns, chunks |-> x.chunks, dirs |-> x.dirs,
             buffers |-> x.buffers]
    BY <1>1
  <2> QED
    BY <1>0, <1>2, <2>1 DEF Shape
<1> HIDE DEF x
<1>4. ChunksUsed(x) = 1
  BY <1>2 DEF ChunksUsed
<1>5. ChunkAt(x, 0) = FirstChunk
  BY ChunkAtStep
<1>6. HasChunk(x, 0) /\ x.chunks[FirstChunk].next = 0
  BY <1>0, <1>2, <1>5 DEF HasChunk, IsChunk, NoSlots
<1>7. Sound(Regions(x), x.freeOffset)
  <2>1. \A s \in Regions(x) : s = Header \/ s = ChunkRegion(x, 0)
    <3> SUFFICES ASSUME NEW s \in Regions(x) PROVE s = Header \/ s = ChunkRegion(x, 0)
      OBVIOUS
    <3>1. 0 .. x.numRows - 1 = {} /\ 0 .. ChunksUsed(x) - 1 = {0}
      BY <1>2, <1>4
    <3> QED
      BY <3>1, RegionKinds
  <2>2. /\ Header.lo = 0 /\ Header.hi = 16 /\ Header.part[1] = "header"
        /\ ChunkRegion(x, 0).lo = 16 /\ ChunkRegion(x, 0).hi = 16 + SizeOfChunk
    BY <1>0, <1>5 DEF Header, ChunkRegion
  <2>3. \A s \in Regions(x) : \/ s.lo = 0 /\ s.hi = 16 /\ s.part = Header.part
                              \/ s.lo = 16 /\ s.hi = 16 + SizeOfChunk
                                 /\ s.part = ChunkRegion(x, 0).part
    BY <2>1, <2>2
  <2>4. x.freeOffset = 16 + SizeOfChunk
    BY <1>0, <1>2
  <2>5. \A s \in Regions(x) : s.lo \in Nat /\ s.hi \in Nat
    BY <1>0, <2>3
  <2>6. \A s \in Regions(x) : s.lo < s.hi => s.hi <= x.freeOffset
                                           /\ (s.part[1] # "buffer" => s.lo % 4 = 0)
    BY <1>0, <2>3, <2>4
  <2>7. \A s, t \in Regions(x) : s.part # t.part => s.hi <= t.lo \/ t.hi <= s.lo
    BY <1>0, <2>3
  <2> QED
    BY <2>5, <2>6, <2>7 DEF Sound
<1>8. WindowInv(x)
  <2>1. 0 .. x.numRows - 1 = {} /\ \A k \in 0 .. ChunksUsed(x) - 1 : k = 0
    BY <1>2, <1>4
  <2>2. \A k \in 0 .. ChunksUsed(x) - 1 : HasChunk(x, k)
    BY <1>6, <2>1
  <2> QED
    BY <1>3, <1>7, <2>1, <2>2 DEF WindowInv
<1> QED
  BY <1>2, <1>4, <1>6, <1>8 DEF x

-----------------------------------------------------------------------------
(* Adding a row *)

\* No chunk is linked behind the last one in use.
NoSpare(w) == w.chunks[ChunkAt(w, ChunksUsed(w) - 1)].next = 0

\* The chunk the next row goes to is there, apart from the rest, and the last one linked.
Ready(w) ==
    LET q == w.numRows \div ChunkRows IN
    /\ HasChunk(w, q)
    /\ Sound(Regions(w) \cup {ChunkRegion(w, q)}, w.freeOffset)
    /\ w.chunks[ChunkAt(w, q)].next = 0

\* The window with a further row, whose directory is at offset d.
WithRow(w, d) ==
    [w EXCEPT !.numRows = @ + 1, !.freeOffset = d + w.numColumns * SizeOfFieldSlot,
              !.chunks = [@ EXCEPT ![ChunkAt(w, w.numRows \div ChunkRows)].slots
                                      [w.numRows % ChunkRows] = d],
              !.dirs = Placed(@, d, [c \in 0 .. w.numColumns - 1 |-> NullField])]

\* The next row's chunk is the last one in use or the one behind it.
LEMMA LastChunk ==
    ASSUME NEW n \in Nat, NEW last, last = IF n = 0 THEN 0 ELSE (n - 1) \div ChunkRows
    PROVE  last \in Nat /\ n \div ChunkRows \in {last, last + 1}
<1> DEFINE pos == n - last * ChunkRows
           q == n \div ChunkRows
<1>1. /\ last \in Nat /\ pos \in 0 .. ChunkRows
      /\ pos < ChunkRows => q = last
      /\ pos = ChunkRows => q = last + 1
  BY NextSlot
<1> HIDE DEF pos, q
<1>2. q \in {last, last + 1}
  BY <1>1, ChunkAssumption
<1> QED
  BY <1>1, <1>2 DEF q

\* Chunks are apart, so they are different.
LEMMA ChunksDiffer ==
    ASSUME NEW w, NEW R, NEW free, Sound(R, free), NEW k, NEW q, k # q,
           ChunkRegion(w, k) \in R, ChunkRegion(w, q) \in R
    PROVE  ChunkAt(w, k) # ChunkAt(w, q)
<1>1. /\ ChunkRegion(w, k).lo = ChunkAt(w, k) /\ ChunkRegion(w, k).hi = ChunkAt(w, k) + SizeOfChunk
      /\ ChunkRegion(w, q).lo = ChunkAt(w, q) /\ ChunkRegion(w, q).hi = ChunkAt(w, q) + SizeOfChunk
  BY DEF ChunkRegion
<1>2. ChunkRegion(w, k).part # ChunkRegion(w, q).part
  <2>1. ChunkRegion(w, k).part = <<"chunk", k>> /\ ChunkRegion(w, q).part = <<"chunk", q>>
    BY DEF ChunkRegion
  <2>2. <<"chunk", k>> # <<"chunk", q>>
    OBVIOUS
  <2> QED
    BY <2>1, <2>2
<1>3. ChunkAt(w, k) \in Nat /\ ChunkAt(w, q) \in Nat
  BY <1>1 DEF Sound
<1>4. SizeOfChunk \in Nat \ {0}
  BY ChunkAssumption DEF SizeOfChunk
<1> QED
  BY <1>1, <1>2, <1>3, <1>4 DEF Sound

\* Where the rows of the window with a further row are.
LEMMA WithRowSlots ==
    ASSUME NEW w, WindowInv(w), Ready(w), NEW d \in Nat
    PROVE  LET v == WithRow(w, d)
               q == w.numRows \div ChunkRows IN
           /\ v = [size |-> w.size, freeOffset |-> d + w.numColumns * SizeOfFieldSlot,
                   numRows |-> w.numRows + 1, numColumns |-> w.numColumns, chunks |-> v.chunks,
                   dirs |-> Placed(w.dirs, d, [c \in 0 .. w.numColumns - 1 |-> NullField]),
                   buffers |-> w.buffers]
           /\ \A k \in 0 .. q : ChunkAt(v, k) = ChunkAt(w, k) /\ HasChunk(v, k)
           /\ v.chunks[ChunkAt(v, q)].next = 0
           /\ ChunksUsed(v) = q + 1 /\ q \in 0 .. ChunksUsed(w)
           /\ \A r \in 0 .. w.numRows - 1 : getRowSlot(v, r) = getRowSlot(w, r)
           /\ getRowSlot(v, w.numRows) = d
<1> DEFINE v == WithRow(w, d)
           n == w.numRows
           q == n \div ChunkRows
           p == n % ChunkRows
           C == ChunkAt(w, q)
           x == w.chunks[C]
<1>0. Shape(w) /\ n \in Nat /\ ChunkRows \in Nat \ {0}
  BY ChunkAssumption DEF WindowInv, Shape
<1>1. q \in Nat /\ p \in 0 .. ChunkRows - 1
  BY <1>0, Division
<1>2. v = [size |-> w.size, freeOffset |-> d + w.numColumns * SizeOfFieldSlot,
           numRows |-> n + 1, numColumns |-> w.numColumns,
           chunks |-> [w.chunks EXCEPT ![C].slots[p] = d],
           dirs |-> Placed(w.dirs, d, [c \in 0 .. w.numColumns - 1 |-> NullField]),
           buffers |-> w.buffers]
  <2>1. PICK a1, a2, a3, a4, a5, a6, a7 :
          w = [size |-> a1, freeOffset |-> a2, numRows |-> a3, numColumns |-> a4,
               chunks |-> a5, dirs |-> a6, buffers |-> a7]
    BY <1>0 DEF Shape
  <2>2. /\ w.size = a1 /\ w.freeOffset = a2 /\ w.numRows = a3 /\ w.numColumns = a4
        /\ w.chunks = a5 /\ w.dirs = a6 /\ w.buffers = a7
    BY <2>1
  <2>3. v = [w EXCEPT !.numRows = a3 + 1, !.freeOffset = d + a4 * SizeOfFieldSlot,
                      !.chunks = [a5 EXCEPT ![C].slots[p] = d],
                      !.dirs = Placed(a6, d, [c \in 0 .. a4 - 1 |-> NullField])]
    BY <2>2 DEF WithRow
  <2> HIDE DEF C, p, v
  <2> QED
    BY <2>1, <2>2, <2>3
<1>3. HasChunk(w, q) /\ x.next = 0 /\ Sound(Regions(w) \cup {ChunkRegion(w, q)}, w.freeOffset)
  BY DEF Ready
<1>4. q \in 0 .. ChunksUsed(w) /\ ChunksUsed(w) \in Nat
  <2> DEFINE last == IF n = 0 THEN 0 ELSE (n - 1) \div ChunkRows
  <2>1. ChunksUsed(w) = last + 1
    BY DEF ChunksUsed
  <2>2. last = IF n = 0 THEN 0 ELSE (n - 1) \div ChunkRows
    OBVIOUS
  <2> HIDE DEF last
  <2>3. last \in Nat /\ q \in {last, last + 1}
    BY <1>0, <2>2, LastChunk
  <2> HIDE DEF q
  <2> QED
    BY <1>1, <2>1, <2>3
<1> HIDE DEF v, q, p, C, x
<1>5. v.numRows = n + 1 /\ v.chunks = [w.chunks EXCEPT ![C].slots[p] = d]
  BY <1>2
<1>6. /\ DOMAIN v.chunks = DOMAIN w.chunks
      /\ \A o \in DOMAIN w.chunks : o # C => v.chunks[o] = w.chunks[o]
      /\ v.chunks[C] = [slots |-> [x.slots EXCEPT ![p] = d], next |-> x.next]
  <2>1. C \in DOMAIN w.chunks /\ x = [slots |-> x.slots, next |-> x.next] /\ w.chunks[C] = x
    BY <1>3 DEF HasChunk, IsChunk, C, x
  <2>2. v.chunks[C] = [x EXCEPT !.slots[p] = d]
    BY <1>5, <2>1
  <2>3. [x EXCEPT !.slots[p] = d] = [slots |-> [x.slots EXCEPT ![p] = d], next |-> x.next]
    BY <2>1
  <2> QED
    BY <1>5, <2>1, <2>2, <2>3
<1>7. \A k \in 0 .. q : HasChunk(w, k)
  BY <1>1, <1>3, <1>4 DEF WindowInv
<1>8. \A k \in 0 .. q - 1 : ChunkAt(w, k) # C
  <2> SUFFICES ASSUME NEW k \in 0 .. q - 1 PROVE ChunkAt(w, k) # C
    OBVIOUS
  <2>1. k # q /\ k \in 0 .. ChunksUsed(w) - 1
    BY <1>1, <1>4
  <2>2. ChunkRegion(w, k) \in Regions(w)
    BY <2>1, RegionKinds
  <2> QED
    BY <1>3, <2>1, <2>2, ChunksDiffer DEF C
<1>9. \A k \in 0 .. q : ChunkAt(v, k) = ChunkAt(w, k)
  <2>1. \A k \in 0 .. q - 1 : v.chunks[ChunkAt(w, k)].next = w.chunks[ChunkAt(w, k)].next
    BY <1>1, <1>6, <1>7, <1>8 DEF HasChunk
  <2> QED
    BY <1>1, <2>1, ChunkFrame
<1>10. \A k \in 0 .. q : HasChunk(v, k)
  <2> SUFFICES ASSUME NEW k \in 0 .. q PROVE HasChunk(v, k)
    OBVIOUS
  <2>1. ChunkAt(v, k) = ChunkAt(w, k) /\ HasChunk(w, k)
    BY <1>7, <1>9
  <2>2. CASE k = q
    <3>1. [x.slots EXCEPT ![p] = d] \in [0 .. ChunkRows - 1 -> Nat]
      BY <1>3 DEF HasChunk, IsChunk, C, x
    <3>2. IsChunk(v.chunks[C])
      BY <1>6, <3>1 DEF IsChunk
    <3> QED
      BY <1>6, <2>1, <2>2, <3>2 DEF HasChunk, C
  <2>3. CASE k # q
    <3>1. ChunkAt(w, k) # C
      BY <1>1, <1>8, <2>3
    <3> QED
      BY <1>6, <2>1, <3>1 DEF HasChunk
  <2> QED
    BY <2>2, <2>3
<1>11. v.chunks[ChunkAt(v, q)].next = 0
  BY <1>1, <1>3, <1>6, <1>9 DEF C
<1>12. ChunksUsed(v) = q + 1
  <2>1. v.numRows # 0 /\ v.numRows - 1 = n
    BY <1>0, <1>5
  <2> QED
    BY <2>1 DEF ChunksUsed, q
<1>13. getRowSlot(v, n) = d
  <2>1. getRowSlot(v, n) = v.chunks[ChunkAt(v, q)].slots[p]
    BY DEF getRowSlot, q, p
  <2>2. x.slots \in [0 .. ChunkRows - 1 -> Nat]
    BY <1>3 DEF HasChunk, IsChunk, C, x
  <2>3. ChunkAt(v, q) = C
    BY <1>1, <1>9 DEF C
  <2>4. [x.slots EXCEPT ![p] = d][p] = d
    BY <1>1, <2>2
  <2>5. v.chunks[C].slots = [x.slots EXCEPT ![p] = d]
    BY <1>6
  <2> QED
    BY <2>1, <2>3, <2>4, <2>5
<1>14. ASSUME NEW r \in 0 .. n - 1 PROVE getRowSlot(v, r) = getRowSlot(w, r)
  <2> DEFINE k == r \div ChunkRows
             s == r % ChunkRows
  <2>1. /\ getRowSlot(v, r) = v.chunks[ChunkAt(v, k)].slots[s]
        /\ getRowSlot(w, r) = w.chunks[ChunkAt(w, k)].slots[s]
    BY DEF getRowSlot
  <2>2. k \in 0 .. q
    <3>1. r \in Nat /\ r <= n
      BY <1>0
    <3>2. k \in Nat /\ k <= q
      BY <1>0, <3>1, Division, DivisionMonotone DEF q
    <3> QED
      BY <1>1, <3>2
  <2>3. s \in 0 .. ChunkRows - 1
    BY <1>0, Division
  <2>4. k = q => s # p
    <3> SUFFICES ASSUME k = q, s = p PROVE FALSE
      OBVIOUS
    <3>1. \E a \in Nat : \E b \in 0 .. ChunkRows - 1 :
             r = a * ChunkRows + b /\ k = a /\ s = b
      BY <1>0, Division
    <3>2. \E a \in Nat : \E b \in 0 .. ChunkRows - 1 :
             n = a * ChunkRows + b /\ q = a /\ p = b
      BY <1>0, Division DEF q, p
    <3>3. r = n
      BY <3>1, <3>2
    <3> QED
      BY <1>0, <3>3
  <2> HIDE DEF k, s
  <2>5. CASE k = q
    <3>1. x.slots \in [0 .. ChunkRows - 1 -> Nat]
      BY <1>3 DEF HasChunk, IsChunk, C, x
    <3>2. v.chunks[C].slots[s] = x.slots[s]
      BY <1>6, <2>3, <2>4, <2>5, <3>1
    <3> QED
      BY <1>9, <2>1, <2>2, <2>5, <3>2 DEF C, x
  <2>6. CASE k # q
    <3>1. ChunkAt(w, k) # C /\ HasChunk(w, k)
      BY <1>1, <1>7, <1>8, <2>2, <2>6
    <3> QED
      BY <1>6, <1>9, <2>1, <2>2, <3>1 DEF HasChunk
  <2> QED
    BY <2>5, <2>6
<1>15. v = [size |-> w.size, freeOffset |-> d + w.numColumns * SizeOfFieldSlot,
            numRows |-> n + 1, numColumns |-> w.numColumns, chunks |-> v.chunks,
            dirs |-> Placed(w.dirs, d, [c \in 0 .. w.numColumns - 1 |-> NullField]),
            buffers |-> w.buffers]
  BY <1>2
<1> QED
  BY <1>4, <1>9, <1>10, <1>11, <1>12, <1>13, <1>14, <1>15 DEF v, q

\* The window with a further row keeps its invariant and the fields of its rows.
LEMMA WithRowInv ==
    ASSUME NEW w, WindowInv(w), Ready(w), NEW d \in Nat, d % 4 = 0, w.freeOffset <= d,
           d + w.numColumns * SizeOfFieldSlot <= w.size
    PROVE  LET v == WithRow(w, d) IN
           /\ WindowInv(v) /\ NoSpare(v)
           /\ v.size = w.size /\ v.numColumns = w.numColumns /\ v.numRows = w.numRows + 1
           /\ v.buffers = w.buffers /\ v.freeOffset = d + w.numColumns * SizeOfFieldSlot
           /\ \A r \in 0 .. w.numRows - 1 : \A c \in 0 .. w.numColumns - 1 :
                 FieldSlot(v, r, c) = FieldSlot(w, r, c)
           /\ \A c \in 0 .. w.numColumns - 1 : FieldSlot(v, w.numRows, c) = NullField
<1> DEFINE v == WithRow(w, d)
           n == w.numRows
           m == w.numColumns
           q == n \div ChunkRows
           nulls == [c \in 0 .. m - 1 |-> NullField]
           bytes == m * SizeOfFieldSlot
<1>0. /\ Shape(w) /\ n \in Nat /\ m \in Nat /\ w.size \in Nat /\ w.freeOffset \in Nat
      /\ bytes \in Nat /\ (m # 0 => bytes > 0) /\ (m = 0 => bytes = 0)
  BY DEF WindowInv, Shape, SizeOfFieldSlot
<1>1. /\ v = [size |-> w.size, freeOffset |-> d + bytes,
              numRows |-> n + 1, numColumns |-> m, chunks |-> v.chunks,
              dirs |-> Placed(w.dirs, d, nulls), buffers |-> w.buffers]
      /\ \A k \in 0 .. q : ChunkAt(v, k) = ChunkAt(w, k) /\ HasChunk(v, k)
      /\ v.chunks[ChunkAt(v, q)].next = 0
      /\ ChunksUsed(v) = q + 1 /\ q \in 0 .. ChunksUsed(w)
      /\ \A r \in 0 .. n - 1 : getRowSlot(v, r) = getRowSlot(w, r)
      /\ getRowSlot(v, n) = d
  BY WithRowSlots
<1>2. q \in Nat
  BY <1>0, Division
<1> HIDE DEF v, q, bytes, nulls
<1>3. /\ v.size = w.size /\ v.freeOffset = d + bytes /\ v.numRows = n + 1 /\ v.numColumns = m
      /\ v.dirs = Placed(w.dirs, d, nulls) /\ v.buffers = w.buffers
  BY <1>1
<1>4. Shape(v)
  <2>1. v = [size |-> v.size, freeOffset |-> v.freeOffset, numRows |-> v.numRows,
             numColumns |-> v.numColumns, chunks |-> v.chunks, dirs |-> v.dirs,
             buffers |-> v.buffers]
    BY <1>1, <1>3
  <2>2. v.freeOffset <= v.size
    BY <1>3 DEF bytes
  <2> QED
    BY <1>0, <1>3, <2>1, <2>2 DEF Shape
<1>5. NoSpare(v)
  BY <1>1, <1>2 DEF NoSpare
<1>6. \A k \in 0 .. ChunksUsed(v) - 1 : HasChunk(v, k)
  BY <1>1, <1>2
<1>7. /\ DOMAIN v.dirs = DOMAIN w.dirs \cup {d} /\ v.dirs[d] = nulls
      /\ \A o \in DOMAIN w.dirs : o # d => v.dirs[o] = w.dirs[o]
  BY <1>3 DEF Placed
<1>8. HasDir(v, d)
  <2>1. DOMAIN nulls = 0 .. m - 1 /\ \A c \in 0 .. m - 1 : nulls[c] = NullField
    BY DEF nulls
  <2>2. IsField(v, NullField)
    BY DEF IsField, NullField
  <2> QED
    BY <1>3, <1>7, <2>1, <2>2 DEF HasDir
<1>9. \A r \in 0 .. n - 1 : HasDir(v, getRowSlot(w, r))
  <2> SUFFICES ASSUME NEW r \in 0 .. n - 1, getRowSlot(w, r) # d PROVE HasDir(v, getRowSlot(w, r))
    BY <1>8
  <2>1. HasDir(w, getRowSlot(w, r))
    BY DEF WindowInv
  <2> QED
    BY <1>3, <1>7, <2>1 DEF HasDir, IsField
<1>10. \A r \in 0 .. v.numRows - 1 : HasDir(v, getRowSlot(v, r))
  <2> SUFFICES ASSUME NEW r \in 0 .. v.numRows - 1 PROVE HasDir(v, getRowSlot(v, r))
    OBVIOUS
  <2>1. r = n \/ r \in 0 .. n - 1
    BY <1>0, <1>3
  <2> QED
    BY <1>1, <1>8, <1>9, <2>1
<1>11. ASSUME NEW r \in 0 .. n - 1, NEW c \in 0 .. m - 1
       PROVE  FieldSlot(v, r, c) = FieldSlot(w, r, c)
  <2>1. getRowSlot(v, r) = getRowSlot(w, r) /\ HasDir(w, getRowSlot(w, r)) /\ getRowSlot(w, r) \in Nat
    BY <1>1, SlotType DEF WindowInv
  <2>2. getRowSlot(w, r) + bytes <= w.freeOffset
    <3>1. DirRegion(w, r) \in Regions(w)
      BY RegionKinds
    <3>2. DirRegion(w, r).lo = getRowSlot(w, r) /\ DirRegion(w, r).hi = getRowSlot(w, r) + bytes
      BY DEF DirRegion, bytes
    <3>3. bytes > 0
      BY <1>0
    <3> QED
      BY <1>0, <2>1, <3>1, <3>2, <3>3 DEF WindowInv, Sound
  <2>3. getRowSlot(w, r) # d
    BY <1>0, <2>1, <2>2
  <2> QED
    BY <1>7, <2>1, <2>3 DEF FieldSlot, HasDir
<1>12. ASSUME NEW c \in 0 .. m - 1 PROVE FieldSlot(v, n, c) = NullField
  BY <1>1, <1>7 DEF FieldSlot, nulls
<1>13. Sound(Regions(v), v.freeOffset)
  <2> DEFINE New == {DirRegion(v, n)} \cup {BufferRegion(v, n, c) : c \in 0 .. m - 1}
             R == Regions(w) \cup {ChunkRegion(w, q)}
  <2>1. Sound(R, w.freeOffset)
    BY DEF Ready, q
  <2>2. /\ DirRegion(v, n).lo = d /\ DirRegion(v, n).hi = d + bytes
    BY <1>1, <1>3 DEF DirRegion, bytes
  <2>3. \A c \in 0 .. m - 1 : BufferRegion(v, n, c).lo = 0 /\ BufferRegion(v, n, c).hi = 0
    BY <1>12 DEF BufferRegion, NullField
  <2>4. \A s \in New : \/ s = DirRegion(v, n)
                       \/ s.lo = 0 /\ s.hi = 0
    BY <2>3
  <2> HIDE DEF New
  <2>5. Sound(New, v.freeOffset)
    <3>1. \A s \in New : s.lo \in Nat /\ s.hi \in Nat
      BY <1>0, <2>2, <2>4
    <3>2. \A s \in New : s.lo < s.hi => s = DirRegion(v, n)
      BY <2>4
    <3>3. d + bytes <= v.freeOffset /\ d % 4 = 0
      BY <1>0, <1>3
    <3> QED
      BY <2>2, <3>1, <3>2, <3>3 DEF Sound
  <2>6. \A s \in New : s.lo < s.hi => w.freeOffset <= s.lo
    BY <2>2, <2>4
  <2>7. Regions(v) \subseteq R \cup New
    <3> SUFFICES ASSUME NEW s \in Regions(v) PROVE s \in R \cup New
      OBVIOUS
    <3>1. CASE s = Header
      BY <3>1, RegionKinds
    <3>2. ASSUME NEW k \in 0 .. ChunksUsed(v) - 1, s = ChunkRegion(v, k) PROVE s \in R
      <4>1. k \in 0 .. q
        BY <1>1, <1>2
      <4>2. s = ChunkRegion(w, k)
        BY <1>1, <3>2, <4>1 DEF ChunkRegion
      <4>3. k = q \/ k \in 0 .. ChunksUsed(w) - 1
        BY <1>1, <1>2, <4>1, ChunksUsedFacts, <1>0
      <4> QED
        BY <4>2, <4>3, RegionKinds
    <3>3. ASSUME NEW r \in 0 .. v.numRows - 1, s = DirRegion(v, r) PROVE s \in R \cup New
      <4>1. CASE r = n
        BY <3>3, <4>1 DEF New
      <4>2. CASE r \in 0 .. n - 1
        <5>1. s = DirRegion(w, r)
          BY <1>1, <1>3, <3>3, <4>2 DEF DirRegion
        <5> QED
          BY <4>2, <5>1, RegionKinds
      <4> QED
        BY <1>0, <1>3, <4>1, <4>2
    <3>4. ASSUME NEW r \in 0 .. v.numRows - 1, NEW c \in 0 .. v.numColumns - 1,
                 s = BufferRegion(v, r, c)
          PROVE  s \in R \cup New
      <4>1. CASE r = n
        BY <1>3, <3>4, <4>1 DEF New
      <4>2. CASE r \in 0 .. n - 1
        <5>1. s = BufferRegion(w, r, c) /\ c \in 0 .. m - 1
          BY <1>3, <1>11, <3>4, <4>2 DEF BufferRegion
        <5> QED
          BY <4>2, <5>1, RegionKinds
      <4> QED
        BY <1>0, <1>3, <4>1, <4>2
    <3> QED
      BY <3>1, <3>2, <3>3, <3>4, RegionKinds
  <2> HIDE DEF R
  <2>8. w.freeOffset <= v.freeOffset /\ v.freeOffset \in Nat
    <3>1. w.freeOffset \in Nat /\ bytes \in Nat /\ v.freeOffset = d + bytes
      BY <1>0, <1>3
    <3> QED
      BY <3>1
  <2> QED
    BY <1>0, <2>1, <2>5, <2>6, <2>7, <2>8, SoundGrows
<1>14. WindowInv(v)
  BY <1>4, <1>6, <1>10, <1>13 DEF WindowInv
<1> QED
  BY <1>3, <1>5, <1>11, <1>12, <1>14 DEF v, bytes

\* A window without a spare chunk whose last chunk has a slot left is ready for a row.
LEMMA ReadyAtOnce ==
    ASSUME NEW w, WindowInv(w), NoSpare(w), w.numRows \div ChunkRows = ChunksUsed(w) - 1
    PROVE  Ready(w)
<1> DEFINE q == w.numRows \div ChunkRows
<1>1. ChunksUsed(w) \in Nat \ {0}
  BY ChunksUsedFacts DEF WindowInv, Shape
<1>2. q \in 0 .. ChunksUsed(w) - 1 /\ q = ChunksUsed(w) - 1
  BY <1>1
<1> HIDE DEF q
<1>3. HasChunk(w, q) /\ Sound(Regions(w), w.freeOffset)
  BY <1>2 DEF WindowInv
<1>4. ChunkRegion(w, q) \in Regions(w)
  BY <1>2, RegionKinds
<1>5. Regions(w) \cup {ChunkRegion(w, q)} = Regions(w)
  BY <1>4
<1>6. w.chunks[ChunkAt(w, q)].next = 0
  BY <1>2 DEF NoSpare
<1> QED
  BY <1>3, <1>5, <1>6 DEF Ready, q

\* The window with a further chunk of slots, at offset o, behind those in use.
WithChunk(w, o) ==
    [w EXCEPT !.freeOffset = o + SizeOfChunk,
              !.chunks = Placed([@ EXCEPT ![ChunkAt(w, ChunksUsed(w) - 1)].next = o],
                                o, [slots |-> NoSlots, next |-> 0])]

\* The window with a further chunk is ready for a row.
LEMMA WithChunkInv ==
    ASSUME NEW w, WindowInv(w), NoSpare(w), w.numRows \div ChunkRows = ChunksUsed(w),
           NEW o \in Nat, o % 4 = 0, w.freeOffset <= o, o + SizeOfChunk <= w.size
    PROVE  LET x == WithChunk(w, o) IN
           /\ WindowInv(x) /\ Ready(x) /\ ChunkAt(x, w.numRows \div ChunkRows) = o
           /\ x = [size |-> w.size, freeOffset |-> o + SizeOfChunk, numRows |-> w.numRows,
                   numColumns |-> w.numColumns, chunks |-> x.chunks, dirs |-> w.dirs,
                   buffers |-> w.buffers]
           /\ \A r \in 0 .. w.numRows - 1 : \A c : FieldSlot(x, r, c) = FieldSlot(w, r, c)
<1> DEFINE x == WithChunk(w, o)
           q == w.numRows \div ChunkRows
           l == ChunksUsed(w) - 1
           C == ChunkAt(w, l)
           y == w.chunks[C]
           fresh == [slots |-> NoSlots, next |-> 0]
<1>0. /\ Shape(w) /\ w.numRows \in Nat /\ w.freeOffset \in Nat /\ w.size \in Nat
      /\ w.numColumns \in Nat
  BY DEF WindowInv, Shape
<1>1. l \in Nat /\ q = l + 1 /\ q \in Nat /\ ChunksUsed(w) = l + 1
  <2>1. ChunksUsed(w) \in Nat \ {0}
    BY <1>0, ChunksUsedFacts
  <2>2. q = ChunksUsed(w)
    OBVIOUS
  <2> HIDE DEF q
  <2> QED
    BY <2>1, <2>2
<1>2. SizeOfChunk \in Nat \ {0} /\ ChunkRows \in Nat \ {0}
  BY ChunkAssumption DEF SizeOfChunk
<1>3. /\ x = [size |-> w.size, freeOffset |-> o + SizeOfChunk, numRows |-> w.numRows,
              numColumns |-> w.numColumns,
              chunks |-> Placed([w.chunks EXCEPT ![C].next = o], o, fresh),
              dirs |-> w.dirs, buffers |-> w.buffers]
  <2>1. PICK a1, a2, a3, a4, a5, a6, a7 :
          w = [size |-> a1, freeOffset |-> a2, numRows |-> a3, numColumns |-> a4,
               chunks |-> a5, dirs |-> a6, buffers |-> a7]
    BY <1>0 DEF Shape
  <2>2. /\ w.size = a1 /\ w.freeOffset = a2 /\ w.numRows = a3 /\ w.numColumns = a4
        /\ w.chunks = a5 /\ w.dirs = a6 /\ w.buffers = a7
    BY <2>1
  <2>3. x = [w EXCEPT !.freeOffset = o + SizeOfChunk,
                      !.chunks = Placed([a5 EXCEPT ![C].next = o], o, fresh)]
    BY <2>2 DEF WithChunk
  <2> HIDE DEF C, x, fresh
  <2> QED
    BY <2>1, <2>2, <2>3
<1> HIDE DEF x, q, l, fresh
<1>4. /\ x.size = w.size /\ x.freeOffset = o + SizeOfChunk /\ x.numRows = w.numRows
      /\ x.numColumns = w.numColumns /\ x.dirs = w.dirs /\ x.buffers = w.buffers
      /\ x.chunks = Placed([w.chunks EXCEPT ![C].next = o], o, fresh)
  BY <1>3
<1>5. x = [size |-> w.size, freeOffset |-> o + SizeOfChunk, numRows |-> w.numRows,
           numColumns |-> w.numColumns, chunks |-> x.chunks, dirs |-> w.dirs,
           buffers |-> w.buffers]
  BY <1>3, <1>4
<1>6. \A k \in 0 .. l : HasChunk(w, k) /\ ChunkRegion(w, k) \in Regions(w)
  BY <1>1, RegionKinds DEF WindowInv
<1>7. \A k \in 0 .. l : ChunkAt(w, k) \in Nat /\ ChunkAt(w, k) + SizeOfChunk <= w.freeOffset
  <2> SUFFICES ASSUME NEW k \in 0 .. l
               PROVE  ChunkAt(w, k) \in Nat /\ ChunkAt(w, k) + SizeOfChunk <= w.freeOffset
    OBVIOUS
  <2>1. ChunkRegion(w, k).lo = ChunkAt(w, k) /\ ChunkRegion(w, k).hi = ChunkAt(w, k) + SizeOfChunk
    BY DEF ChunkRegion
  <2>2. ChunkAt(w, k) \in Nat
    BY <1>6, <2>1 DEF WindowInv, Sound
  <2> QED
    BY <1>2, <1>6, <2>1, <2>2 DEF WindowInv, Sound
<1>8. \A k \in 0 .. l : ChunkAt(w, k) # o
  <2> SUFFICES ASSUME NEW k \in 0 .. l, ChunkAt(w, k) = o PROVE FALSE
    OBVIOUS
  <2> QED
    BY <1>0, <1>2, <1>7
<1>9. \A k \in 0 .. l - 1 : ChunkAt(w, k) # C
  <2> SUFFICES ASSUME NEW k \in 0 .. l - 1 PROVE ChunkAt(w, k) # C
    OBVIOUS
  <2>1. k # l /\ k \in 0 .. l /\ l \in 0 .. l
    BY <1>1
  <2> QED
    BY <1>6, <2>1, ChunksDiffer DEF WindowInv
<1>10. /\ HasChunk(w, l) /\ C # o /\ C \in DOMAIN w.chunks /\ IsChunk(y)
  <2>1. l \in 0 .. l
    BY <1>1
  <2> QED
    BY <1>6, <1>8, <2>1 DEF HasChunk
<1> HIDE DEF C, y
<1>11. /\ DOMAIN x.chunks = DOMAIN w.chunks \cup {o}
       /\ x.chunks[o] = fresh
       /\ \A k \in DOMAIN w.chunks : k # C /\ k # o => x.chunks[k] = w.chunks[k]
       /\ x.chunks[C] = [slots |-> y.slots, next |-> o]
  <2>1. y = [slots |-> y.slots, next |-> y.next] /\ w.chunks[C] = y
    BY <1>10 DEF IsChunk, y
  <2>2. x.chunks[C] = [y EXCEPT !.next = o]
    BY <1>4, <1>10, <2>1 DEF Placed
  <2>3. [y EXCEPT !.next = o] = [slots |-> y.slots, next |-> o]
    BY <2>1
  <2> QED
    BY <1>4, <2>2, <2>3 DEF Placed
<1>12. \A k \in 0 .. l : ChunkAt(x, k) = ChunkAt(w, k)
  <2>1. \A k \in 0 .. l - 1 : x.chunks[ChunkAt(w, k)].next = w.chunks[ChunkAt(w, k)].next
    BY <1>1, <1>6, <1>8, <1>9, <1>11 DEF HasChunk
  <2> QED
    BY <1>1, <2>1, ChunkFrame
<1>13. ChunkAt(x, q) = o
  <2>1. ChunkAt(x, q) = x.chunks[ChunkAt(x, l)].next
    BY <1>1, ChunkAtStep
  <2>2. ChunkAt(x, l) = C
    BY <1>1, <1>12 DEF C
  <2> QED
    BY <1>11, <2>1, <2>2
<1>14. \A k \in 0 .. l : /\ HasChunk(x, k)
                         /\ x.chunks[ChunkAt(x, k)].slots = w.chunks[ChunkAt(w, k)].slots
  <2> SUFFICES ASSUME NEW k \in 0 .. l
               PROVE  /\ HasChunk(x, k)
                      /\ x.chunks[ChunkAt(x, k)].slots = w.chunks[ChunkAt(w, k)].slots
    OBVIOUS
  <2>1. ChunkAt(x, k) = ChunkAt(w, k) /\ HasChunk(w, k) /\ ChunkAt(w, k) # o
    BY <1>6, <1>8, <1>12
  <2>2. CASE ChunkAt(w, k) = C
    <3>1. IsChunk([slots |-> y.slots, next |-> o])
      BY <1>10 DEF IsChunk
    <3> QED
      BY <1>10, <1>11, <2>1, <2>2, <3>1 DEF HasChunk, y
  <2>3. CASE ChunkAt(w, k) # C
    BY <1>11, <2>1, <2>3 DEF HasChunk
  <2> QED
    BY <2>2, <2>3
<1>15. HasChunk(x, q) /\ x.chunks[ChunkAt(x, q)].next = 0
  BY <1>2, <1>11, <1>13 DEF HasChunk, IsChunk, fresh, NoSlots
<1>16. \A r \in 0 .. w.numRows - 1 : getRowSlot(x, r) = getRowSlot(w, r)
  <2> SUFFICES ASSUME NEW r \in 0 .. w.numRows - 1 PROVE getRowSlot(x, r) = getRowSlot(w, r)
    OBVIOUS
  <2>1. r \div ChunkRows \in 0 .. l
    BY <1>0, <1>1, ChunksUsedFacts
  <2> QED
    BY <1>14, <2>1 DEF getRowSlot
<1>17. \A r \in 0 .. w.numRows - 1 : \A c : FieldSlot(x, r, c) = FieldSlot(w, r, c)
  BY <1>4, <1>16 DEF FieldSlot
<1>18. ChunksUsed(x) = ChunksUsed(w)
  BY <1>4 DEF ChunksUsed
<1>19. Regions(x) = Regions(w)
  <2>1. \A k \in 0 .. l : ChunkRegion(x, k) = ChunkRegion(w, k)
    BY <1>12 DEF ChunkRegion
  <2>2. \A r \in 0 .. w.numRows - 1 : DirRegion(x, r) = DirRegion(w, r)
    BY <1>4, <1>16 DEF DirRegion
  <2>3. \A r \in 0 .. w.numRows - 1 : \A c : BufferRegion(x, r, c) = BufferRegion(w, r, c)
    BY <1>17 DEF BufferRegion
  <2>4. ChunksUsed(w) - 1 = l
    BY <1>1
  <2>5. ASSUME NEW s PROVE s \in Regions(x) <=> s \in Regions(w)
    <3>1. s \in Regions(x) <=>
            \/ s = Header
            \/ \E k \in 0 .. l : s = ChunkRegion(x, k)
            \/ \E r \in 0 .. w.numRows - 1 : s = DirRegion(x, r)
            \/ \E r \in 0 .. w.numRows - 1 : \E c \in 0 .. w.numColumns - 1 :
                  s = BufferRegion(x, r, c)
      BY <1>4, <1>18, <2>4, RegionKinds
    <3>2. s \in Regions(w) <=>
            \/ s = Header
            \/ \E k \in 0 .. l : s = ChunkRegion(w, k)
            \/ \E r \in 0 .. w.numRows - 1 : s = DirRegion(w, r)
            \/ \E r \in 0 .. w.numRows - 1 : \E c \in 0 .. w.numColumns - 1 :
                  s = BufferRegion(w, r, c)
      BY <2>4, RegionKinds
    <3> QED
      BY <2>1, <2>2, <2>3, <3>1, <3>2
  <2> QED
    BY <2>5
<1>20. Sound(Regions(x), x.freeOffset) /\ Sound(Regions(x) \cup {ChunkRegion(x, q)}, x.freeOffset)
  <2> DEFINE New == {ChunkRegion(x, q)}
  <2>1. ChunkRegion(x, q).lo = o /\ ChunkRegion(x, q).hi = o + SizeOfChunk
    BY <1>13 DEF ChunkRegion
  <2>2. o + SizeOfChunk \in Nat /\ w.freeOffset <= o + SizeOfChunk
    BY <1>0, <1>2
  <2>3. Sound(New, o + SizeOfChunk)
    BY <1>2, <2>1, <2>2 DEF Sound
  <2>4. \A s \in New : s.lo < s.hi => w.freeOffset <= s.lo
    BY <2>1
  <2>5. Sound(Regions(x), w.freeOffset)
    BY <1>19 DEF WindowInv
  <2> HIDE DEF New
  <2>6. Sound(Regions(x) \cup New, o + SizeOfChunk)
    BY <1>0, <2>2, <2>3, <2>4, <2>5, SoundGrows
  <2>7. Sound(Regions(x), o + SizeOfChunk)
    BY <2>6, SoundSubset
  <2> QED
    BY <1>4, <2>6, <2>7 DEF New
<1>21. Shape(x)
  <2>1. x.freeOffset \in Nat /\ x.freeOffset <= x.size
    BY <1>2, <1>4
  <2> QED
    BY <1>0, <1>4, <1>5, <2>1 DEF Shape
<1>22. WindowInv(x)
  <2>1. \A k \in 0 .. ChunksUsed(x) - 1 : HasChunk(x, k)
    BY <1>1, <1>14, <1>18
  <2>2. \A r \in 0 .. x.numRows - 1 : HasDir(x, getRowSlot(x, r))
    <3> SUFFICES ASSUME NEW r \in 0 .. w.numRows - 1 PROVE HasDir(x, getRowSlot(w, r))
      BY <1>4, <1>16
    <3>1. HasDir(w, getRowSlot(w, r))
      BY DEF WindowInv
    <3> QED
      BY <1>4, <3>1 DEF HasDir, IsField
  <2> QED
    BY <1>20, <1>21, <2>1, <2>2 DEF WindowInv
<1>23. Ready(x)
  BY <1>4, <1>15, <1>20 DEF Ready, q
<1> QED
  BY <1>5, <1>13, <1>17, <1>22, <1>23 DEF x, q

\* What allocRow does with a window that is ready for a row.
PlaceRow(x) ==
    LET dir == alloc(x, x.numColumns * SizeOfFieldSlot, TRUE) IN
    IF dir = 0 THEN [ok |-> FALSE, w |-> x] ELSE [ok |-> TRUE, w |-> WithRow(x, dir)]

\* allocRow with the slot that was found for the row.
LEMMA AllocRowPlaces ==
    ASSUME NEW w, NEW x, Shape(x), x.numColumns = w.numColumns,
           allocRowSlot(w) = [ok |-> TRUE, chunk |-> ChunkAt(x, x.numRows \div ChunkRows),
                              pos |-> x.numRows % ChunkRows,
                              w |-> [x EXCEPT !.numRows = @ + 1]]
    PROVE  allocRow(w) = PlaceRow(x)
<1> DEFINE slot == allocRowSlot(w)
           size == x.numColumns * SizeOfFieldSlot
           dir == alloc(x, size, TRUE)
           C == ChunkAt(x, x.numRows \div ChunkRows)
           p == x.numRows % ChunkRows
           y == slot.w
           nulls == [c \in 0 .. x.numColumns - 1 |-> NullField]
<1>1. slot.ok /\ slot.chunk = C /\ slot.pos = p /\ y = [x EXCEPT !.numRows = @ + 1]
  OBVIOUS
<1>2. allocRow(w) = IF alloc(y, size, TRUE) = 0
                    THEN [ok |-> FALSE, w |-> [y EXCEPT !.numRows = @ - 1]]
                    ELSE [ok |-> TRUE,
                          w |-> [y EXCEPT
                                   !.freeOffset = alloc(y, size, TRUE) + size,
                                   !.chunks = [@ EXCEPT ![C].slots[p] = alloc(y, size, TRUE)],
                                   !.dirs = Placed(@, alloc(y, size, TRUE), nulls)]]
  BY <1>1 DEF allocRow
<1>3. PICK a1, a2, a3, a4, a5, a6, a7 :
        x = [size |-> a1, freeOffset |-> a2, numRows |-> a3, numColumns |-> a4,
             chunks |-> a5, dirs |-> a6, buffers |-> a7]
  BY DEF Shape
<1>4. /\ x.size = a1 /\ x.freeOffset = a2 /\ x.numRows = a3 /\ x.numColumns = a4
      /\ x.chunks = a5 /\ x.dirs = a6 /\ x.buffers = a7 /\ a3 \in Nat
  BY <1>3 DEF Shape
<1>5. WithRow(x, dir) = [x EXCEPT !.numRows = @ + 1, !.freeOffset = dir + size,
                                  !.chunks = [@ EXCEPT ![C].slots[p] = dir],
                                  !.dirs = Placed(@, dir, nulls)]
  BY DEF WithRow
<1>6. PlaceRow(x) = IF dir = 0 THEN [ok |-> FALSE, w |-> x] ELSE [ok |-> TRUE, w |-> WithRow(x, dir)]
  BY DEF PlaceRow
<1> HIDE DEF y, slot, C, p
<1>7. y = [size |-> a1, freeOffset |-> a2, numRows |-> a3 + 1, numColumns |-> a4,
           chunks |-> a5, dirs |-> a6, buffers |-> a7]
  BY <1>1, <1>3
<1>8. y.size = x.size /\ y.freeOffset = x.freeOffset
  BY <1>4, <1>7
<1>9. alloc(y, size, TRUE) = dir
  BY <1>8 DEF alloc, Padding
<1> HIDE DEF dir, size, nulls
<1>10. [y EXCEPT !.numRows = @ - 1] = x
  <2>1. [y EXCEPT !.numRows = @ - 1] =
          [size |-> a1, freeOffset |-> a2, numRows |-> (a3 + 1) - 1, numColumns |-> a4,
           chunks |-> a5, dirs |-> a6, buffers |-> a7]
    BY <1>7
  <2>2. (a3 + 1) - 1 = a3
    BY <1>4
  <2> QED
    BY <1>3, <2>1, <2>2
<1>11. [y EXCEPT !.freeOffset = dir + size, !.chunks = [@ EXCEPT ![C].slots[p] = dir],
                 !.dirs = Placed(@, dir, nulls)] = WithRow(x, dir)
  <2> DEFINE new == [a5 EXCEPT ![C].slots[p] = dir]
             placed == Placed(a6, dir, nulls)
  <2>1. [y EXCEPT !.freeOffset = dir + size, !.chunks = [@ EXCEPT ![C].slots[p] = dir],
                  !.dirs = Placed(@, dir, nulls)] =
          [y EXCEPT !.freeOffset = dir + size, !.chunks = new, !.dirs = placed]
    <3>1. y.chunks = a5 /\ y.dirs = a6
      BY <1>7
    <3> QED
      BY <3>1
  <2>2. WithRow(x, dir) = [x EXCEPT !.numRows = a3 + 1, !.freeOffset = dir + size,
                                    !.chunks = new, !.dirs = placed]
    BY <1>4, <1>5
  <2> DEFINE r == [size |-> a1, freeOffset |-> dir + size, numRows |-> a3 + 1,
                   numColumns |-> a4, chunks |-> new, dirs |-> placed, buffers |-> a7]
             u == [y EXCEPT !.freeOffset = dir + size, !.chunks = new, !.dirs = placed]
             v == WithRow(x, dir)
  <2>3. u = [y EXCEPT !.freeOffset = dir + size, !.chunks = new, !.dirs = placed]
    OBVIOUS
  <2> HIDE DEF new, placed, u, v
  <2>4. u = r
    BY <1>7, <2>3
  <2>5. v = r
    BY <1>3, <2>2 DEF v
  <2> HIDE DEF r
  <2> QED
    BY <2>1, <2>3, <2>4, <2>5 DEF v
<1> QED
  BY <1>2, <1>6, <1>9, <1>10, <1>11

\* The same rows in two windows, with the same fields.
SameFields(w, v) ==
    /\ v.size = w.size /\ v.numColumns = w.numColumns /\ v.buffers = w.buffers
    /\ \A r \in 0 .. w.numRows - 1 : \A c \in 0 .. w.numColumns - 1 :
          FieldSlot(v, r, c) = FieldSlot(w, r, c)

\* allocRow finds no space for a chunk of slots, or has a window that is ready for the row,
\* with a chunk added where that was needed.
LEMMA AllocRowCases ==
    ASSUME NEW w, WindowInv(w), NoSpare(w)
    PROVE  \/ allocRow(w) = [ok |-> FALSE, w |-> w]
           \/ \E x : /\ WindowInv(x) /\ Ready(x) /\ SameFields(w, x) /\ x.numRows = w.numRows
                     /\ allocRow(w) = PlaceRow(x)
<1> DEFINE n == w.numRows
           last == IF n = 0 THEN 0 ELSE (n - 1) \div ChunkRows
           chunk == ChunkAt(w, last)
           pos == n - last * ChunkRows
           old == w.chunks[chunk].next
           new == IF old # 0 THEN old ELSE alloc(w, SizeOfChunk, TRUE)
           linked == Placed([w.chunks EXCEPT ![chunk].next = new],
                         new, [slots |-> IF old # 0 THEN w.chunks[old].slots ELSE NoSlots,
                               next |-> 0])
<1>0. Shape(w) /\ n \in Nat /\ ChunkRows \in Nat \ {0}
  BY ChunkAssumption DEF WindowInv, Shape
<1>1. /\ last \in Nat /\ pos \in 0 .. ChunkRows
      /\ pos < ChunkRows => n \div ChunkRows = last /\ n % ChunkRows = pos
      /\ pos = ChunkRows => n \div ChunkRows = last + 1 /\ n % ChunkRows = 0
  BY <1>0, NextSlot
<1>2. ChunksUsed(w) = last + 1
  BY DEF ChunksUsed
<1>3. old = 0
  <2>1. ChunksUsed(w) - 1 = last
    BY <1>1, <1>2
  <2> QED
    BY <2>1 DEF NoSpare
<1>4. allocRowSlot(w) =
        IF pos < ChunkRows
        THEN [ok |-> TRUE, chunk |-> chunk, pos |-> pos, w |-> [w EXCEPT !.numRows = @ + 1]]
        ELSE IF new = 0 THEN [ok |-> FALSE, chunk |-> 0, pos |-> 0, w |-> w]
        ELSE [ok |-> TRUE, chunk |-> new, pos |-> 0,
              w |-> [w EXCEPT !.numRows = @ + 1, !.chunks = linked,
                              !.freeOffset = IF old # 0 THEN @ ELSE new + SizeOfChunk]]
  BY DEF allocRowSlot
<1>5. /\ new = alloc(w, SizeOfChunk, TRUE)
      /\ linked = Placed([w.chunks EXCEPT ![chunk].next = new], new,
                         [slots |-> NoSlots, next |-> 0])
  BY <1>3
<1> HIDE DEF last, pos, old, new, linked
<1>6. CASE pos < ChunkRows
  <2>1. n \div ChunkRows = ChunksUsed(w) - 1
    BY <1>1, <1>2, <1>6
  <2>2. Ready(w)
    BY <2>1, ReadyAtOnce
  <2>3. allocRow(w) = PlaceRow(w)
    BY <1>0, <1>1, <1>4, <1>6, AllocRowPlaces
  <2> QED
    BY <2>2, <2>3 DEF SameFields
<1>7. CASE ~(pos < ChunkRows) /\ new = 0
  <2>1. ~allocRowSlot(w).ok
    BY <1>4, <1>7
  <2> QED
    BY <2>1 DEF allocRow
<1>8. CASE ~(pos < ChunkRows) /\ new # 0
  <2> DEFINE x == WithChunk(w, new)
  <2>1. n \div ChunkRows = ChunksUsed(w) /\ n % ChunkRows = 0 /\ ChunksUsed(w) - 1 = last
    BY <1>0, <1>1, <1>2, <1>8
  <2>2. SizeOfChunk \in Nat
    BY <1>0 DEF SizeOfChunk
  <2>3. new \in Nat /\ w.freeOffset <= new /\ new + SizeOfChunk <= w.size /\ new % 4 = 0
    BY <1>0, <1>5, <1>8, <2>2, AllocEffect
  <2>4. /\ WindowInv(x) /\ Ready(x) /\ ChunkAt(x, n \div ChunkRows) = new
        /\ x = [size |-> w.size, freeOffset |-> new + SizeOfChunk, numRows |-> n,
                numColumns |-> w.numColumns, chunks |-> x.chunks, dirs |-> w.dirs,
                buffers |-> w.buffers]
        /\ \A r \in 0 .. n - 1 : \A c : FieldSlot(x, r, c) = FieldSlot(w, r, c)
    BY <2>1, <2>3, WithChunkInv
  <2>5. x = [w EXCEPT !.freeOffset = new + SizeOfChunk, !.chunks = linked]
    BY <1>5, <2>1 DEF WithChunk
  <2> HIDE DEF x
  <2>6. /\ x.size = w.size /\ x.numRows = n /\ x.numColumns = w.numColumns
        /\ x.buffers = w.buffers
    BY <2>4
  <2>7. [w EXCEPT !.numRows = @ + 1, !.chunks = linked,
                  !.freeOffset = IF old # 0 THEN @ ELSE new + SizeOfChunk] =
        [x EXCEPT !.numRows = @ + 1]
    <3>1. PICK a1, a2, a3, a4, a5, a6, a7 :
            w = [size |-> a1, freeOffset |-> a2, numRows |-> a3, numColumns |-> a4,
                 chunks |-> a5, dirs |-> a6, buffers |-> a7]
      BY <1>0 DEF Shape
    <3>2. x = [size |-> a1, freeOffset |-> new + SizeOfChunk, numRows |-> a3,
               numColumns |-> a4, chunks |-> linked, dirs |-> a6, buffers |-> a7]
      BY <2>5, <3>1
    <3> DEFINE r == [size |-> a1, freeOffset |-> new + SizeOfChunk, numRows |-> a3 + 1,
                     numColumns |-> a4, chunks |-> linked, dirs |-> a6, buffers |-> a7]
                u == [w EXCEPT !.numRows = @ + 1, !.chunks = linked,
                               !.freeOffset = IF old # 0 THEN @ ELSE new + SizeOfChunk]
                v == [x EXCEPT !.numRows = @ + 1]
    <3>3. /\ u = [w EXCEPT !.numRows = a3 + 1, !.chunks = linked,
                           !.freeOffset = new + SizeOfChunk]
          /\ v = [x EXCEPT !.numRows = a3 + 1]
      BY <1>3, <3>1, <3>2
    <3> HIDE DEF u, v
    <3>4. u = r /\ v = r
      BY <3>1, <3>2, <3>3
    <3> QED
      BY <3>4 DEF u, v
  <2>8. allocRowSlot(w) = [ok |-> TRUE, chunk |-> ChunkAt(x, x.numRows \div ChunkRows),
                           pos |-> x.numRows % ChunkRows, w |-> [x EXCEPT !.numRows = @ + 1]]
    <3>1. allocRowSlot(w) = [ok |-> TRUE, chunk |-> new, pos |-> 0,
                             w |-> [x EXCEPT !.numRows = @ + 1]]
      BY <1>4, <1>8, <2>7
    <3>2. ChunkAt(x, x.numRows \div ChunkRows) = new /\ x.numRows % ChunkRows = 0
      BY <2>1, <2>4, <2>6
    <3> QED
      BY <3>1, <3>2
  <2>9. allocRow(w) = PlaceRow(x)
    BY <2>4, <2>6, <2>8, AllocRowPlaces DEF WindowInv
  <2>10. SameFields(w, x)
    BY <2>4, <2>6 DEF SameFields
  <2> QED
    BY <2>4, <2>6, <2>9, <2>10
<1> QED
  BY <1>6, <1>7, <1>8

\* allocRow keeps the window's invariant and what the rows hold, whether it finds the space or
\* not; a window without a spare chunk has none after a row was added.
LEMMA AllocRowEffect ==
    ASSUME NEW w, WindowInv(w), NoSpare(w)
    PROVE  LET a == allocRow(w) IN
           /\ a.ok \in BOOLEAN /\ WindowInv(a.w) /\ SameFields(w, a.w)
           /\ a.ok => a.w.numRows = w.numRows + 1 /\ NoSpare(a.w)
           /\ ~a.ok => a.w.numRows = w.numRows
<1>1. CASE allocRow(w) = [ok |-> FALSE, w |-> w]
  BY <1>1 DEF SameFields
<1>2. ASSUME NEW x, WindowInv(x), Ready(x), SameFields(w, x), x.numRows = w.numRows,
             allocRow(w) = PlaceRow(x)
      PROVE  LET a == allocRow(w) IN
             /\ a.ok \in BOOLEAN /\ WindowInv(a.w) /\ SameFields(w, a.w)
             /\ a.ok => a.w.numRows = w.numRows + 1 /\ NoSpare(a.w)
             /\ ~a.ok => a.w.numRows = w.numRows
  <2> DEFINE size == x.numColumns * SizeOfFieldSlot
             dir == alloc(x, size, TRUE)
  <2>1. allocRow(w) = IF dir = 0 THEN [ok |-> FALSE, w |-> x]
                      ELSE [ok |-> TRUE, w |-> WithRow(x, dir)]
    BY <1>2 DEF PlaceRow
  <2>2. CASE dir = 0
    BY <1>2, <2>1, <2>2
  <2>3. CASE dir # 0
    <3> DEFINE v == WithRow(x, dir)
    <3>1. size \in Nat /\ Shape(x)
      BY <1>2 DEF WindowInv, Shape, SizeOfFieldSlot
    <3>2. dir \in Nat /\ x.freeOffset <= dir /\ dir + size <= x.size /\ dir % 4 = 0
      BY <2>3, <3>1, AllocEffect
    <3> HIDE DEF dir
    <3>3. /\ WindowInv(v) /\ NoSpare(v)
          /\ v.size = x.size /\ v.numColumns = x.numColumns /\ v.numRows = x.numRows + 1
          /\ v.buffers = x.buffers
          /\ \A r \in 0 .. x.numRows - 1 : \A c \in 0 .. x.numColumns - 1 :
                FieldSlot(v, r, c) = FieldSlot(x, r, c)
      BY <1>2, <3>2, WithRowInv
    <3> HIDE DEF v
    <3>4. SameFields(w, v)
      BY <1>2, <3>3 DEF SameFields
    <3>5. allocRow(w) = [ok |-> TRUE, w |-> v]
      BY <2>1, <2>3 DEF v
    <3> QED
      BY <1>2, <3>3, <3>4, <3>5
  <2> QED
    BY <2>2, <2>3
<1> QED
  BY <1>1, <1>2, AllocRowCases

-----------------------------------------------------------------------------
(* Storing a field and taking a row back *)

\* A field's buffer, if it has one, lies below the free offset.
LEMMA BufferBelow ==
    ASSUME NEW w, WindowInv(w), NEW r \in 0 .. w.numRows - 1, NEW c \in 0 .. w.numColumns - 1
    PROVE  /\ IsField(w, FieldSlot(w, r, c))
           /\ FieldSlot(w, r, c).size # 0 =>
                 FieldSlot(w, r, c).offset + FieldSlot(w, r, c).size <= w.freeOffset
<1> DEFINE f == FieldSlot(w, r, c)
<1>1. HasDir(w, getRowSlot(w, r))
  BY DEF WindowInv
<1>2. IsField(w, f)
  BY <1>1 DEF HasDir, FieldSlot
<1>3. BufferRegion(w, r, c) \in Regions(w)
  BY RegionKinds
<1>4. BufferRegion(w, r, c).lo = f.offset /\ BufferRegion(w, r, c).hi = f.offset + f.size
  BY DEF BufferRegion
<1> HIDE DEF f
<1>5. f.offset \in Nat /\ f.size \in Nat
  BY <1>2 DEF IsField
<1>6. f.size # 0 => f.offset < f.offset + f.size
  BY <1>5
<1>7. f.size # 0 => f.offset + f.size <= w.freeOffset
  BY <1>3, <1>4, <1>6 DEF WindowInv, Sound
<1> QED
  BY <1>2, <1>7 DEF f

\* The directories of different rows are different, if there are columns at all.
LEMMA DirsDiffer ==
    ASSUME NEW w, WindowInv(w), w.numColumns # 0, NEW r \in 0 .. w.numRows - 1,
           NEW s \in 0 .. w.numRows - 1, r # s
    PROVE  getRowSlot(w, r) # getRowSlot(w, s)
<1> DEFINE bytes == w.numColumns * SizeOfFieldSlot
<1>1. bytes \in Nat /\ bytes > 0
  BY DEF WindowInv, Shape, SizeOfFieldSlot
<1>2. DirRegion(w, r) \in Regions(w) /\ DirRegion(w, s) \in Regions(w)
  BY RegionKinds
<1>3. /\ DirRegion(w, r).lo = getRowSlot(w, r) /\ DirRegion(w, r).hi = getRowSlot(w, r) + bytes
      /\ DirRegion(w, s).lo = getRowSlot(w, s) /\ DirRegion(w, s).hi = getRowSlot(w, s) + bytes
      /\ DirRegion(w, r).part = <<"dir", r>> /\ DirRegion(w, s).part = <<"dir", s>>
  BY DEF DirRegion
<1>4. DirRegion(w, r).part # DirRegion(w, s).part
  <2>1. <<"dir", r>> # <<"dir", s>>
    OBVIOUS
  <2> QED
    BY <1>3, <2>1
<1>5. getRowSlot(w, r) \in Nat /\ getRowSlot(w, s) \in Nat
  BY SlotType
<1> HIDE DEF bytes
<1> QED
  BY <1>1, <1>2, <1>3, <1>4, <1>5 DEF WindowInv, Sound

\* Windows with the same chunks have the same slots.
LEMMA SameChunks ==
    ASSUME NEW w, NEW v, v.chunks = w.chunks
    PROVE  (\A k : ChunkAt(v, k) = ChunkAt(w, k)) /\ \A r : getRowSlot(v, r) = getRowSlot(w, r)
  BY DEF ChunkAt, getRowSlot

\* The same rows in two windows read the same.
SameValues(w, v, row, column) ==
    /\ v.size = w.size /\ v.numColumns = w.numColumns
    /\ \A r \in 0 .. w.numRows - 1 : \A c \in 0 .. w.numColumns - 1 :
          r # row \/ c # column => FieldValue(v, r, c) = FieldValue(w, r, c)

\* What a field needs is placed above the free offset, and what was there is left alone.
Storable(w, field, free, buffers) ==
    /\ free \in Nat /\ w.freeOffset <= free /\ free <= w.size
    /\ field.offset \in Nat /\ field.size \in Nat
    /\ field.size # 0 => /\ w.freeOffset <= field.offset /\ field.offset + field.size <= free
                         /\ field.offset \in DOMAIN buffers
    /\ \A o \in DOMAIN w.buffers :
          o \in DOMAIN buffers /\ (o \in Nat /\ o < w.freeOffset => buffers[o] = w.buffers[o])

\* A field that is stored in a row's directory.
LEMMA StoreEffect ==
    ASSUME NEW w, WindowInv(w), NEW row \in 0 .. w.numRows - 1,
           NEW column \in 0 .. w.numColumns - 1, NEW field, NEW free, NEW buffers,
           Storable(w, field, free, buffers),
           NEW v, v = [size |-> w.size, freeOffset |-> free, numRows |-> w.numRows,
                       numColumns |-> w.numColumns, chunks |-> w.chunks,
                       dirs |-> Stored(w, row, column, field), buffers |-> buffers]
    PROVE  /\ WindowInv(v) /\ (NoSpare(w) => NoSpare(v))
           /\ FieldSlot(v, row, column) = field /\ SameValues(w, v, row, column)
<1> DEFINE D == getRowSlot(w, row)
<1>0. /\ Shape(w) /\ w.size \in Nat /\ w.freeOffset \in Nat /\ w.numRows \in Nat
      /\ w.numColumns \in Nat
  BY DEF WindowInv, Shape
<1>1. /\ v.size = w.size /\ v.freeOffset = free /\ v.numRows = w.numRows
      /\ v.numColumns = w.numColumns /\ v.chunks = w.chunks /\ v.buffers = buffers
      /\ v.dirs = [w.dirs EXCEPT ![D][column] = field]
  BY DEF Stored
<1> USE DEF Storable
<1>2. Shape(v)
  BY <1>0, <1>1 DEF Shape
<1>3. (\A k : ChunkAt(v, k) = ChunkAt(w, k)) /\ \A r : getRowSlot(v, r) = getRowSlot(w, r)
  BY <1>1, SameChunks
<1>4. ChunksUsed(v) = ChunksUsed(w)
  BY <1>1 DEF ChunksUsed
<1>5. NoSpare(w) => NoSpare(v)
  BY <1>1, <1>3, <1>4 DEF NoSpare
<1>6. \A k \in 0 .. ChunksUsed(v) - 1 : HasChunk(v, k)
  BY <1>1, <1>3, <1>4 DEF HasChunk, WindowInv
<1>7. HasDir(w, D)
  BY DEF WindowInv
<1> HIDE DEF D
<1>8. /\ DOMAIN v.dirs = DOMAIN w.dirs
      /\ \A o \in DOMAIN w.dirs : o # D => v.dirs[o] = w.dirs[o]
      /\ v.dirs[D] = [w.dirs[D] EXCEPT ![column] = field]
  BY <1>1, <1>7 DEF HasDir
<1>9. FieldSlot(v, row, column) = field
  BY <1>3, <1>7, <1>8 DEF FieldSlot, HasDir, D
<1>10. ASSUME NEW r \in 0 .. w.numRows - 1, NEW c \in 0 .. w.numColumns - 1, r # row \/ c # column
       PROVE  FieldSlot(v, r, c) = FieldSlot(w, r, c)
  <2>1. w.numColumns # 0
    BY <1>0
  <2>2. HasDir(w, getRowSlot(w, r))
    BY DEF WindowInv
  <2>3. CASE r = row
    BY <1>3, <1>7, <1>8, <1>10, <2>3 DEF FieldSlot, HasDir, D
  <2>4. CASE r # row
    <3>1. getRowSlot(w, r) # D
      BY <2>1, <2>4, DirsDiffer DEF D
    <3> QED
      BY <1>3, <1>8, <2>2, <3>1 DEF FieldSlot, HasDir
  <2> QED
    BY <2>3, <2>4
<1>11. \A f : IsField(w, f) => IsField(v, f)
  BY <1>1 DEF IsField
<1>12. IsField(v, field)
  BY <1>1 DEF IsField
<1>13. \A r \in 0 .. v.numRows - 1 : HasDir(v, getRowSlot(v, r))
  <2> SUFFICES ASSUME NEW r \in 0 .. w.numRows - 1 PROVE HasDir(v, getRowSlot(w, r))
    BY <1>1, <1>3
  <2>1. HasDir(w, getRowSlot(w, r))
    BY DEF WindowInv
  <2>2. CASE getRowSlot(w, r) = D
    BY <1>1, <1>7, <1>8, <1>11, <1>12, <2>2 DEF HasDir
  <2>3. CASE getRowSlot(w, r) # D
    BY <1>1, <1>8, <1>11, <2>1, <2>3 DEF HasDir
  <2> QED
    BY <2>2, <2>3
<1>14. Sound(Regions(v), v.freeOffset)
  <2> DEFINE New == {BufferRegion(v, row, column)}
  <2>1. /\ BufferRegion(v, row, column).lo = field.offset
        /\ BufferRegion(v, row, column).hi = field.offset + field.size
        /\ BufferRegion(v, row, column).part[1] = "buffer"
    BY <1>9 DEF BufferRegion
  <2>2. field.offset < field.offset + field.size => field.size # 0
    OBVIOUS
  <2>3. Sound(New, free)
    BY <2>1, <2>2 DEF Sound
  <2>4. \A s \in New : s.lo < s.hi => w.freeOffset <= s.lo
    BY <2>1, <2>2
  <2> HIDE DEF New
  <2>5. Regions(v) \subseteq Regions(w) \cup New
    <3> SUFFICES ASSUME NEW s \in Regions(v) PROVE s \in Regions(w) \cup New
      OBVIOUS
    <3>1. CASE s = Header
      BY <3>1, RegionKinds
    <3>2. ASSUME NEW k \in 0 .. ChunksUsed(v) - 1, s = ChunkRegion(v, k) PROVE s \in Regions(w)
      <4>1. s = ChunkRegion(w, k)
        BY <1>3, <3>2 DEF ChunkRegion
      <4> QED
        BY <1>4, <4>1, RegionKinds
    <3>3. ASSUME NEW r \in 0 .. v.numRows - 1, s = DirRegion(v, r) PROVE s \in Regions(w)
      <4>1. s = DirRegion(w, r)
        BY <1>1, <1>3, <3>3 DEF DirRegion
      <4> QED
        BY <1>1, <4>1, RegionKinds
    <3>4. ASSUME NEW r \in 0 .. v.numRows - 1, NEW c \in 0 .. v.numColumns - 1,
                 s = BufferRegion(v, r, c)
          PROVE  s \in Regions(w) \cup New
      <4>0. r \in 0 .. w.numRows - 1 /\ c \in 0 .. w.numColumns - 1
        BY <1>1
      <4>1. CASE r = row /\ c = column
        BY <3>4, <4>1 DEF New
      <4>2. CASE r # row \/ c # column
        <5>1. s = BufferRegion(w, r, c)
          BY <1>10, <3>4, <4>0, <4>2 DEF BufferRegion
        <5> QED
          BY <4>0, <5>1, RegionKinds
      <4> QED
        BY <4>1, <4>2
    <3> QED
      BY <3>1, <3>2, <3>3, <3>4, RegionKinds
  <2>6. Sound(Regions(w), w.freeOffset)
    BY DEF WindowInv
  <2> QED
    BY <1>0, <1>1, <2>3, <2>4, <2>5, <2>6, SoundGrows
<1>15. WindowInv(v)
  BY <1>2, <1>6, <1>13, <1>14 DEF WindowInv
<1>16. SameValues(w, v, row, column)
  <2> SUFFICES ASSUME NEW r \in 0 .. w.numRows - 1, NEW c \in 0 .. w.numColumns - 1,
                      r # row \/ c # column
               PROVE  FieldValue(v, r, c) = FieldValue(w, r, c)
    BY <1>1 DEF SameValues
  <2> DEFINE f == FieldSlot(w, r, c)
  <2>1. FieldSlot(v, r, c) = f
    BY <1>10
  <2>2. IsField(w, f) /\ (f.size # 0 => f.offset + f.size <= w.freeOffset)
    BY BufferBelow
  <2> HIDE DEF f
  <2>3. f.size # 0 => f.offset \in DOMAIN w.buffers /\ f.offset \in Nat /\ f.offset < w.freeOffset
    BY <1>0, <2>2 DEF IsField
  <2>4. f.size # 0 => v.buffers[f.offset] = w.buffers[f.offset]
    BY <1>1, <2>3
  <2> QED
    BY <2>1, <2>4 DEF FieldValue, f
<1> QED
  BY <1>5, <1>9, <1>15, <1>16

\* A column's value: those that are stored inline have no size, and no bytes no content.
IsValue(v) ==
    /\ v = [type |-> v.type, size |-> v.size, data |-> v.data]
    /\ v.size \in Nat
    /\ v.type \notin {"string", "blob"} => v.size = 0
    /\ v.type = "blob" /\ v.size = 0 => v.data = 0

\* put stores the value, and leaves all others alone, or finds no space and does nothing.
LEMMA PutEffect ==
    ASSUME NEW w, WindowInv(w), NEW row \in 0 .. w.numRows - 1,
           NEW column \in 0 .. w.numColumns - 1, NEW x, IsValue(x)
    PROVE  LET p == put(w, row, column, x) IN
           /\ p.ok \in BOOLEAN /\ WindowInv(p.w) /\ p.w.numRows = w.numRows
           /\ NoSpare(w) => NoSpare(p.w)
           /\ p.ok => FieldValue(p.w, row, column) = x /\ SameValues(w, p.w, row, column)
                      /\ p.w.freeOffset = w.freeOffset + Bytes(x)
           /\ ~p.ok => p.w = w /\ w.freeOffset + Bytes(x) > w.size
<1> DEFINE p == put(w, row, column, x)
           size == Bytes(x)
           offset == alloc(w, size, FALSE)
           f == [type |-> x.type, offset |-> offset, size |-> size, data |-> 0]
           g == [type |-> x.type, offset |-> 0, size |-> 0, data |-> x.data]
           B == IF size = 0 THEN w.buffers ELSE Placed(w.buffers, offset, x.data)
<1>0. /\ Shape(w) /\ w.size \in Nat /\ w.freeOffset \in Nat /\ w.numRows \in Nat
      /\ w.numColumns \in Nat /\ w.freeOffset <= w.size
  BY DEF WindowInv, Shape
<1>1. size \in Nat /\ (x.type = "string" => size = x.size + 1 /\ size # 0)
      /\ (x.type = "blob" => size = x.size) /\ (x.type \notin {"string", "blob"} => size = 0)
  BY DEF Bytes, IsValue
<1>2. HasField(w, row, column)
  BY DEF HasField
<1>3. offset = IF w.freeOffset + size > w.size THEN 0 ELSE w.freeOffset
  <2>1. w.freeOffset + Padding(w, FALSE) = w.freeOffset
    BY <1>0 DEF Padding
  <2> HIDE DEF size
  <2> QED
    BY <2>1 DEF alloc
<1>4. w.freeOffset > 0
  <2>1. Header \in Regions(w)
    BY RegionKinds
  <2>2. Header.lo = 0 /\ Header.hi = 16
    BY DEF Header, SizeOfHeader
  <2> QED
    BY <1>0, <2>1, <2>2 DEF WindowInv, Sound
<1>5. CASE x.type \in {"string", "blob"}
  <2>1. p = IF offset = 0 THEN [ok |-> FALSE, w |-> w]
            ELSE [ok |-> TRUE,
                  w |-> [w EXCEPT !.freeOffset = offset + size, !.buffers = B,
                                  !.dirs = Stored(w, row, column, f)]]
    <3>1. p = putBlobOrString(w, row, column, x.type, size, x.data)
      BY <1>1, <1>5 DEF put
    <3> HIDE DEF size, p
    <3> QED
      BY <1>2, <3>1 DEF putBlobOrString
  <2> HIDE DEF p, size, offset, f, B
  <2>2. CASE offset = 0
    <3>1. p.ok = FALSE /\ p.w = w
      BY <2>1, <2>2
    <3>2. w.freeOffset + size > w.size
      BY <1>0, <1>3, <1>4, <2>2
    <3> QED
      BY <3>1, <3>2 DEF p, size
  <2>3. CASE offset # 0
    <3> DEFINE v == p.w
    <3>1. p.ok = TRUE /\ v = [w EXCEPT !.freeOffset = offset + size, !.buffers = B,
                                       !.dirs = Stored(w, row, column, f)]
      BY <2>1, <2>3
    <3> HIDE DEF v
    <3>2. v = [size |-> w.size, freeOffset |-> offset + size, numRows |-> w.numRows,
               numColumns |-> w.numColumns, chunks |-> w.chunks,
               dirs |-> Stored(w, row, column, f), buffers |-> B]
      <4>1. PICK a1, a2, a3, a4, a5, a6, a7 :
              w = [size |-> a1, freeOffset |-> a2, numRows |-> a3, numColumns |-> a4,
                   chunks |-> a5, dirs |-> a6, buffers |-> a7]
        BY <1>0 DEF Shape
      <4>2. /\ w.size = a1 /\ w.freeOffset = a2 /\ w.numRows = a3 /\ w.numColumns = a4
            /\ w.chunks = a5 /\ w.dirs = a6 /\ w.buffers = a7
        BY <4>1
      <4> QED
        BY <3>1, <4>1, <4>2
    <3>3. offset = w.freeOffset /\ offset + size <= w.size
      BY <1>0, <1>1, <1>3, <2>3
    <3>4. f.type = x.type /\ f.offset = offset /\ f.size = size
      BY DEF f
    <3>5. /\ size # 0 => offset \in DOMAIN B /\ B[offset] = x.data
          /\ \A o \in DOMAIN w.buffers :
                o \in DOMAIN B /\ (o \in Nat /\ o < w.freeOffset => B[o] = w.buffers[o])
      BY <1>0, <3>3 DEF B, Placed
    <3>6. /\ WindowInv(v) /\ (NoSpare(w) => NoSpare(v))
          /\ FieldSlot(v, row, column) = f /\ SameValues(w, v, row, column)
      <4>1. Storable(w, f, offset + size, B)
        BY <1>0, <1>1, <3>3, <3>4, <3>5 DEF Storable
      <4> HIDE DEF v
      <4> QED
        BY <3>2, <4>1, StoreEffect
    <3>7. v.numRows = w.numRows /\ v.freeOffset = w.freeOffset + size /\ v.buffers = B
      BY <3>2, <3>3
    <3>8. FieldValue(v, row, column) =
            [type |-> x.type, size |-> IF x.type = "string" THEN size - 1 ELSE size,
             data |-> IF size = 0 THEN 0 ELSE B[offset]]
      BY <1>5, <3>4, <3>6, <3>7 DEF FieldValue
    <3>9. x = [type |-> x.type, size |-> x.size, data |-> x.data] /\ x.size \in Nat
          /\ (x.type = "blob" /\ x.size = 0 => x.data = 0)
      BY DEF IsValue
    <3>10. (IF x.type = "string" THEN size - 1 ELSE size) = x.size
      BY <1>1, <1>5, <3>9
    <3>11. (IF size = 0 THEN 0 ELSE B[offset]) = x.data
      BY <1>1, <1>5, <3>5, <3>9
    <3>12. FieldValue(v, row, column) = x
      BY <3>8, <3>9, <3>10, <3>11
    <3> QED
      BY <3>1, <3>6, <3>7, <3>12 DEF v, p, size
  <2> QED
    BY <2>2, <2>3
<1>6. CASE x.type \notin {"string", "blob"}
  <2>1. p = [ok |-> TRUE, w |-> [w EXCEPT !.dirs = Stored(w, row, column, g)]]
    BY <1>2, <1>6 DEF put, putInline
  <2>2. size = 0 /\ x.size = 0
    BY <1>1, <1>6 DEF IsValue
  <2> HIDE DEF p, size, g
  <2> DEFINE v == p.w
  <2>3. p.ok = TRUE /\ v = [w EXCEPT !.dirs = Stored(w, row, column, g)]
    BY <2>1
  <2> HIDE DEF v
  <2>4. v = [size |-> w.size, freeOffset |-> w.freeOffset, numRows |-> w.numRows,
             numColumns |-> w.numColumns, chunks |-> w.chunks,
             dirs |-> Stored(w, row, column, g), buffers |-> w.buffers]
    <3>1. PICK a1, a2, a3, a4, a5, a6, a7 :
            w = [size |-> a1, freeOffset |-> a2, numRows |-> a3, numColumns |-> a4,
                 chunks |-> a5, dirs |-> a6, buffers |-> a7]
      BY <1>0 DEF Shape
    <3>2. /\ w.size = a1 /\ w.freeOffset = a2 /\ w.numRows = a3 /\ w.numColumns = a4
          /\ w.chunks = a5 /\ w.dirs = a6 /\ w.buffers = a7
      BY <3>1
    <3> QED
      BY <2>3, <3>1, <3>2
  <2>5. g.type = x.type /\ g.offset = 0 /\ g.size = 0 /\ g.data = x.data
    BY DEF g
  <2>6. /\ WindowInv(v) /\ (NoSpare(w) => NoSpare(v))
        /\ FieldSlot(v, row, column) = g /\ SameValues(w, v, row, column)
    <3>1. Storable(w, g, w.freeOffset, w.buffers)
      BY <1>0, <2>5 DEF Storable
    <3> QED
      BY <2>4, <3>1, StoreEffect
  <2>7. v.numRows = w.numRows /\ v.freeOffset = w.freeOffset + size
    BY <1>0, <2>2, <2>4
  <2>8. FieldValue(v, row, column) = [type |-> x.type, size |-> 0, data |-> x.data]
    BY <1>6, <2>5, <2>6 DEF FieldValue
  <2>9. FieldValue(v, row, column) = x
    BY <2>2, <2>8 DEF IsValue
  <2> QED
    BY <2>3, <2>6, <2>7, <2>9 DEF v, p, size
<1> QED
  BY <1>5, <1>6

\* freeLastRow keeps the window's invariant and the fields of the rows that are left.
LEMMA FreeLastRowEffect ==
    ASSUME NEW w, WindowInv(w), w.numRows # 0
    PROVE  LET v == freeLastRow(w) IN
           /\ WindowInv(v) /\ v.numRows = w.numRows - 1 /\ v.size = w.size
           /\ v.numColumns = w.numColumns
           /\ \A r, c : FieldValue(v, r, c) = FieldValue(w, r, c)
<1> DEFINE v == freeLastRow(w)
<1>0. Shape(w) /\ w.numRows \in Nat
  BY DEF WindowInv, Shape
<1>1. v = [w EXCEPT !.numRows = w.numRows - 1]
  BY <1>0 DEF freeLastRow
<1> HIDE DEF v
<1>2. v = [size |-> w.size, freeOffset |-> w.freeOffset, numRows |-> w.numRows - 1,
           numColumns |-> w.numColumns, chunks |-> w.chunks, dirs |-> w.dirs,
           buffers |-> w.buffers]
  <2>1. PICK a1, a2, a3, a4, a5, a6, a7 :
          w = [size |-> a1, freeOffset |-> a2, numRows |-> a3, numColumns |-> a4,
               chunks |-> a5, dirs |-> a6, buffers |-> a7]
    BY <1>0 DEF Shape
  <2>2. /\ w.size = a1 /\ w.freeOffset = a2 /\ w.numRows = a3 /\ w.numColumns = a4
        /\ w.chunks = a5 /\ w.dirs = a6 /\ w.buffers = a7
    BY <2>1
  <2> QED
    BY <1>1, <2>1, <2>2
<1>3. /\ v.size = w.size /\ v.freeOffset = w.freeOffset /\ v.numRows = w.numRows - 1
      /\ v.numColumns = w.numColumns /\ v.chunks = w.chunks /\ v.dirs = w.dirs
      /\ v.buffers = w.buffers
  BY <1>2
<1>4. Shape(v)
  BY <1>0, <1>2, <1>3 DEF Shape
<1>5. (\A k : ChunkAt(v, k) = ChunkAt(w, k)) /\ \A r : getRowSlot(v, r) = getRowSlot(w, r)
  BY <1>3, SameChunks
<1>6. \A r, c : FieldSlot(v, r, c) = FieldSlot(w, r, c)
  BY <1>3, <1>5 DEF FieldSlot
<1>7. \A r, c : FieldValue(v, r, c) = FieldValue(w, r, c)
  BY <1>3, <1>6 DEF FieldValue
<1>8. 0 .. ChunksUsed(v) - 1 \subseteq 0 .. ChunksUsed(w) - 1
  <2>1. ChunksUsed(v) \in Nat \ {0} /\ ChunksUsed(w) \in Nat \ {0}
    BY <1>0, <1>4, ChunksUsedFacts DEF Shape
  <2>2. CASE v.numRows = 0
    BY <2>1, <2>2 DEF ChunksUsed
  <2>3. CASE v.numRows # 0
    <3>1. v.numRows - 1 \in Nat /\ w.numRows - 1 \in Nat /\ v.numRows - 1 <= w.numRows - 1
      BY <1>0, <1>3, <2>3
    <3>2. (v.numRows - 1) \div ChunkRows <= (w.numRows - 1) \div ChunkRows
      BY <3>1, DivisionMonotone
    <3>3. /\ ChunksUsed(v) = (v.numRows - 1) \div ChunkRows + 1
          /\ ChunksUsed(w) = (w.numRows - 1) \div ChunkRows + 1
      BY <2>3 DEF ChunksUsed
    <3>4. (v.numRows - 1) \div ChunkRows \in Nat /\ (w.numRows - 1) \div ChunkRows \in Nat
      BY <3>1, Division
    <3>5. ChunksUsed(v) <= ChunksUsed(w)
      BY <3>2, <3>3, <3>4
    <3> QED
      BY <2>1, <3>5
  <2> QED
    BY <2>2, <2>3
<1>9. 0 .. v.numRows - 1 \subseteq 0 .. w.numRows - 1
  BY <1>0, <1>3
<1>10. Regions(v) \subseteq Regions(w)
  <2> SUFFICES ASSUME NEW s \in Regions(v) PROVE s \in Regions(w)
    OBVIOUS
  <2>1. CASE s = Header
    BY <2>1, RegionKinds
  <2>2. ASSUME NEW k \in 0 .. ChunksUsed(v) - 1, s = ChunkRegion(v, k) PROVE s \in Regions(w)
    <3>1. s = ChunkRegion(w, k) /\ k \in 0 .. ChunksUsed(w) - 1
      BY <1>5, <1>8, <2>2 DEF ChunkRegion
    <3> QED
      BY <3>1, RegionKinds
  <2>3. ASSUME NEW r \in 0 .. v.numRows - 1, s = DirRegion(v, r) PROVE s \in Regions(w)
    <3>1. s = DirRegion(w, r) /\ r \in 0 .. w.numRows - 1
      BY <1>3, <1>5, <1>9, <2>3 DEF DirRegion
    <3> QED
      BY <3>1, RegionKinds
  <2>4. ASSUME NEW r \in 0 .. v.numRows - 1, NEW c \in 0 .. v.numColumns - 1,
               s = BufferRegion(v, r, c)
        PROVE  s \in Regions(w)
    <3>1. s = BufferRegion(w, r, c) /\ r \in 0 .. w.numRows - 1 /\ c \in 0 .. w.numColumns - 1
      BY <1>3, <1>6, <1>9, <2>4 DEF BufferRegion
    <3> QED
      BY <3>1, RegionKinds
  <2> QED
    BY <2>1, <2>2, <2>3, <2>4, RegionKinds
<1>11. Sound(Regions(v), v.freeOffset)
  BY <1>3, <1>10, SoundSubset DEF WindowInv
<1>12. \A k \in 0 .. ChunksUsed(v) - 1 : HasChunk(v, k)
  BY <1>3, <1>5, <1>8 DEF WindowInv, HasChunk
<1>13. \A r \in 0 .. v.numRows - 1 : HasDir(v, getRowSlot(v, r))
  <2> SUFFICES ASSUME NEW r \in 0 .. v.numRows - 1 PROVE HasDir(v, getRowSlot(w, r))
    BY <1>5
  <2>1. HasDir(w, getRowSlot(w, r))
    BY <1>9 DEF WindowInv
  <2> QED
    BY <1>3, <2>1 DEF HasDir, IsField
<1>14. WindowInv(v)
  BY <1>4, <1>11, <1>12, <1>13 DEF WindowInv
<1> QED
  BY <1>3, <1>7, <1>14 DEF v

=============================================================================
