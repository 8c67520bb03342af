-------------------------- MODULE ServerListProofs --------------------------
(***************************************************************************)
(* Proofs about ServerList and the NetworkInfo it composes: for any finite *)
(* set of networks, any refreshes, lists of any length, and any number of  *)
(* changes and deaths of the process.                                      *)
(***************************************************************************)
EXTENDS ServerList, FiniteSetTheorems, SequenceTheorems, TLAPS

-----------------------------------------------------------------------------
(* The network *)

NetworkInv == NetworkTypeOK /\ LossIsLast

\* A queue whose first callback is taken keeps its last one, if one is left.
LEMMA LastOfTail ==
    ASSUME NEW S, NEW q \in Seq(S), q # <<>>
    PROVE  /\ Tail(q) \in Seq(S)
           /\ Len(q) = 1 => Tail(q) = <<>>
           /\ Tail(q) # <<>> => Tail(q)[Len(Tail(q))] = q[Len(q)]
           /\ Len(q) = 1 => Head(q) = q[Len(q)]
           /\ Tail(q) = <<>> => Len(q) = 1
  <1>1. Len(q) \in Nat \ {0}
    BY EmptySeq
  <1>2. /\ Tail(q) \in Seq(S) /\ Len(Tail(q)) = Len(q) - 1
        /\ \A i \in 1 .. Len(q) - 1 : Tail(q)[i] = q[i + 1]
    BY HeadTailProperties
  <1>3. Tail(q) = <<>> <=> Len(q) = 1
    BY <1>1, <1>2, EmptySeq
  <1>4. Head(q) = q[1]
    OBVIOUS
  <1>5. ASSUME Tail(q) # <<>> PROVE Tail(q)[Len(Tail(q))] = q[Len(q)]
    <2>1. Len(q) - 1 \in 1 .. Len(q) - 1
      BY <1>1, <1>3, <1>5
    <2> QED
      BY <1>1, <1>2, <2>1
  <1> QED
    BY <1>2, <1>3, <1>4, <1>5

\* At first there is no network and nothing to come.
LEMMA NetworkInvInit == Init => NetworkInv
  BY DEF Init, NetworkInit, NetworkInv, NetworkTypeOK, LossIsLast

\* Networks that come and go, and their callbacks.
LEMMA NetworkInvNext == NetworkInv /\ NetworkNext => NetworkInv'
  <1> SUFFICES ASSUME NetworkInv, NetworkNext PROVE NetworkInv'
    OBVIOUS
  <1> USE DEF NetworkInv, NetworkTypeOK, LossIsLast
  <1>1. ASSUME NEW n \in Networks, NetworkUp(n) PROVE NetworkInv'
    BY <1>1 DEF NetworkUp
  <1>2. ASSUME NEW n \in Networks, NetworkDown(n) PROVE NetworkInv'
    BY <1>2 DEF NetworkDown
  <1>3. CASE onAvailable
    BY <1>3, LastOfTail DEF onAvailable
  <1>4. CASE hostAvailable
    BY <1>4 DEF hostAvailable
  <1>5. CASE Tested
    BY <1>5 DEF Tested, postValue
  <1>6. CASE onLost
    BY <1>6, LastOfTail DEF onLost, postValue
  <1>7. CASE SetValue
    BY <1>7 DEF SetValue
  <1> QED
    BY <1>1, <1>2, <1>3, <1>4, <1>5, <1>6, <1>7 DEF NetworkNext

\* A new process is told of the networks there are; without any there is nothing to tell.
LEMMA NetworkInvRestart == NetworkInv /\ NetworkRestart => NetworkInv'
  <1> SUFFICES ASSUME NetworkInv, NetworkRestart PROVE NetworkInv'
    OBVIOUS
  <1>1. Cardinality(up) \in Nat
    BY NetworksAssumption, FS_Subset, FS_CardinalityType DEF NetworkInv, NetworkTypeOK
  <1>2. callbacks' \in Seq({"available", "lost"}) /\ Len(callbacks') = Cardinality(up)
    BY <1>1 DEF NetworkRestart
  <1>3. up = {} => callbacks' = <<>>
    BY <1>2, FS_EmptySet
  <1> QED
    BY <1>2, <1>3 DEF NetworkInv, NetworkTypeOK, LossIsLast, NetworkRestart

\* Every step of the system keeps the invariant of the network.
LEMMA NetworkInvStep == NetworkInv /\ [Next]_vars => NetworkInv'
  <1> SUFFICES ASSUME NetworkInv, [Next]_vars PROVE NetworkInv'
    OBVIOUS
  <1>1. CASE NetworkNext
    BY <1>1, NetworkInvNext
  <1>2. CASE Crash
    BY <1>2, NetworkInvRestart DEF Crash
  <1>3. CASE UNCHANGED networkVars
    BY <1>3 DEF networkVars, NetworkInv, NetworkTypeOK, LossIsLast
  <1> QED
    BY <1>1, <1>2, <1>3 DEF Next, RefreshNext, LoadNext, vars

\* The app never goes on believing it is online after its last network is gone and every
\* callback has run: a host test that outlasts the network delays onLost and is not able to
\* cover it up.
THEOREM NeverStaleOnline == Spec => []NoStaleOnline
  <1>1. NetworkInv => NoStaleOnline
    BY DEF NetworkInv, LossIsLast, NoStaleOnline, isOnline
  <1> QED
    BY NetworkInvInit, NetworkInvStep, <1>1, PTL DEF Spec

-----------------------------------------------------------------------------
(* The file *)

\* While no two have used the file at once, it is the beginning of one list, known to whoever
\* writes or reads it.  The two invariants proved below, LoadedListIsLastWritten and
\* DialogMeansSaved, speak of the end of that only: FileInv says how it comes about.

\* The first n pieces of a list
PiecesOf(l, n) == [i \in 1 .. n |-> <<l, i>>]

RefreshLabels == {"none", "check", "fetch", "open", "write", "ui", "done", "died", "gone"}

RefreshRecord == [pc : RefreshLabels, written : Nat, thrown : BOOLEAN]

RefreshTypes ==
    /\ refresh \in [Refreshes -> RefreshRecord]
    /\ dialogs \subseteq Refreshes

Piece == (Lists \cup {"zero"}) \X Nat

LoadLabels == {"none", "copyOpen", "copy", "open", "read", "done"}

\* Nothing is counted as copied or read before its time.
LoadTypes ==
    /\ load \in [pc : LoadLabels, written : Nat, text : Seq(Piece), from : Lists \cup {"none"},
                 result : Lists \cup {"none", "EMPTY", "MIXED"}]
    /\ load.pc # "copy" => load.written = 0
    /\ load.pc # "read" => load.text = <<>>

FileTypes == exists \in BOOLEAN /\ overlap \in BOOLEAN /\ file \in Seq(Piece)
             /\ lastOpened \in Lists \cup {"none"}

\* A refresh has something to show for itself only when its text is written, and tells the
\* user last.
RefreshOrder ==
    \A r \in Refreshes :
        /\ ~refresh[r].thrown => At(r, "ui")
        /\ ~At(r, "write") => refresh[r].written = 0
        /\ r \in dialogs => refresh[r].pc \in {"done", "gone"}

\* The file is the beginning of the list whose writer opened it last.
FileIsPrefix ==
    exists => lastOpened \in Lists
              /\ \E n \in 0 .. Pieces[lastOpened] : file = PiecesOf(lastOpened, n)

WriterOwnsFile ==
    \A r \in Refreshes :
        At(r, "write") => /\ exists /\ lastOpened = r
                          /\ refresh[r].written \in 0 .. Pieces[r]
                          /\ file = PiecesOf(r, refresh[r].written)

CopierOwnsFile ==
    Copying => /\ exists /\ lastOpened = Packaged
               /\ load.written \in 0 .. Pieces[Packaged]
               /\ file = PiecesOf(Packaged, load.written)

ReaderFollowsFile ==
    Reading => /\ exists /\ load.from = lastOpened /\ Writing = {}
               /\ \E n \in 0 .. Len(file) : load.text = PiecesOf(lastOpened, n)

\* A refresh that has closed the file, or told the user so, has written its whole list.
SavedIsWhole ==
    \A r \in Refreshes :
        lastOpened = r /\ (r \in dialogs \/ ~refresh[r].thrown) => file = PiecesOf(r, Pieces[r])

Alone == /\ FileIsPrefix /\ WriterOwnsFile /\ CopierOwnsFile /\ ReaderFollowsFile
         /\ SavedIsWhole

FileInv == RefreshTypes /\ LoadTypes /\ FileTypes /\ RefreshOrder /\ LoadedListIsLastWritten
           /\ (~overlap => Alone)

\* Two lists that begin alike are one list; every list has a first piece.
LEMMA PiecesFacts ==
    ASSUME NEW l \in Lists
    PROVE  /\ Pieces[l] \in Nat \ {0}
           /\ PiecesOf(l, 0) = <<>>
           /\ \A n \in Nat : /\ PiecesOf(l, n) \in Seq(Piece) /\ Len(PiecesOf(l, n)) = n
                            /\ \A i \in 1 .. n : PiecesOf(l, n)[i] = <<l, i>>
  <1>1. Pieces[l] \in Nat \ {0}
    BY ListAssumption
  <1>2. ASSUME NEW n \in Nat
        PROVE  /\ PiecesOf(l, n) \in Seq(Piece) /\ Len(PiecesOf(l, n)) = n
               /\ \A i \in 1 .. n : PiecesOf(l, n)[i] = <<l, i>>
    BY DEF PiecesOf, Piece
  <1>3. PiecesOf(l, 0) = <<>>
    BY <1>2, EmptySeq
  <1> QED
    BY <1>1, <1>2, <1>3

\* What is read of a list is the list or an empty one: JSONArray takes no beginning of a
\* list for a list.
LEMMA ParsePrefix ==
    ASSUME NEW l \in Lists, NEW n \in 0 .. Pieces[l]
    PROVE  Parse(PiecesOf(l, n)) = IF n = Pieces[l] THEN l ELSE "EMPTY"
  <1> DEFINE text == PiecesOf(l, n)
             Starts(k) == Len(text) >= Pieces[k]
                          /\ \A i \in 1 .. Pieces[k] : text[i] = <<k, i>>
             Prefix(k) == \A i \in 1 .. Len(text) : text[i] = <<k, i>>
  <1>1. Pieces[l] \in Nat \ {0} /\ n \in Nat /\ Len(text) = n
        /\ \A i \in 1 .. n : text[i] = <<l, i>>
    <2>1. Pieces[l] \in Nat \ {0}
      BY PiecesFacts
    <2>2. n \in Nat
      BY <2>1
    <2> QED
      BY <2>1, <2>2, PiecesFacts
  <1>2. ASSUME NEW k \in Lists, Starts(k) PROVE k = l
    <2>1. Pieces[k] \in Nat \ {0}
      BY PiecesFacts
    <2>2. 1 \in 1 .. Pieces[k] /\ 1 \in 1 .. n
      BY <1>1, <1>2, <2>1
    <2>3. text[1] = <<k, 1>> /\ text[1] = <<l, 1>>
      BY <1>1, <1>2, <2>2
    <2> QED
      BY <2>3
  <1>3. Starts(l) <=> n = Pieces[l]
    BY <1>1
  <1>4. Prefix(l)
    BY <1>1
  <1>5. CASE n = Pieces[l]
    <2>1. (CHOOSE k \in Lists : Starts(k)) = l
      BY <1>2, <1>3, <1>5
    <2> QED
      BY <1>3, <1>5, <2>1 DEF Parse
  <1>6. CASE n # Pieces[l]
    <2>1. ~ \E k \in Lists : Starts(k)
      BY <1>2, <1>3, <1>6
    <2>2. \E k \in Lists : Prefix(k)
      BY <1>4
    <2> QED
      BY <1>6, <2>1, <2>2 DEF Parse
  <1> QED
    BY <1>5, <1>6

\* A piece that follows the ones there are.
LEMMA NextPiece ==
    ASSUME NEW l \in Lists, NEW n \in Nat, file = PiecesOf(l, n)
    PROVE  WithPiece(n + 1, <<l, n + 1>>) = PiecesOf(l, n + 1)
  BY PiecesFacts DEF WithPiece, PiecesOf

\* The same, for a text that is read.
LEMMA AppendPiece ==
    ASSUME NEW l \in Lists, NEW n \in Nat
    PROVE  Append(PiecesOf(l, n), <<l, n + 1>>) = PiecesOf(l, n + 1)
  BY PiecesFacts DEF PiecesOf

\* Whatever the text, JSONArray makes a list, an empty one or a mixed one of it.
LEMMA ParseType == ASSUME NEW text PROVE Parse(text) \in Lists \cup {"EMPTY", "MIXED"}
  BY DEF Parse

\* A piece anywhere.
LEMMA WithPieceType ==
    ASSUME NEW i \in Nat, NEW piece \in Piece, file \in Seq(Piece)
    PROVE  WithPiece(i, piece) \in Seq(Piece)
  BY DEF WithPiece, Piece, Zero

-----------------------------------------------------------------------------
(* Steps of a refresh *)

\* A step that leaves the file and the load alone, starts no writing and changes none that
\* goes on, and calls nothing saved that was not.
LEMMA FileAlone ==
    ASSUME FileInv, UNCHANGED fileVars, UNCHANGED load, RefreshTypes', RefreshOrder',
           \A r \in Refreshes : refresh'[r].pc = "write" => refresh'[r] = refresh[r],
           \A r \in Refreshes : r \in dialogs' \/ ~refresh'[r].thrown
                               => \/ r \in dialogs \/ ~refresh[r].thrown
                                  \/ At(r, "write") /\ refresh[r].written = Pieces[r]
    PROVE  FileInv'
  <1>1. LoadTypes' /\ FileTypes' /\ LoadedListIsLastWritten' /\ UNCHANGED overlap
    BY DEF FileInv, LoadTypes, FileTypes, LoadedListIsLastWritten, fileVars
  <1>2. ASSUME Alone PROVE Alone'
    <2>1. FileIsPrefix' /\ CopierOwnsFile'
      BY <1>2 DEF Alone, FileIsPrefix, CopierOwnsFile, Copying, fileVars
    <2>2. WriterOwnsFile'
      BY <1>2 DEF Alone, WriterOwnsFile, At, fileVars
    <2>3. ReaderFollowsFile'
      BY <1>2 DEF Alone, ReaderFollowsFile, Reading, Writing, fileVars
    <2>4. SavedIsWhole'
      BY <1>2 DEF Alone, SavedIsWhole, WriterOwnsFile, fileVars
    <2> QED
      BY <2>1, <2>2, <2>3, <2>4 DEF Alone
  <1> QED
    BY <1>1, <1>2 DEF FileInv

\* What a step of one refresh has to respect, in terms of its record alone.
LEMMA OneRefresh ==
    ASSUME FileInv, NEW r \in Refreshes, NEW v \in RefreshRecord,
           refresh' = [refresh EXCEPT ![r] = v], UNCHANGED fileVars, UNCHANGED load,
           dialogs' \in {dialogs, dialogs \cup {r}},
           v.pc # "write", v.written = 0, ~v.thrown => v.pc = "ui",
           r \in dialogs' => v.pc \in {"done", "gone"},
           r \in dialogs' => r \in dialogs \/ ~refresh[r].thrown,
           ~v.thrown => \/ ~refresh[r].thrown
                        \/ At(r, "write") /\ refresh[r].written = Pieces[r]
    PROVE  FileInv'
  <1>1. /\ refresh'[r] = v /\ refresh' \in [Refreshes -> RefreshRecord]
        /\ \A q \in Refreshes \ {r} : refresh'[q] = refresh[q]
    BY DEF FileInv, RefreshTypes
  <1>2. RefreshTypes'
    BY <1>1 DEF FileInv, RefreshTypes
  <1>3. RefreshOrder'
    BY <1>1 DEF FileInv, RefreshOrder, At
  <1>4. ASSUME NEW q \in Refreshes
        PROVE  /\ refresh'[q].pc = "write" => refresh'[q] = refresh[q]
               /\ q \in dialogs' \/ ~refresh'[q].thrown
                    => \/ q \in dialogs \/ ~refresh[q].thrown
                       \/ At(q, "write") /\ refresh[q].written = Pieces[q]
    <2>1. CASE q = r
      BY <1>1, <2>1
    <2>2. CASE q # r
      BY <1>1, <2>2
    <2> QED
      BY <2>1, <2>2
  <1> QED
    BY <1>2, <1>3, <1>4, FileAlone

\* Only refresh r moves on, to a label other than "write".
LEMMA RefreshGoes ==
    ASSUME FileInv, NEW r \in Refreshes, NEW label \in RefreshLabels, label # "write",
           Goto(r, label), UNCHANGED fileVars, UNCHANGED load, UNCHANGED dialogs,
           refresh[r].pc \notin {"write", "ui", "done", "gone"}
    PROVE  FileInv'
  <1> DEFINE v == [refresh[r] EXCEPT !.pc = label]
  <1>1. refresh[r] \in RefreshRecord /\ refresh' = [refresh EXCEPT ![r] = v]
    BY DEF FileInv, RefreshTypes, Goto
  <1>2. refresh[r].thrown /\ refresh[r].written = 0 /\ r \notin dialogs
    BY DEF FileInv, RefreshOrder, At
  <1>3. v \in RefreshRecord /\ v.pc = label /\ v.written = 0 /\ v.thrown
    BY <1>1, <1>2 DEF RefreshRecord, RefreshLabels
  <1> HIDE DEF v
  <1> QED
    BY <1>1, <1>2, <1>3, OneRefresh

\* The records a refresh has outside of its writing.
LEMMA RefreshAtType ==
    ASSUME NEW label \in RefreshLabels, NEW t \in BOOLEAN
    PROVE  /\ RefreshAt(label, t) \in RefreshRecord
           /\ RefreshAt(label, t).pc = label
           /\ RefreshAt(label, t).written = 0
           /\ RefreshAt(label, t).thrown = t
  BY DEF RefreshAt, RefreshRecord, RefreshLabels

\* The file is closed, or its writing fails.
LEMMA WrittenInv ==
    ASSUME FileInv, NEW r \in Refreshes, Written(r) \/ WriteFails(r), UNCHANGED load
    PROVE  FileInv'
  <1>0. r \notin dialogs
    BY DEF FileInv, RefreshOrder, At, Written, WriteFails
  <1>1. CASE Written(r)
    <2>1. /\ refresh' = [refresh EXCEPT ![r] = RefreshAt("ui", FALSE)]
          /\ At(r, "write") /\ refresh[r].written = Pieces[r]
      BY <1>1 DEF Written
    <2>2. UNCHANGED fileVars /\ UNCHANGED dialogs
      BY <1>1 DEF Written, fileVars, screenVars
    <2>3. RefreshAt("ui", FALSE) \in RefreshRecord /\ RefreshAt("ui", FALSE).pc = "ui"
          /\ RefreshAt("ui", FALSE).written = 0
      BY RefreshAtType DEF RefreshLabels
    <2> QED
      BY <1>0, <2>1, <2>2, <2>3, OneRefresh
  <1>2. CASE WriteFails(r)
    <2>1. refresh' = [refresh EXCEPT ![r] = RefreshAt("ui", TRUE)]
      BY <1>2 DEF WriteFails
    <2>2. UNCHANGED fileVars /\ UNCHANGED dialogs
      BY <1>2 DEF WriteFails, fileVars, screenVars
    <2>3. RefreshAt("ui", TRUE) \in RefreshRecord /\ RefreshAt("ui", TRUE).pc = "ui"
          /\ RefreshAt("ui", TRUE).written = 0 /\ RefreshAt("ui", TRUE).thrown
      BY RefreshAtType DEF RefreshLabels
    <2> QED
      BY <1>0, <2>1, <2>2, <2>3, OneRefresh
  <1> QED
    BY <1>1, <1>2

\* The user is told, if there is something to tell and somebody to tell it to.
LEMMA UiThreadInv ==
    ASSUME FileInv, NEW r \in Refreshes, uiThread(r), UNCHANGED load
    PROVE  FileInv'
  <1>1. dialogs' \in {dialogs, dialogs \cup {r}}
    BY DEF uiThread
  <1>2. r \in dialogs' => r \in dialogs \/ ~refresh[r].thrown
    BY DEF uiThread
  <1>3. refresh' = [refresh EXCEPT ![r] = RefreshAt("done", TRUE)]
    BY DEF uiThread
  <1>4. UNCHANGED fileVars
    BY DEF uiThread, fileVars
  <1>5. RefreshAt("done", TRUE) \in RefreshRecord /\ RefreshAt("done", TRUE).pc = "done"
        /\ RefreshAt("done", TRUE).written = 0 /\ RefreshAt("done", TRUE).thrown
    BY RefreshAtType DEF RefreshLabels
  <1> QED
    BY <1>1, <1>2, <1>3, <1>4, <1>5, OneRefresh

\* Whoever opens the file to write it has it to himself, or it is an overlap.
LEMMA Opened ==
    ASSUME FileInv, NEW l \in Lists, OpenToWrite(l)
    PROVE  /\ FileTypes' /\ FileIsPrefix' /\ file' = PiecesOf(l, 0) /\ exists' /\ lastOpened' = l
           /\ ~overlap' => Writing = {} /\ ~Copying /\ ~Reading /\ Alone
  <1>1. file' = PiecesOf(l, 0) /\ file' \in Seq(Piece) /\ 0 \in 0 .. Pieces[l]
    BY PiecesFacts DEF OpenToWrite
  <1> QED
    BY <1>1 DEF OpenToWrite, FileTypes, FileIsPrefix, FileInv

\* A refresh opens the file, or fails to.
LEMMA OpenFileInv ==
    ASSUME FileInv, NEW r \in Refreshes, OpenFile(r), UNCHANGED load
    PROVE  FileInv'
  <1>0. refresh[r].pc = "open" /\ UNCHANGED dialogs
    BY DEF OpenFile, At, screenVars
  <1>a. refresh[r] \in RefreshRecord /\ refresh \in [Refreshes -> RefreshRecord]
    BY DEF FileInv, RefreshTypes
  <1>b. refresh[r].written = 0 /\ refresh[r].thrown /\ r \notin dialogs
    BY <1>0 DEF FileInv, RefreshOrder, At
  <1>1. CASE Goto(r, "ui") /\ UNCHANGED fileVars
    <2>1. refresh[r].pc \notin {"write", "ui", "done", "gone"}
      BY <1>0
    <2> QED
      BY <1>0, <1>1, <2>1, RefreshGoes DEF RefreshLabels
  <1>2. CASE OpenToWrite(r) /\ Goto(r, "write")
    <2>1. r \in Lists /\ r # Packaged
      BY ListAssumption DEF Lists
    <2>2. /\ refresh'[r].pc = "write" /\ refresh'[r].written = 0 /\ refresh'[r].thrown
          /\ refresh' \in [Refreshes -> RefreshRecord]
          /\ \A q \in Refreshes \ {r} : refresh'[q] = refresh[q]
      <3> DEFINE v == [refresh[r] EXCEPT !.pc = "write"]
      <3>1. v \in RefreshRecord /\ v.pc = "write" /\ v.written = 0 /\ v.thrown
        BY <1>a, <1>b DEF RefreshRecord, RefreshLabels
      <3>2. refresh' = [refresh EXCEPT ![r] = v]
        BY <1>a, <1>2 DEF Goto
      <3> HIDE DEF v
      <3> QED
        BY <1>a, <3>1, <3>2
    <2>3. RefreshTypes' /\ LoadTypes'
      BY <1>0, <1>b, <2>2 DEF FileInv, RefreshTypes, LoadTypes
    <2>4. RefreshOrder'
      BY <1>0, <1>b, <2>2 DEF FileInv, RefreshOrder, At
    <2>5. FileTypes' /\ LoadedListIsLastWritten'
      BY <1>2, <2>1, Opened DEF FileInv, LoadedListIsLastWritten, OpenToWrite
    <2>6. ASSUME ~overlap' PROVE Alone'
      <3>1. /\ Writing = {} /\ ~Copying /\ ~Reading /\ FileIsPrefix'
            /\ file' = PiecesOf(r, 0) /\ exists' /\ lastOpened' = r
        BY <1>2, <2>1, <2>6, Opened
      <3>2. WriterOwnsFile'
        BY <2>1, <2>2, <3>1, PiecesFacts DEF WriterOwnsFile, At, Writing
      <3>3. CopierOwnsFile' /\ ReaderFollowsFile'
        BY <3>1 DEF CopierOwnsFile, ReaderFollowsFile, Copying, Reading
      <3>4. SavedIsWhole'
        BY <1>0, <1>b, <2>2, <3>1 DEF SavedIsWhole
      <3> QED
        BY <3>1, <3>2, <3>3, <3>4 DEF Alone
    <2> QED
      BY <2>3, <2>4, <2>5, <2>6 DEF FileInv
  <1> QED
    BY <1>1, <1>2 DEF OpenFile

\* A refresh writes the piece that follows.
LEMMA WriteTextInv ==
    ASSUME FileInv, NEW r \in Refreshes, WriteText(r), UNCHANGED load
    PROVE  FileInv'
  <1> DEFINE n == refresh[r].written
  <1>0. /\ refresh[r].pc = "write" /\ UNCHANGED <<dialogs, exists, lastOpened, overlap>>
        /\ refresh \in [Refreshes -> RefreshRecord] /\ n \in Nat /\ n < Pieces[r]
        /\ file' = WithPiece(n + 1, <<r, n + 1>>)
    BY DEF WriteText, WritePiece, At, screenVars, FileInv, RefreshTypes, RefreshRecord
  <1>1. r \in Lists /\ r # Packaged
    BY ListAssumption DEF Lists
  <1>2. /\ refresh'[r].pc = "write" /\ refresh'[r].written = n + 1
        /\ refresh'[r].thrown = refresh[r].thrown
        /\ refresh' \in [Refreshes -> RefreshRecord]
        /\ \A q \in Refreshes \ {r} : refresh'[q] = refresh[q]
    BY <1>0 DEF WriteText, RefreshRecord
  <1>3. RefreshTypes' /\ LoadTypes'
    BY <1>0, <1>2 DEF FileInv, RefreshTypes, LoadTypes
  <1>4. RefreshOrder'
    BY <1>0, <1>2 DEF FileInv, RefreshOrder, At
  <1>5. FileTypes' /\ LoadedListIsLastWritten'
    <2>1. <<r, n + 1>> \in Piece /\ n + 1 \in Nat
      BY <1>0, <1>1 DEF Piece
    <2>2. file' \in Seq(Piece)
      BY <1>0, <2>1, WithPieceType DEF FileInv, FileTypes
    <2> QED
      BY <1>0, <2>2 DEF FileInv, FileTypes, LoadedListIsLastWritten
  <1>6. ASSUME ~overlap' PROVE Alone'
    <2>1. Alone /\ exists /\ lastOpened = r /\ file = PiecesOf(r, n)
      BY <1>0, <1>6 DEF FileInv, Alone, WriterOwnsFile, At
    <2>2. file' = PiecesOf(r, n + 1)
      BY <1>0, <1>1, <2>1, NextPiece
    <2>3. n + 1 \in 0 .. Pieces[r]
      <3>1. Pieces[r] \in Nat
        BY <1>1, PiecesFacts
      <3> QED
        BY <1>0, <3>1
    <2>4. FileIsPrefix'
      BY <1>0, <1>1, <2>1, <2>2, <2>3 DEF FileIsPrefix
    <2>5. WriterOwnsFile'
      BY <1>0, <1>2, <2>1, <2>2, <2>3 DEF Alone, WriterOwnsFile, At
    <2>6. CopierOwnsFile' /\ ReaderFollowsFile'
      BY <1>0, <1>1, <2>1 DEF Alone, CopierOwnsFile, ReaderFollowsFile, Copying, Reading,
                              Writing, At
    <2>7. SavedIsWhole'
      BY <1>0, <1>2, <2>1 DEF SavedIsWhole, FileInv, RefreshOrder, At
    <2> QED
      BY <2>4, <2>5, <2>6, <2>7 DEF Alone
  <1> QED
    BY <1>3, <1>4, <1>5, <1>6 DEF FileInv

\* All that a refresh does.
LEMMA RefreshInv == ASSUME FileInv, RefreshNext PROVE FileInv'
  <1>0. UNCHANGED load
    BY DEF RefreshNext
  <1>1. CASE LeaveSettings
    <2>1. UNCHANGED fileVars /\ UNCHANGED refresh /\ UNCHANGED dialogs
      BY <1>1 DEF LeaveSettings
    <2>2. RefreshTypes' /\ RefreshOrder'
      BY <2>1 DEF FileInv, RefreshTypes, RefreshOrder, At
    <2> QED
      BY <1>0, <2>1, <2>2, FileAlone
  <1>2. ASSUME NEW r \in Refreshes, onRefreshItemSelected(r) \/ CheckOnline(r) \/ createJson(r)
        PROVE  FileInv'
    <2>1. refresh[r].pc \notin {"write", "ui", "done", "gone"}
      BY <1>2 DEF onRefreshItemSelected, CheckOnline, createJson, At
    <2>2. PICK label \in {"check", "fetch", "open", "ui", "died"} : Goto(r, label)
      BY <1>2 DEF onRefreshItemSelected, CheckOnline, createJson
    <2>3. UNCHANGED fileVars /\ UNCHANGED dialogs
      BY <1>2 DEF onRefreshItemSelected, CheckOnline, createJson, screenVars
    <2>4. label \in RefreshLabels /\ label # "write"
      BY DEF RefreshLabels
    <2> QED
      BY <1>0, <2>1, <2>2, <2>3, <2>4, RefreshGoes
  <1>3. ASSUME NEW r \in Refreshes,
               OpenFile(r) \/ WriteText(r) \/ Written(r) \/ WriteFails(r) \/ uiThread(r)
        PROVE  FileInv'
    BY <1>0, <1>3, OpenFileInv, WriteTextInv, WrittenInv, UiThreadInv
  <1> QED
    BY <1>1, <1>2, <1>3 DEF RefreshNext, Refresh

-----------------------------------------------------------------------------
(* Steps of the load *)

\* A step of the load that leaves the file alone.
LEMMA FileRead ==
    ASSUME FileInv, UNCHANGED <<exists, file, lastOpened>>, UNCHANGED <<refresh, dialogs>>,
           overlap' \in BOOLEAN, overlap => overlap',
           LoadTypes', LoadedListIsLastWritten',
           ~overlap' => CopierOwnsFile' /\ ReaderFollowsFile'
    PROVE  FileInv'
  <1>1. RefreshTypes' /\ RefreshOrder' /\ FileTypes'
    BY DEF FileInv, RefreshTypes, RefreshOrder, FileTypes, At
  <1>2. ASSUME ~overlap' PROVE Alone'
    <2>1. Alone
      BY <1>2 DEF FileInv
    <2>2. FileIsPrefix' /\ WriterOwnsFile' /\ SavedIsWhole'
      BY <2>1 DEF Alone, FileIsPrefix, WriterOwnsFile, SavedIsWhole, At
    <2> QED
      BY <1>2, <2>2 DEF Alone
  <1> QED
    BY <1>1, <1>2 DEF FileInv

\* The load starts, ends its copying or fails.
LEMMA LoadGoes ==
    ASSUME FileInv, UNCHANGED fileVars, UNCHANGED <<refresh, dialogs>>,
           LoadTypes', load'.pc \in {"open", "copyOpen", "done"},
           load'.pc = "done" => load'.result = "EMPTY"
    PROVE  FileInv'
  <1>1. LoadedListIsLastWritten' /\ CopierOwnsFile' /\ ReaderFollowsFile'
    BY DEF LoadedListIsLastWritten, CopierOwnsFile, ReaderFollowsFile, Copying, Reading
  <1>2. UNCHANGED overlap /\ overlap \in BOOLEAN /\ UNCHANGED <<exists, file, lastOpened>>
    BY DEF fileVars, FileInv, FileTypes
  <1> QED
    BY <1>1, <1>2, FileRead

\* An exception in createJsonArray ends in an empty list.
LEMMA LoadFailsInv ==
    ASSUME FileInv, UNCHANGED fileVars, UNCHANGED <<refresh, dialogs>>, LoadFails
    PROVE  FileInv'
  <1>1. load' = [pc |-> "done", written |-> 0, text |-> <<>>, from |-> "none", result |-> "EMPTY"]
    BY DEF LoadFails, NoLoad
  <1>2. LoadTypes' /\ load'.pc = "done" /\ load'.result = "EMPTY"
    BY <1>1 DEF LoadTypes, LoadLabels
  <1> QED
    BY <1>2, LoadGoes

\* The load is asked for.
LEMMA JsonArrayInv ==
    ASSUME FileInv, UNCHANGED <<refresh, dialogs>>, jsonArray
    PROVE  FileInv'
  <1>1. PICK label \in {"open", "copyOpen"} :
            load' = [pc |-> label, written |-> 0, text |-> <<>>, from |-> "none", result |-> "none"]
    BY DEF jsonArray, NoLoad
  <1>2. LoadTypes' /\ load'.pc \in {"open", "copyOpen"}
    BY <1>1 DEF LoadTypes, LoadLabels
  <1> QED
    BY <1>2, LoadGoes DEF jsonArray

\* CopyOpen opens the file for the packaged list, or fails.
LEMMA CopyOpenInv ==
    ASSUME FileInv, UNCHANGED <<refresh, dialogs>>, CopyOpen
    PROVE  FileInv'
  <1>0. Packaged \in Lists /\ Packaged \notin Refreshes
    BY ListAssumption DEF Lists
  <1>1. CASE LoadFails /\ UNCHANGED fileVars
    BY <1>1, LoadFailsInv
  <1>2. CASE OpenToWrite(Packaged) /\ load' = [load EXCEPT !.pc = "copy"]
    <2>1. LoadTypes' /\ load'.pc = "copy" /\ load'.written = 0
      BY <1>2 DEF CopyOpen, FileInv, LoadTypes, LoadLabels
    <2>2. RefreshTypes' /\ RefreshOrder' /\ LoadedListIsLastWritten'
      BY <2>1 DEF FileInv, RefreshTypes, RefreshOrder, At, LoadedListIsLastWritten
    <2>3. FileTypes'
      BY <1>0, <1>2, Opened
    <2>4. ASSUME ~overlap' PROVE Alone'
      <3>1. /\ Writing = {} /\ FileIsPrefix'
            /\ file' = PiecesOf(Packaged, 0) /\ exists' /\ lastOpened' = Packaged
        BY <1>0, <1>2, <2>4, Opened
      <3>2. WriterOwnsFile' /\ SavedIsWhole'
        BY <1>0, <3>1 DEF WriterOwnsFile, SavedIsWhole, At, Writing
      <3>3. CopierOwnsFile' /\ ReaderFollowsFile'
        BY <1>0, <2>1, <3>1, PiecesFacts DEF CopierOwnsFile, ReaderFollowsFile, Copying, Reading
      <3> QED
        BY <3>1, <3>2, <3>3 DEF Alone
    <2> QED
      BY <2>1, <2>2, <2>3, <2>4 DEF FileInv
  <1> QED
    BY <1>1, <1>2 DEF CopyOpen

\* copyRawResourceToFile writes the piece that follows, or is done.
LEMMA CopyPieceInv ==
    ASSUME FileInv, UNCHANGED <<refresh, dialogs>>, copyRawResourceToFile
    PROVE  FileInv'
  <1> DEFINE n == load.written
  <1>0. /\ Packaged \in Lists /\ Packaged \notin Refreshes
        /\ load.pc = "copy" /\ n \in Nat
    BY ListAssumption DEF Lists, copyRawResourceToFile, Copying, FileInv, LoadTypes
  <1>1. CASE ~(n < Pieces[Packaged])
    <2>1. /\ load' = [pc |-> "open", written |-> 0, text |-> <<>>, from |-> "none",
                      result |-> "none"]
          /\ UNCHANGED fileVars
      BY <1>1 DEF copyRawResourceToFile, NoLoad
    <2>2. LoadTypes' /\ load'.pc = "open"
      BY <2>1 DEF LoadTypes, LoadLabels
    <2> QED
      BY <2>1, <2>2, LoadGoes
  <1>2. CASE n < Pieces[Packaged]
    <2>1. /\ file' = WithPiece(n + 1, <<Packaged, n + 1>>)
          /\ UNCHANGED <<exists, lastOpened, overlap>>
          /\ load' = [load EXCEPT !.written = n + 1]
      BY <1>2 DEF copyRawResourceToFile, WritePiece
    <2>2. LoadTypes' /\ load'.pc = "copy" /\ load'.written = n + 1
      BY <1>0, <2>1 DEF FileInv, LoadTypes, LoadLabels
    <2>3. RefreshTypes' /\ RefreshOrder' /\ LoadedListIsLastWritten'
      BY <2>2 DEF FileInv, RefreshTypes, RefreshOrder, At, LoadedListIsLastWritten
    <2>4. FileTypes'
      <3>1. <<Packaged, n + 1>> \in Piece /\ n + 1 \in Nat
        BY <1>0 DEF Piece
      <3>2. file' \in Seq(Piece)
        BY <2>1, <3>1, WithPieceType DEF FileInv, FileTypes
      <3> QED
        BY <2>1, <3>2 DEF FileInv, FileTypes
    <2>5. ASSUME ~overlap' PROVE Alone'
      <3>1. Alone /\ exists /\ lastOpened = Packaged /\ file = PiecesOf(Packaged, n)
        BY <1>0, <2>1, <2>5 DEF FileInv, Alone, CopierOwnsFile, Copying
      <3>2. file' = PiecesOf(Packaged, n + 1)
        BY <1>0, <2>1, <3>1, NextPiece
      <3>3. Pieces[Packaged] \in Nat
        BY <1>0, PiecesFacts
      <3>4. n + 1 \in 0 .. Pieces[Packaged]
        BY <1>0, <1>2, <3>3
      <3>5. FileIsPrefix' /\ CopierOwnsFile'
        BY <1>0, <2>1, <2>2, <3>1, <3>2, <3>4 DEF FileIsPrefix, CopierOwnsFile
      <3>6. WriterOwnsFile' /\ SavedIsWhole' /\ ReaderFollowsFile'
        BY <1>0, <2>1, <2>2, <3>1 DEF Alone, WriterOwnsFile, SavedIsWhole, ReaderFollowsFile,
                                      Reading, At
      <3> QED
        BY <3>5, <3>6 DEF Alone
    <2> QED
      BY <2>2, <2>3, <2>4, <2>5 DEF FileInv
  <1> QED
    BY <1>1, <1>2

\* The file is opened and read.
LEMMA ReadInv ==
    ASSUME FileInv, UNCHANGED <<refresh, dialogs>>, OpenToRead \/ ReadText \/ ReadEnds
    PROVE  FileInv'
  <1>1. CASE OpenToRead
    <2>1. /\ load' = [load EXCEPT !.pc = "read", !.from = lastOpened]
          /\ load.pc = "open" /\ exists
          /\ overlap' = (overlap \/ Writing # {}) /\ UNCHANGED <<exists, file, lastOpened>>
      BY <1>1 DEF OpenToRead
    <2>2. LoadTypes' /\ load'.pc = "read" /\ load'.from = lastOpened /\ load'.text = <<>>
      BY <2>1 DEF FileInv, LoadTypes, LoadLabels, FileTypes
    <2>3. LoadedListIsLastWritten' /\ CopierOwnsFile'
      BY <2>2 DEF LoadedListIsLastWritten, CopierOwnsFile, Copying
    <2>4. ASSUME ~overlap' PROVE ReaderFollowsFile'
      <3>1. Writing = {} /\ lastOpened \in Lists
        BY <2>1, <2>4 DEF FileInv, Alone, FileIsPrefix
      <3>2. 0 \in 0 .. Len(file) /\ PiecesOf(lastOpened, 0) = <<>>
        BY <3>1, PiecesFacts DEF FileInv, FileTypes
      <3> QED
        BY <2>1, <2>2, <3>1, <3>2 DEF ReaderFollowsFile, Writing, At
    <2>5. overlap' \in BOOLEAN /\ (overlap => overlap')
      BY <2>1
    <2> QED
      BY <2>1, <2>2, <2>3, <2>4, <2>5, FileRead
  <1>2. CASE ReadText
    <2> DEFINE k == Len(load.text)
    <2>1. /\ load.pc = "read" /\ k < Len(file) /\ UNCHANGED fileVars
          /\ load' = [load EXCEPT !.text = Append(load.text, file[k + 1])]
      BY <1>2 DEF ReadText, Reading
    <2>2. load.text \in Seq(Piece) /\ file \in Seq(Piece) /\ k \in Nat /\ Len(file) \in Nat
      BY DEF FileInv, LoadTypes, FileTypes
    <2>3. file[k + 1] \in Piece
      BY <2>1, <2>2
    <2>4. LoadTypes' /\ load'.pc = "read" /\ load'.text = Append(load.text, file[k + 1])
          /\ load'.from = load.from
      <3> DEFINE text == Append(load.text, file[k + 1])
      <3>1. text \in Seq(Piece)
        BY <2>2, <2>3
      <3>2. load' = [load EXCEPT !.text = text]
        BY <2>1
      <3> HIDE DEF text
      <3>3. LoadTypes' /\ load'.pc = "read" /\ load'.text = text /\ load'.from = load.from
        BY <2>1, <3>1, <3>2 DEF FileInv, LoadTypes
      <3> QED
        BY <3>3 DEF text
    <2>5. LoadedListIsLastWritten' /\ CopierOwnsFile'
      BY <2>4 DEF LoadedListIsLastWritten, CopierOwnsFile, Copying
    <2>6. UNCHANGED <<exists, file, lastOpened>> /\ UNCHANGED overlap /\ overlap \in BOOLEAN
      BY <2>1 DEF fileVars, FileInv, FileTypes
    <2>7. ASSUME ~overlap' PROVE ReaderFollowsFile'
      <3>1. Alone /\ exists /\ load.from = lastOpened /\ Writing = {} /\ lastOpened \in Lists
        BY <2>1, <2>6, <2>7 DEF FileInv, Alone, FileIsPrefix, ReaderFollowsFile, Reading
      <3>2. PICK m \in 0 .. Pieces[lastOpened] : file = PiecesOf(lastOpened, m)
        BY <3>1 DEF Alone, FileIsPrefix
      <3>3. PICK j \in 0 .. Len(file) : load.text = PiecesOf(lastOpened, j)
        BY <2>1, <3>1 DEF Alone, ReaderFollowsFile, Reading
      <3>4. Pieces[lastOpened] \in Nat
        BY <3>1, PiecesFacts
      <3>5. m \in Nat /\ j \in Nat
        BY <2>2, <3>4
      <3>6. Len(file) = m /\ k = j
        BY <3>1, <3>2, <3>3, <3>5, PiecesFacts
      <3>7. j + 1 \in 1 .. m /\ j + 1 \in 0 .. Len(file)
        BY <2>1, <3>5, <3>6
      <3>8. file[j + 1] = <<lastOpened, j + 1>>
        BY <3>1, <3>2, <3>5, <3>7, PiecesFacts
      <3>9. load'.text = PiecesOf(lastOpened, j + 1)
        BY <2>4, <3>1, <3>3, <3>5, <3>6, <3>8, AppendPiece
      <3> QED
        BY <2>4, <2>6, <3>1, <3>7, <3>9 DEF ReaderFollowsFile, Writing, At
    <2> QED
      BY <2>4, <2>5, <2>6, <2>7, FileRead
  <1>3. CASE ReadEnds
    <2>1. /\ load.pc = "read" /\ Len(load.text) >= Len(file) /\ UNCHANGED fileVars
          /\ load' = [pc |-> "done", written |-> 0, text |-> <<>>, from |-> load.from,
                      result |-> Parse(load.text)]
      BY <1>3 DEF ReadEnds, Reading, NoLoad
    <2>2. load.from \in Lists \cup {"none"}
          /\ Parse(load.text) \in Lists \cup {"none", "EMPTY", "MIXED"}
      BY ParseType DEF FileInv, LoadTypes
    <2>3. LoadTypes'
      BY <2>1, <2>2 DEF LoadTypes, LoadLabels
    <2>4. CopierOwnsFile' /\ ReaderFollowsFile'
      BY <2>1 DEF CopierOwnsFile, ReaderFollowsFile, Copying, Reading
    <2>5. UNCHANGED <<exists, file, lastOpened>> /\ UNCHANGED overlap /\ overlap \in BOOLEAN
      BY <2>1 DEF fileVars, FileInv, FileTypes
    <2>6. ASSUME ~overlap' PROVE Parse(load.text) \in {load.from, "EMPTY"}
      <3>1. Alone /\ exists /\ load.from = lastOpened /\ lastOpened \in Lists
        BY <2>1, <2>5, <2>6 DEF FileInv, Alone, FileIsPrefix, ReaderFollowsFile, Reading
      <3>2. PICK m \in 0 .. Pieces[lastOpened] : file = PiecesOf(lastOpened, m)
        BY <3>1 DEF Alone, FileIsPrefix
      <3>3. PICK j \in 0 .. Len(file) : load.text = PiecesOf(lastOpened, j)
        BY <2>1, <3>1 DEF Alone, ReaderFollowsFile, Reading
      <3>4. Pieces[lastOpened] \in Nat /\ Len(file) \in Nat
        BY <3>1, PiecesFacts DEF FileInv, FileTypes
      <3>5. m \in Nat /\ j \in Nat
        BY <3>4
      <3>6. Len(file) = m /\ Len(load.text) = j
        BY <3>1, <3>2, <3>3, <3>5, PiecesFacts
      <3>7. j = m
        BY <2>1, <3>5, <3>6
      <3> QED
        BY <3>1, <3>2, <3>3, <3>7, ParsePrefix
    <2>7. LoadedListIsLastWritten'
      BY <2>1, <2>6 DEF LoadedListIsLastWritten
    <2> QED
      BY <2>3, <2>4, <2>5, <2>7, FileRead
  <1> QED
    BY <1>1, <1>2, <1>3

\* All that the load does.
LEMMA LoadInv == ASSUME FileInv, LoadNext PROVE FileInv'
  <1>1. UNCHANGED <<refresh, dialogs>>
    BY DEF LoadNext, screenVars
  <1>2. CASE CopyFails \/ ReadFails
    BY <1>1, <1>2, LoadFailsInv DEF CopyFails, ReadFails
  <1> QED
    BY <1>1, <1>2, JsonArrayInv, CopyOpenInv, CopyPieceInv, ReadInv DEF LoadNext

-----------------------------------------------------------------------------
(* The whole *)

\* There is no file at first.
LEMMA FileInvInit == Init => FileInv
  <1> SUFFICES ASSUME Init PROVE FileInv
    OBVIOUS
  <1>1. load = [pc |-> "none", written |-> 0, text |-> <<>>, from |-> "none", result |-> "none"]
    BY DEF Init, NoLoad
  <1>2. \A r \in Refreshes : refresh[r] = RefreshAt("none", TRUE)
    BY DEF Init, NoRefresh
  <1>3. RefreshTypes /\ RefreshOrder
    BY <1>2, RefreshAtType DEF Init, NoRefresh, RefreshTypes, RefreshOrder, At, RefreshLabels
  <1>4. LoadTypes /\ LoadedListIsLastWritten
    BY <1>1 DEF LoadTypes, LoadLabels, LoadedListIsLastWritten
  <1>5. FileTypes
    <2>1. exists = FALSE /\ overlap = FALSE
      BY DEF Init
    <2>2. file \in Seq(Piece) /\ lastOpened \in Lists \cup {"none"}
      BY DEF Init
    <2> QED
      BY <2>1, <2>2, Zenon DEF FileTypes
  <1>6. FileIsPrefix
    BY DEF Init, FileIsPrefix
  <1>7. CopierOwnsFile /\ ReaderFollowsFile
    BY <1>1 DEF CopierOwnsFile, ReaderFollowsFile, Copying, Reading
  <1>8. \A r \in Refreshes : refresh[r].pc = "none" /\ refresh[r].thrown
    BY <1>2 DEF RefreshAt
  <1>9. WriterOwnsFile
    BY <1>8 DEF WriterOwnsFile, At
  <1>10. dialogs = {}
    BY DEF Init
  <1>11. SavedIsWhole
    BY <1>8, <1>10 DEF SavedIsWhole
  <1> QED
    BY <1>3, <1>4, <1>5, <1>6, <1>7, <1>9, <1>11 DEF FileInv, Alone

\* The process dies wherever it is; the file keeps its beginning of a list.
LEMMA CrashInv == ASSUME FileInv, Crash PROVE FileInv'
  <1>1. load' = [pc |-> "none", written |-> 0, text |-> <<>>, from |-> "none", result |-> "none"]
    BY DEF Crash, NoLoad
  <1>2. /\ \A r \in Refreshes : refresh'[r] \in {RefreshAt("none", TRUE), RefreshAt("gone", TRUE)}
        /\ \A r \in Refreshes : refresh[r].pc # "none" => refresh'[r] = RefreshAt("gone", TRUE)
        /\ refresh' \in [Refreshes -> {RefreshAt("none", TRUE), RefreshAt("gone", TRUE)}]
    BY DEF Crash, NoRefresh, At
  <1>3. UNCHANGED fileVars /\ UNCHANGED dialogs
    BY DEF Crash
  <1>4. /\ RefreshAt("none", TRUE) \in RefreshRecord /\ RefreshAt("gone", TRUE) \in RefreshRecord
        /\ RefreshAt("none", TRUE).pc = "none" /\ RefreshAt("gone", TRUE).pc = "gone"
        /\ RefreshAt("none", TRUE).written = 0 /\ RefreshAt("gone", TRUE).written = 0
        /\ RefreshAt("none", TRUE).thrown /\ RefreshAt("gone", TRUE).thrown
    BY RefreshAtType DEF RefreshLabels
  <1>5. RefreshTypes'
    BY <1>2, <1>3, <1>4 DEF FileInv, RefreshTypes
  <1>6. RefreshOrder'
    BY <1>2, <1>3, <1>4 DEF FileInv, RefreshOrder, At
  <1>7. LoadTypes' /\ FileTypes' /\ LoadedListIsLastWritten' /\ UNCHANGED overlap
    BY <1>1, <1>3 DEF FileInv, LoadTypes, LoadLabels, FileTypes, LoadedListIsLastWritten, fileVars
  <1>8. ASSUME Alone PROVE Alone'
    <2>1. FileIsPrefix' /\ CopierOwnsFile' /\ ReaderFollowsFile'
      BY <1>1, <1>3, <1>8 DEF Alone, FileIsPrefix, CopierOwnsFile, ReaderFollowsFile, Copying,
                              Reading, fileVars
    <2>2. WriterOwnsFile'
      BY <1>2, <1>4 DEF WriterOwnsFile, At
    <2>3. SavedIsWhole'
      BY <1>2, <1>3, <1>4, <1>8 DEF Alone, SavedIsWhole, fileVars
    <2> QED
      BY <2>1, <2>2, <2>3 DEF Alone
  <1> QED
    BY <1>5, <1>6, <1>7, <1>8 DEF FileInv

\* Every step of the system keeps the invariant of the file.
LEMMA FileInvNext == FileInv /\ [Next]_vars => FileInv'
  <1> SUFFICES ASSUME FileInv, [Next]_vars PROVE FileInv'
    OBVIOUS
  <1>1. CASE UNCHANGED fileVars /\ UNCHANGED <<refresh, load, dialogs>>
    <2>1. RefreshTypes' /\ RefreshOrder'
      BY <1>1 DEF FileInv, RefreshTypes, RefreshOrder, At
    <2> QED
      BY <1>1, <2>1, FileAlone
  <1> QED
    BY <1>1, RefreshInv, LoadInv, CrashInv DEF Next, vars, screenVars

\* Where no two have used the file at once, the map never gets pieces of two lists, and never
\* another list than the one that was written last: a crash, a full storage or a failing
\* read leaves it with an empty one (createJsonArray and the writers of its file).
THEOREM LoadedListIsWholeOrEmpty == Spec => []LoadedListIsLastWritten
  <1>1. FileInv => LoadedListIsLastWritten
    BY DEF FileInv
  <1> QED
    BY FileInvInit, FileInvNext, <1>1, PTL DEF Spec

\* When onRefreshItemSelected has told the user to restart the app, the file has the list of
\* that refresh, unless another writer has opened it since or was at it at the same time.
THEOREM DialogFollowsSaving == Spec => []DialogMeansSaved
  <1>1. FileInv => DialogMeansSaved
    <2> SUFFICES ASSUME FileInv, NEW r \in dialogs, ~overlap, lastOpened = r
                 PROVE  Parse(file) = r
      BY DEF DialogMeansSaved
    <2>1. r \in Refreshes /\ r \in Lists
      BY DEF FileInv, RefreshTypes, Lists
    <2>2. file = PiecesOf(r, Pieces[r])
      BY <2>1 DEF FileInv, Alone, SavedIsWhole
    <2>3. Pieces[r] \in 0 .. Pieces[r]
      BY <2>1, PiecesFacts
    <2> QED
      BY <2>1, <2>2, <2>3, ParsePrefix
  <1> QED
    BY FileInvInit, FileInvNext, <1>1, PTL DEF Spec

-----------------------------------------------------------------------------
(* Types *)

\* Nobody has written more than there is to write, also where several write at once and
\* FileInv says nothing of the file.
WrittenInBounds ==
    /\ progress \in BOOLEAN /\ settings \in BOOLEAN
    /\ \A r \in Refreshes : refresh[r].written <= Pieces[r]
    /\ load.written <= Pieces[Packaged]

\* How many pieces a list has.
LEMMA PiecesCount ==
    /\ \A r \in Refreshes : Pieces[r] \in Nat
    /\ Pieces[Packaged] \in Nat
  BY PiecesFacts DEF Lists

\* A step of a refresh keeps the bounds.
LEMMA RefreshInBounds ==
    ASSUME FileInv, WrittenInBounds, NEW r \in Refreshes, Refresh(r) \/ onRefreshItemSelected(r)
    PROVE  \A q \in Refreshes : refresh'[q].written <= Pieces[q]
  <1>0. /\ refresh \in [Refreshes -> RefreshRecord] /\ Pieces[r] \in Nat
        /\ \A q \in Refreshes : refresh[q].written <= Pieces[q]
    BY PiecesCount DEF FileInv, RefreshTypes, WrittenInBounds
  <1>1. refresh[r] \in RefreshRecord /\ refresh[r].written \in Nat
    BY <1>0 DEF RefreshRecord
  <1>2. ASSUME NEW label, Goto(r, label)
        PROVE  \A q \in Refreshes : refresh'[q].written = refresh[q].written
    BY <1>0, <1>2 DEF Goto, RefreshRecord
  <1>3. ASSUME NEW label, NEW thrown, refresh' = [refresh EXCEPT ![r] = RefreshAt(label, thrown)]
        PROVE  \A q \in Refreshes : refresh'[q].written <= Pieces[q]
    <2>1. RefreshAt(label, thrown).written = 0
      BY DEF RefreshAt
    <2> QED
      BY <1>0, <1>3, <2>1
  <1>4. CASE WriteText(r)
    <2>1. /\ refresh[r].written < Pieces[r]
          /\ refresh' = [refresh EXCEPT ![r] = [refresh[r] EXCEPT !.written = refresh[r].written + 1]]
      BY <1>4 DEF WriteText
    <2>2. /\ refresh'[r].written = refresh[r].written + 1
          /\ \A q \in Refreshes \ {r} : refresh'[q] = refresh[q]
      BY <1>0, <1>1, <2>1 DEF RefreshRecord
    <2> QED
      BY <1>0, <1>1, <2>1, <2>2
  <1>5. CASE Written(r) \/ WriteFails(r) \/ uiThread(r)
    BY <1>3, <1>5 DEF Written, WriteFails, uiThread
  <1>6. CASE onRefreshItemSelected(r) \/ CheckOnline(r) \/ createJson(r)
    <2>1. \E label : Goto(r, label)
      BY <1>6 DEF onRefreshItemSelected, CheckOnline, createJson
    <2> QED
      BY <1>0, <1>2, <2>1
  <1>7. CASE OpenFile(r)
    <2>1. \E label : Goto(r, label)
      BY <1>7 DEF OpenFile
    <2> QED
      BY <1>0, <1>2, <2>1
  <1> QED
    BY <1>4, <1>5, <1>6, <1>7 DEF Refresh

\* A step of the load does too.
LEMMA LoadInBounds ==
    ASSUME FileInv, WrittenInBounds, LoadNext
    PROVE  load'.written <= Pieces[Packaged]
  <1>0. /\ load.written <= Pieces[Packaged] /\ Pieces[Packaged] \in Nat /\ load.written \in Nat
        /\ load \in [pc : LoadLabels, written : Nat, text : Seq(Piece), from : Lists \cup {"none"},
                     result : Lists \cup {"none", "EMPTY", "MIXED"}]
    BY PiecesCount DEF FileInv, LoadTypes, WrittenInBounds
  <1>1. LoadFails => load'.written = 0
    BY DEF LoadFails, NoLoad
  <1>2. CASE jsonArray
    BY <1>0, <1>2 DEF jsonArray, NoLoad
  <1>3. CASE CopyOpen
    BY <1>0, <1>1, <1>3 DEF CopyOpen
  <1>4. CASE copyRawResourceToFile
    BY <1>0, <1>4 DEF copyRawResourceToFile, NoLoad
  <1>5. CASE CopyFails \/ ReadFails
    BY <1>0, <1>1, <1>5 DEF CopyFails, ReadFails
  <1>6. CASE OpenToRead \/ ReadText
    BY <1>0, <1>6 DEF OpenToRead, ReadText
  <1>7. CASE ReadEnds
    BY <1>0, <1>7 DEF ReadEnds, NoLoad
  <1> QED
    BY <1>2, <1>3, <1>4, <1>5, <1>6, <1>7 DEF LoadNext

\* Every step of the system keeps the bounds.
LEMMA InBoundsNext == FileInv /\ WrittenInBounds /\ [Next]_vars => WrittenInBounds'
  <1> SUFFICES ASSUME FileInv, WrittenInBounds, [Next]_vars PROVE WrittenInBounds'
    OBVIOUS
  <1>1. CASE RefreshNext
    <2>1. progress' \in BOOLEAN /\ settings' \in BOOLEAN /\ UNCHANGED load
      BY <1>1 DEF RefreshNext, WrittenInBounds, LeaveSettings, onRefreshItemSelected, Refresh,
                  CheckOnline, createJson, OpenFile, WriteText, Written, WriteFails, uiThread,
                  screenVars
    <2>2. \A r \in Refreshes : refresh'[r].written <= Pieces[r]
      <3>1. CASE LeaveSettings
        BY <3>1 DEF LeaveSettings, WrittenInBounds
      <3>2. CASE \E r \in Refreshes : onRefreshItemSelected(r) \/ Refresh(r)
        BY <3>2, RefreshInBounds
      <3> QED
        BY <1>1, <3>1, <3>2 DEF RefreshNext
    <2> QED
      BY <2>1, <2>2 DEF WrittenInBounds
  <1>2. CASE LoadNext
    <2>1. UNCHANGED refresh /\ UNCHANGED progress /\ UNCHANGED settings
      BY <1>2 DEF LoadNext, screenVars
    <2> QED
      BY <1>2, <2>1, LoadInBounds DEF WrittenInBounds
  <1>3. CASE Crash
    <2>1. /\ progress' = FALSE /\ settings' = TRUE /\ load'.written = 0
          /\ \A r \in Refreshes : refresh'[r].written = 0
      BY <1>3 DEF Crash, NoLoad, NoRefresh, RefreshAt
    <2>2. \A r \in Refreshes : refresh'[r].written <= Pieces[r]
      BY <2>1, PiecesCount
    <2>3. load'.written <= Pieces[Packaged]
      BY <2>1, PiecesCount
    <2> QED
      BY <2>1, <2>2, <2>3 DEF WrittenInBounds
  <1>4. CASE UNCHANGED <<refresh, load, progress, settings>>
    BY <1>4 DEF WrittenInBounds
  <1> QED
    BY <1>1, <1>2, <1>3, <1>4 DEF Next, vars, screenVars

\* Every variable of the server list and of the network has its type, and neither a refresh
\* nor the copy of the packaged list has written more than there is to write, however many
\* of them are at the file at once.
THEOREM ListTypeCorrect == Spec => []TypeOK
  <1>1. Init => WrittenInBounds
    <2> SUFFICES ASSUME Init PROVE WrittenInBounds
      OBVIOUS
    <2>1. load.written = 0 /\ \A r \in Refreshes : refresh[r].written = 0
      BY DEF Init, NoRefresh, RefreshAt, NoLoad
    <2>2. load.written <= Pieces[Packaged] /\ \A r \in Refreshes : refresh[r].written <= Pieces[r]
      BY <2>1, PiecesCount
    <2> QED
      BY <2>2 DEF Init, WrittenInBounds
  <1>2. NetworkInv /\ FileInv /\ WrittenInBounds => TypeOK
    <2> SUFFICES ASSUME NetworkInv, FileInv, WrittenInBounds PROVE TypeOK
      OBVIOUS
    <2>1. \A r \in Refreshes : refresh[r].written \in 0 .. Pieces[r]
      BY PiecesCount DEF FileInv, RefreshTypes, RefreshRecord, WrittenInBounds
    <2>2. load.written \in 0 .. Pieces[Packaged]
      BY PiecesCount DEF FileInv, LoadTypes, WrittenInBounds
    <2>3. load.result \in Lists \cup {"none", "EMPTY", "MIXED"}
      BY DEF FileInv, LoadTypes
    <2> QED
      BY <2>1, <2>2, <2>3 DEF TypeOK, NetworkInv, FileInv, FileTypes, RefreshTypes,
                              WrittenInBounds
  <1> QED
    BY NetworkInvInit, NetworkInvStep, FileInvInit, FileInvNext, InBoundsNext, <1>1, <1>2, PTL
       DEF Spec

=============================================================================
