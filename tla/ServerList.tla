----------------------------- MODULE ServerList -----------------------------
(***************************************************************************)
(* The server list, kept in the file nordvpn.json: packaged with the app   *)
(* and copied on first use, replaced by a refresh from the settings, read  *)
(* by the map.  onRefreshItemSelected of openpyn/Utilities.kt, createJson  *)
(* of utils/Common.kt, createJsonArray and copyRawResourceToFile of        *)
(* map/Utilities.kt.                                                       *)
(*                                                                         *)
(* A refresh runs on a thread of its own, and so does the load; nothing    *)
(* keeps two of them apart.  The file is written in place: opening it      *)
(* truncates it, and then its pieces follow one by one.  The process may   *)
(* die at any moment, and the file stays as it is.                         *)
(***************************************************************************)
EXTENDS NetworkInfo

CONSTANTS Refreshes,   \* bound: the refreshes there may be, each with a list of its own
          Packaged,    \* the list the app comes with
          Pieces,      \* for each list, how many pieces it is written in
          MaxCrashes   \* bound: deaths of the process

Lists == Refreshes \cup {Packaged}

ASSUME ListAssumption ==
    Packaged \notin Refreshes /\ Pieces \in [Lists -> Nat \ {0}] /\ MaxCrashes \in Nat

VARIABLES
    exists, file,   \* the file, a sequence of pieces
    refresh,        \* each refresh: where it is, how much it has written, whether it failed
    load,           \* jsonArray: where it is, how much was copied, what was read, the result
    progress,       \* the settings' toolbar shows its progress bar
    settings,       \* the settings are shown; FALSE once they are finishing
    dialogs,        \* the refreshes that told the user to restart the app
    crashes,        \* how many deaths there may still be
    lastOpened,     \* history: the list whose writer opened the file last
    overlap         \* history: two have used the file at once, one of them writing

fileVars == <<exists, file, lastOpened, overlap>>
screenVars == <<progress, settings, dialogs>>

vars == <<networkVars, fileVars, refresh, load, screenVars, crashes>>

RefreshAt(label, thrown) == [pc |-> label, written |-> 0, thrown |-> thrown]

NoRefresh == RefreshAt("none", TRUE)

NoLoad == [pc |-> "none", written |-> 0, text |-> <<>>, from |-> "none", result |-> "none"]

Init ==
    /\ NetworkInit
    /\ exists = FALSE /\ file = <<>> /\ lastOpened = "none" /\ overlap = FALSE
    /\ refresh = [r \in Refreshes |-> NoRefresh]
    /\ load = NoLoad
    /\ progress = FALSE /\ settings = TRUE /\ dialogs = {}
    /\ crashes = MaxCrashes

-----------------------------------------------------------------------------
(* The file *)

\* What is read where nobody has written
Zero == <<"zero", 0>>

\* The file with a piece at a position; a gap before it is filled with zeros.
WithPiece(i, piece) ==
    [j \in 1 .. IF i > Len(file) THEN i ELSE Len(file) |->
        IF j = i THEN piece ELSE IF j <= Len(file) THEN file[j] ELSE Zero]

\* JSONArray(text): the list at the start of the text, whatever follows it.  A text that
\* ends too early, or has zeros in it, is no JSON, and the result is an empty array; pieces
\* of several lists make something else.
Parse(text) ==
    LET Starts(l) == Len(text) >= Pieces[l] /\ \A i \in 1 .. Pieces[l] : text[i] = <<l, i>>
        Prefix(l) == \A i \in 1 .. Len(text) : text[i] = <<l, i>>
    IN IF \E l \in Lists : Starts(l) THEN CHOOSE l \in Lists : Starts(l)
       ELSE IF (\E l \in Lists : Prefix(l)) \/ \E i \in 1 .. Len(text) : text[i] = Zero
       THEN "EMPTY" ELSE "MIXED"

Writing == {r \in Refreshes : refresh[r].pc = "write"}

Copying == load.pc = "copy"

Reading == load.pc = "read"

\* Mutant: the file is not truncated when it is opened.
OpenKeepingContents(list) ==
    /\ exists' = TRUE /\ UNCHANGED file
    /\ lastOpened' = list
    /\ overlap' = (overlap \/ Writing # {} \/ Copying \/ Reading)

\* Opening the file to write it creates or truncates it.
OpenToWrite(list) ==
    /\ exists' = TRUE /\ file' = <<>>
    /\ lastOpened' = list
    /\ overlap' = (overlap \/ Writing # {} \/ Copying \/ Reading)

WritePiece(list, i) ==
    /\ file' = WithPiece(i, <<list, i>>)
    /\ UNCHANGED <<exists, lastOpened, overlap>>

-----------------------------------------------------------------------------
(* onRefreshItemSelected *)

At(r, label) == refresh[r].pc = label

Goto(r, label) == refresh' = [refresh EXCEPT ![r].pc = label]

onRefreshItemSelected(r) ==
    /\ settings /\ At(r, "none")
    /\ progress' = TRUE
    /\ Goto(r, "check")
    /\ UNCHANGED <<fileVars, settings, dialogs>>

\* Mutant: a refresh that finds the app offline just returns.
CheckOnlineReturns(r) ==
    /\ At(r, "check")
    /\ Goto(r, IF isOnline THEN "fetch" ELSE "done")
    /\ UNCHANGED <<fileVars, screenVars>>

CheckOnline(r) ==
    /\ At(r, "check")
    /\ Goto(r, IF isOnline THEN "fetch" ELSE "ui")
    /\ UNCHANGED <<fileVars, screenVars>>

\* A list; nothing, after a failure, a timeout or an empty answer; or an exception of a
\* record that lacks a field, which ends the thread.
createJson(r) ==
    /\ At(r, "fetch")
    /\ \E label \in {"open", "ui", "died"} : Goto(r, label)
    /\ UNCHANGED <<fileVars, screenVars>>

\* writeText opens the file; that fails when the storage is not there.
OpenFile(r) ==
    /\ At(r, "open")
    /\ \/ OpenToWrite(r) /\ Goto(r, "write")
       \/ Goto(r, "ui") /\ UNCHANGED fileVars
    /\ UNCHANGED screenVars

\* Mutant: one piece too many.
WriteTextTooLong(r) ==
    /\ At(r, "write") /\ refresh[r].written <= Pieces[r]
    /\ WritePiece(r, refresh[r].written + 1)
    /\ refresh' = [refresh EXCEPT ![r].written = @ + 1]
    /\ UNCHANGED screenVars

WriteText(r) ==
    /\ At(r, "write") /\ refresh[r].written < Pieces[r]
    /\ WritePiece(r, refresh[r].written + 1)
    /\ refresh' = [refresh EXCEPT ![r].written = @ + 1]
    /\ UNCHANGED screenVars

\* The file is closed; thrown is cleared.
Written(r) ==
    /\ At(r, "write") /\ refresh[r].written = Pieces[r]
    /\ refresh' = [refresh EXCEPT ![r] = RefreshAt("ui", FALSE)]
    /\ UNCHANGED <<fileVars, screenVars>>

\* Mutant: thrown is cleared before the text is written.
WriteFailsUnnoticed(r) ==
    /\ At(r, "write") /\ refresh[r].written < Pieces[r]
    /\ refresh' = [refresh EXCEPT ![r] = RefreshAt("ui", FALSE)]
    /\ UNCHANGED <<fileVars, screenVars>>

\* IOException: the storage is full or gone.
WriteFails(r) ==
    /\ At(r, "write") /\ refresh[r].written < Pieces[r]
    /\ refresh' = [refresh EXCEPT ![r] = RefreshAt("ui", TRUE)]
    /\ UNCHANGED <<fileVars, screenVars>>

\* activityUiThread: nothing if the activity is finishing.
uiThread(r) ==
    /\ At(r, "ui")
    /\ progress' = FALSE
    /\ dialogs' = IF settings /\ ~refresh[r].thrown THEN dialogs \cup {r} ELSE dialogs
    /\ refresh' = [refresh EXCEPT ![r] = RefreshAt("done", TRUE)]
    /\ UNCHANGED <<fileVars, settings>>

Refresh(r) ==
    CheckOnline(r) \/ createJson(r) \/ OpenFile(r) \/ WriteText(r) \/ Written(r) \/ WriteFails(r)
        \/ uiThread(r)

\* The user leaves the settings, and their progress bar with them; they are not opened
\* again before the app is started again.
LeaveSettings ==
    /\ settings
    /\ settings' = FALSE /\ progress' = FALSE
    /\ UNCHANGED <<fileVars, refresh, dialogs>>

RefreshNext ==
    /\ LeaveSettings \/ \E r \in Refreshes : onRefreshItemSelected(r) \/ Refresh(r)
    /\ UNCHANGED <<networkVars, load, crashes>>

-----------------------------------------------------------------------------
(* createJsonArray *)

\* Any exception ends in an empty array.
LoadFails == load' = [NoLoad EXCEPT !.pc = "done", !.result = "EMPTY"]

\* The map loads its data, again whenever it is made again.
jsonArray ==
    /\ load.pc \in {"none", "done"}
    /\ load' = [NoLoad EXCEPT !.pc = IF exists THEN "open" ELSE "copyOpen"]
    /\ UNCHANGED fileVars

CopyOpen ==
    /\ load.pc = "copyOpen"
    /\ \/ OpenToWrite(Packaged) /\ load' = [load EXCEPT !.pc = "copy"]
       \/ LoadFails /\ UNCHANGED fileVars

copyRawResourceToFile ==
    /\ Copying
    /\ IF load.written < Pieces[Packaged]
       THEN /\ WritePiece(Packaged, load.written + 1)
            /\ load' = [load EXCEPT !.written = @ + 1]
       ELSE load' = [NoLoad EXCEPT !.pc = "open"] /\ UNCHANGED fileVars

CopyFails == Copying /\ load.written < Pieces[Packaged] /\ LoadFails /\ UNCHANGED fileVars

OpenToRead ==
    /\ load.pc = "open" /\ exists
    /\ load' = [load EXCEPT !.pc = "read", !.from = lastOpened]
    /\ overlap' = (overlap \/ Writing # {})
    /\ UNCHANGED <<exists, file, lastOpened>>

\* The text is read piece by piece up to the end of the file.
ReadText ==
    LET n == Len(load.text) IN
    /\ Reading /\ n < Len(file)
    /\ load' = [load EXCEPT !.text = Append(@, file[n + 1])]
    /\ UNCHANGED fileVars

ReadEnds ==
    /\ Reading /\ Len(load.text) >= Len(file)
    /\ load' = [NoLoad EXCEPT !.pc = "done", !.from = load.from, !.result = Parse(load.text)]
    /\ UNCHANGED fileVars

ReadFails == Reading /\ LoadFails /\ UNCHANGED fileVars

LoadNext ==
    /\ \/ jsonArray \/ CopyOpen \/ copyRawResourceToFile \/ CopyFails
       \/ OpenToRead \/ ReadText \/ ReadEnds \/ ReadFails
    /\ UNCHANGED <<networkVars, refresh, screenVars, crashes>>

-----------------------------------------------------------------------------

\* The process dies and is started again.  Only the file is left.
Crash ==
    /\ crashes > 0
    /\ crashes' = crashes - 1
    /\ NetworkRestart
    /\ refresh' = [r \in Refreshes |-> IF At(r, "none") THEN NoRefresh
                                       ELSE RefreshAt("gone", TRUE)]
    /\ load' = NoLoad
    /\ progress' = FALSE /\ settings' = TRUE
    /\ UNCHANGED <<fileVars, dialogs>>

Next ==
    \/ NetworkNext /\ UNCHANGED <<fileVars, refresh, load, screenVars, crashes>>
    \/ RefreshNext \/ LoadNext \/ Crash

Spec == Init /\ [][Next]_vars

\* The refresh's thread and the main thread run.
FairSpec ==
    /\ Spec
    /\ \A r \in Refreshes : WF_vars(RefreshNext /\ Refresh(r))

-----------------------------------------------------------------------------
(* Properties *)

\* Every variable has its type, and nobody has written more than there is to write.
TypeOK ==
    /\ NetworkTypeOK
    /\ exists \in BOOLEAN /\ progress \in BOOLEAN /\ settings \in BOOLEAN
    /\ lastOpened \in Lists \cup {"none"}
    /\ dialogs \subseteq Refreshes
    /\ \A r \in Refreshes : refresh[r].written \in 0 .. Pieces[r]
    /\ load.written \in 0 .. Pieces[Packaged]
    /\ load.result \in Lists \cup {"none", "EMPTY", "MIXED"}

\* Where no two have used the file at once, the map gets the list that was written last,
\* whole, or an empty one, whatever failure or crash cut the writing short: never pieces of
\* two lists.
LoadedListIsLastWritten ==
    load.pc = "done" /\ ~overlap => load.result \in {load.from, "EMPTY"}

\* When the user was told to restart the app, the file has the list of that refresh, unless
\* somebody has opened it since or another writer was at it at the same time.
DialogMeansSaved ==
    \A r \in dialogs : ~overlap /\ lastOpened = r => Parse(file) = r

\* The progress bar of a refresh goes away, online or not, saved or not, except when an
\* exception of createJson ended the thread.
ProgressEnds == progress ~> ~progress \/ \E r \in Refreshes : At(r, "died")

============================================================================
