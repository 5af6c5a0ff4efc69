-------------------------- MODULE StagedRestoreProofs --------------------------
(***************************************************************************)
(* Theorems about StagedRestore, for any managed folders, archives and     *)
(* uploads, however often the process is started and wherever it dies: a   *)
(* restore and a reset happen entirely or not at all, no database is       *)
(* opened beside the log of another, what waits to be restored is whole,   *)
(* and what was replaced is kept.                                          *)
(***************************************************************************)
EXTENDS StagedRestore, SequenceTheorems, TLAPS

-----------------------------------------------------------------------------
(* Where a start is: what is there, and what is left to do.                *)
Restoring == {"keep", "remove", "place", "log", "aside", "copy", "marker"}

PlacesFit ==
    /\ at \in {"keep", "remove", "place", "log"} => k \in {1, 2}
    /\ at \in {"aside", "copy"} => k \in DOMAIN FolderOrder
    /\ at = "wipe" => k \in 1 .. Len(FolderOrder) + 1
    /\ at \in {"place", "log"} => Staged(stage, DatabaseOrder[k])
    /\ at = "copy" => Staged(stage, FolderOrder[k])

MarkersFit ==
    /\ at \in {"wipe"} => reset
    /\ at \in {"check", "rollback", "discard", "prune", "open"} \cup Restoring => ~reset
    /\ at \in {"rollback"} \cup Restoring => ready /\ Complete
    /\ at \in {"discard", "prune", "open"} => ~ready

Counted ==
    /\ tries <= starts
    /\ at \in {"reset", "wipe", "check", "rollback"} => tries < starts

RollbacksFit ==
    /\ rollbacks \in Seq([Items -> Contents])
    /\ at \in Restoring => rollbacks # <<>>

\* An upload knows which archive it unpacks.
UploadsKnow ==
    \A u \in Uploads :
        /\ upload[u].at \in {"clear", "unpack"} =>
            upload[u].archive \in Archives /\ upload[u].n \in 1 .. Len(EntryOrder)
        /\ upload[u].at = "clear" => upload[u].n = 1

StartInv == TypeOK /\ PlacesFit /\ MarkersFit /\ Counted /\ RollbacksFit /\ UploadsKnow

(* A log fits its database, unless it could not be removed or a reset or a *)
(* restore that is to be done again will take it away.                     *)
Fits(d) == wal[d] \in {None, live[d]} \/ d \in logsLeft
LogsFit ==
    /\ \A d \in Databases : Fits(d) \/ (~Running /\ (reset \/ (ready /\ Staged(stage, d))))
    /\ at \in {"remove", "place", "log"} /\ k = 2 => Fits("music")
    /\ at \in {"aside", "copy", "marker"} => \A d \in Databases : Fits(d)

(* How far a restore or a reset has come.                                  *)
Placed(d) == Staged(stage, d) => live[d] = stage[d]
Replaced(f) == live[f] = IF Staged(stage, f) THEN stage[f] ELSE None
Progress ==
    /\ at \in {"remove", "place", "log"} /\ k = 2 => Placed("music")
    /\ at = "log" => Placed(DatabaseOrder[k])
    /\ at \in {"aside", "copy", "marker"} => \A d \in Databases : Placed(d)
    /\ at \in {"aside", "copy"} => \A j \in DOMAIN FolderOrder : j < k => Replaced(FolderOrder[j])
    /\ at = "marker" => \A f \in Folders : Replaced(f)
    /\ at = "wipe" /\ k > 1 => NoDatabase
    /\ at = "wipe" => \A j \in DOMAIN FolderOrder : j < k => live[FolderOrder[j]] = None

(* An upload that nothing disturbed is the only one, and each of its steps *)
(* finds what the one before has left.                                     *)
Part(a, n) ==
    [e \in Entries |-> IF \E j \in DOMAIN EntryOrder : j < n /\ EntryOrder[j] = e
                       THEN Whole(a)[e] ELSE None]
Undisturbed ==
    /\ \A u, v \in Staging : u = v
    /\ \A u \in Uploads :
        /\ upload[u].at = "unpack" => incoming = Part(upload[u].archive, upload[u].n)
        /\ upload[u].at \in {"replace", "install"} => \E a \in Archives : incoming = Whole(a)
        /\ upload[u].at = "mark" => \E a \in Archives : stage = Whole(a)
StagingInv == (~disturbed => Undisturbed) /\ PendingIsWhole

(* What the server had open is still there, or in a rollback folder of one *)
(* of the attempts that there have been since.                             *)
Counting == {i \in Items : base[i] # None /\ (i \in Databases => clean)}
Untouched == {i \in Items : live[i] = base[i]}
Saved == {i \in Items : \E n \in DOMAIN rollbacks : n + tries > Len(rollbacks) /\ rollbacks[n][i] = base[i]}
\* The restore has got beyond these.
Passed == {i \in Items :
    \/ ~ready /\ tries > 0
    \/ at = "keep" /\ k = 2 /\ i = "music"
    \/ at \in {"remove", "place", "log", "aside", "copy"} /\ i \in Databases
    \/ at \in {"aside", "copy"} /\ \E j \in DOMAIN FolderOrder : j < k /\ FolderOrder[j] = i
    \/ at = "copy" /\ FolderOrder[k] = i
    \/ at = "marker"}
\* The rollback folder of this attempt is filled item by item.
FilledSoFar ==
    /\ at = "keep" => \A i \in Items \ Passed : rollbacks[Len(rollbacks)][i] = None
    /\ at \in {"remove", "place", "log", "aside", "copy"} =>
        \A f \in Folders \ Passed : rollbacks[Len(rollbacks)][f] = None
LogsClosed == ~Running /\ clean => \A d \in Databases : wal[d] = None
Tried == at \in Restoring \cup {"discard", "prune"} => tries > 0
StillKept ==
    (~Running /\ ~reset /\ (ready \/ tries > 0) /\ tries <= Kept) =>
        /\ Counting \cap Passed \subseteq Saved
        /\ Counting \subseteq Untouched \cup Saved
KeptInv == LogsClosed /\ Tried /\ FilledSoFar /\ StillKept
-----------------------------------------------------------------------------
(* The constants.                                                          *)
LEMMA FolderFacts ==
    /\ FolderOrder \in Seq(Folders) /\ Len(FolderOrder) \in Nat
    /\ DOMAIN FolderOrder = 1 .. Len(FolderOrder)
    /\ \A j \in DOMAIN FolderOrder : FolderOrder[j] \in Folders /\ FolderOrder[j] \in Items
    /\ \A f \in Folders : f \notin Databases /\ f # Manifest /\ \E j \in DOMAIN FolderOrder : FolderOrder[j] = f
    /\ \A i, j \in DOMAIN FolderOrder : FolderOrder[i] = FolderOrder[j] => i = j
    /\ FolderOrder = <<>> <=> Len(FolderOrder) = 0
  BY RestoreConstants DEF Folders, Items

LEMMA DatabaseFacts ==
    /\ DatabaseOrder[1] = "music" /\ DatabaseOrder[2] = "core"
    /\ Databases = {"music", "core"} /\ Databases \subseteq Items /\ Manifest \notin Items
    /\ "music" \in Databases /\ "core" \in Databases /\ Items \subseteq Entries /\ Manifest \in Entries
  BY RestoreConstants DEF DatabaseOrder, Databases, Items, Entries, Manifest

LEMMA EntryFacts ==
    /\ Len(EntryOrder) = 3 + Len(FolderOrder) /\ Len(EntryOrder) \in Nat
    /\ DOMAIN EntryOrder = 1 .. Len(EntryOrder)
    /\ \A j \in DOMAIN EntryOrder : EntryOrder[j] \in Entries
    /\ \A e \in Entries : \E j \in DOMAIN EntryOrder : EntryOrder[j] = e
<1> DEFINE first == <<Manifest>> \o DatabaseOrder
<1>1. /\ <<Manifest>> \in Seq(Entries) /\ DatabaseOrder \in Seq(Entries)
      /\ Len(<<Manifest>>) = 1 /\ Len(DatabaseOrder) = 2 /\ <<Manifest>>[1] = Manifest
  BY DatabaseFacts DEF DatabaseOrder, Items, Entries
<1>2. FolderOrder \in Seq(Entries) /\ EntryOrder = first \o FolderOrder
  BY FolderFacts DEF Folders, Items, Entries, EntryOrder
<1>3. /\ first \in Seq(Entries) /\ Len(first) = 3
      /\ first[1] = Manifest /\ first[2] = "music" /\ first[3] = "core"
  <2>1. /\ first \in Seq(Entries) /\ Len(first) = Len(<<Manifest>>) + Len(DatabaseOrder)
        /\ \A i \in 1 .. Len(<<Manifest>>) + Len(DatabaseOrder) :
              first[i] = IF i <= Len(<<Manifest>>) THEN <<Manifest>>[i] ELSE DatabaseOrder[i - Len(<<Manifest>>)]
    BY <1>1, ConcatProperties, Zenon
  <2> HIDE DEF first
  <2> QED BY <1>1, <2>1, DatabaseFacts
<1> HIDE DEF first
<1>4. /\ EntryOrder \in Seq(Entries) /\ Len(EntryOrder) = 3 + Len(FolderOrder)
      /\ \A j \in 1 .. 3 + Len(FolderOrder) :
            EntryOrder[j] = IF j <= 3 THEN first[j] ELSE FolderOrder[j - 3]
  <2>1. /\ first \o FolderOrder \in Seq(Entries)
        /\ Len(first \o FolderOrder) = Len(first) + Len(FolderOrder)
        /\ \A j \in 1 .. Len(first) + Len(FolderOrder) :
              (first \o FolderOrder)[j] = IF j <= Len(first) THEN first[j] ELSE FolderOrder[j - Len(first)]
    BY <1>2, <1>3, ConcatProperties, Zenon
  <2> QED BY <1>2, <1>3, <2>1
<1>5. ASSUME NEW e \in Entries PROVE \E j \in DOMAIN EntryOrder : EntryOrder[j] = e
  <2>1. CASE e \in Folders
    <3>1. PICK i \in 1 .. Len(FolderOrder) : FolderOrder[i] = e
      BY <2>1, FolderFacts
    <3>2. EntryOrder[i + 3] = e /\ i + 3 \in 1 .. Len(EntryOrder)
      BY <1>4, <3>1, FolderFacts
    <3> QED BY <1>4, <3>2
  <2>2. CASE e \in {Manifest, "music", "core"}
    <3>1. PICK i \in 1 .. 3 : first[i] = e
      BY <1>3, <2>2
    <3>2. EntryOrder[i] = e /\ i \in 1 .. Len(EntryOrder)
      BY <1>4, <3>1, FolderFacts
    <3> QED BY <1>4, <3>2
  <2> QED BY <2>1, <2>2 DEF Entries, Items, Databases
<1> QED BY <1>4, <1>5, FolderFacts
-----------------------------------------------------------------------------
(* Which steps change what.                                                *)
LEMMA LiveChanges ==
    [Next]_vars =>
        \/ UNCHANGED live
        \/ Use \/ Crash \/ WipeDatabase \/ WipeFolder
        \/ RemoveDatabase \/ PlaceDatabase \/ SetFolderAside \/ CopyFolder \/ Open
  BY DEF Next, UploadStep, Begin, Clear, Unpack, RemoveStaged, Install, Mark, Fail, RequestReset, Stop,
         Start, ResetStep, CheckReset, WipeRestore, WipeMarker, RestoreStep, CheckRestore, MakeRollback,
         KeepDatabase, DropLog, RemoveMarker, DiscardStaged, PruneRollbacks, disk, vars

LEMMA LogChanges ==
    [Next]_vars =>
        UNCHANGED wal \/ Use \/ Stop \/ WipeDatabase \/ DropLog \/ Open
  BY DEF Next, UploadStep, Begin, Clear, Unpack, RemoveStaged, Install, Mark, Fail, RequestReset,
         Crash, Start, ResetStep, CheckReset, WipeFolder, WipeRestore, WipeMarker, RestoreStep,
         CheckRestore, MakeRollback, KeepDatabase, RemoveDatabase, PlaceDatabase, SetFolderAside,
         CopyFolder, RemoveMarker, DiscardStaged, PruneRollbacks, disk, vars

LEMMA LogsLeftChanges ==
    [Next]_vars =>
        UNCHANGED logsLeft \/ DropLog \/ Open
  BY DEF Next, UploadStep, Begin, Clear, Unpack, RemoveStaged, Install, Mark, Fail, RequestReset, Use, Stop,
         Crash, Start, ResetStep, CheckReset, WipeDatabase, WipeFolder, WipeRestore, WipeMarker, RestoreStep,
         CheckRestore, MakeRollback, KeepDatabase, RemoveDatabase, PlaceDatabase, SetFolderAside,
         CopyFolder, RemoveMarker, DiscardStaged, PruneRollbacks, history, vars

LEMMA StageChanges ==
    [Next]_vars =>
        \/ UNCHANGED stage
        \/ \E u \in Uploads : RemoveStaged(u) \/ Install(u)
        \/ Crash \/ WipeRestore \/ DiscardStaged
  BY DEF Next, UploadStep, Begin, Clear, Unpack, Mark, Fail, RequestReset, Use, Stop,
         Start, ResetStep, CheckReset, WipeDatabase, WipeFolder, WipeMarker, RestoreStep, CheckRestore,
         MakeRollback, KeepDatabase, RemoveDatabase, PlaceDatabase, DropLog, SetFolderAside,
         CopyFolder, RemoveMarker, PruneRollbacks, Open, disk, vars

LEMMA RollbackChanges ==
    [Next]_vars =>
        \/ UNCHANGED rollbacks
        \/ Crash \/ WipeRestore \/ MakeRollback \/ KeepDatabase \/ SetFolderAside \/ PruneRollbacks
  BY DEF Next, UploadStep, Begin, Clear, Unpack, RemoveStaged, Install, Mark, Fail, RequestReset, Use, Stop,
         Start, ResetStep, CheckReset, WipeDatabase, WipeFolder, WipeMarker, RestoreStep, CheckRestore,
         RemoveDatabase, PlaceDatabase, DropLog, CopyFolder, RemoveMarker, DiscardStaged, Open, disk, vars

LEMMA IncomingChanges ==
    [Next]_vars =>
        UNCHANGED incoming \/ (\E u \in Uploads : Clear(u) \/ Unpack(u) \/ Install(u)) \/ WipeRestore
  BY DEF Next, UploadStep, Begin, RemoveStaged, Mark, Fail, RequestReset, Use, Stop, Crash,
         Start, ResetStep, CheckReset, WipeDatabase, WipeFolder, WipeMarker, RestoreStep, CheckRestore,
         MakeRollback, KeepDatabase, RemoveDatabase, PlaceDatabase, DropLog, SetFolderAside,
         CopyFolder, RemoveMarker, DiscardStaged, PruneRollbacks, Open, disk, vars, Started

LEMMA UploadChanges ==
    [Next]_vars => UNCHANGED upload \/ (\E u \in Uploads : UploadStep(u)) \/ Stop
  BY DEF Next, RequestReset, Use, Crash, Start, ResetStep, CheckReset, WipeDatabase, WipeFolder,
         WipeRestore, WipeMarker, RestoreStep, CheckRestore, MakeRollback, KeepDatabase, RemoveDatabase,
         PlaceDatabase, DropLog, SetFolderAside, CopyFolder, RemoveMarker, DiscardStaged, PruneRollbacks,
         Open, vars, Started
-----------------------------------------------------------------------------
(* A start and its markers.                                                *)
ControlOK ==
    /\ at \in Steps /\ k \in 1 .. Len(EntryOrder)
    /\ ready \in BOOLEAN /\ reset \in BOOLEAN /\ clean \in BOOLEAN /\ disturbed \in BOOLEAN
    /\ uploads \in 0 .. MaxUploads /\ starts \in 0 .. MaxStarts /\ tries \in 0 .. MaxStarts

LEMMA RunningControl ==
    ASSUME StartInv, Running, ControlOK', at' = "up" \/ at' = "down", tries' <= starts'
    PROVE  PlacesFit' /\ MarkersFit' /\ Counted'
  BY DEF PlacesFit, MarkersFit, Counted, Restoring

LEMMA ControlStep == StartInv /\ [Next]_vars => (ControlOK /\ PlacesFit /\ MarkersFit /\ Counted)'
<1> SUFFICES ASSUME StartInv, [Next]_vars PROVE (ControlOK /\ PlacesFit /\ MarkersFit /\ Counted)'
  OBVIOUS
<1> DEFINE Goal == (ControlOK /\ PlacesFit /\ MarkersFit /\ Counted)'
<1>1. ControlOK /\ PlacesFit /\ MarkersFit /\ Counted
  BY DEF StartInv, TypeOK, ControlOK
<1>2. MaxUploads \in Nat /\ MaxStarts \in Nat /\ 1 \in 1 .. Len(EntryOrder) /\ 2 \in 1 .. Len(EntryOrder)
      /\ \A j \in 1 .. Len(FolderOrder) + 1 : j \in 1 .. Len(EntryOrder)
  BY RestoreConstants, EntryFacts, FolderFacts
<1>3. ASSUME NEW u \in Uploads, UploadStep(u) PROVE Goal
  <2>1. Running
    BY <1>3 DEF StartInv, TypeOK, UploadStep, Begin, Clear, Unpack, RemoveStaged, Install, Mark, Fail
  <2>2. at' = at /\ k' = k /\ starts' = starts /\ tries' = tries
    BY <1>3 DEF UploadStep, Begin, Clear, Unpack, RemoveStaged, Install, Mark, Fail, history
  <2>3. ready' \in {ready, TRUE} /\ reset' = reset /\ clean' = clean
    BY <1>3 DEF UploadStep, Begin, Clear, Unpack, RemoveStaged, Install, Mark, Fail, history, disk
  <2>5. disturbed' \in {disturbed, TRUE, FALSE}
    BY <1>3 DEF UploadStep, Begin, Clear, Unpack, RemoveStaged, Install, Mark, Fail, history
  <2>6. uploads' \in 0 .. MaxUploads
    BY <1>1, <1>2, <1>3
       DEF ControlOK, UploadStep, Begin, Clear, Unpack, RemoveStaged, Install, Mark, Fail
  <2>4. ControlOK'
    BY <1>1, <2>2, <2>3, <2>5, <2>6 DEF ControlOK
  <2> QED BY <1>1, <2>1, <2>2, <2>4, RunningControl DEF Running, Counted
<1>4. CASE RequestReset \/ Use
  <2>1. ControlOK' /\ Running /\ at' \in {"up", "down"} /\ tries' <= starts'
    BY <1>1, <1>2, <1>4 DEF ControlOK, RequestReset, Use, Running, history, Steps, Counted
  <2> QED BY <2>1, RunningControl
<1>13. CASE Stop
  <2>1. disturbed' \in {TRUE, FALSE} /\ clean' \in {TRUE, FALSE}
    BY <1>13 DEF Stop
  <2>2. Running /\ at' = "down" /\ k' = 1 /\ tries' = 0 /\ UNCHANGED <<ready, reset, uploads, starts>>
    BY <1>13 DEF Stop
  <2>3. disturbed' \in BOOLEAN /\ clean' \in BOOLEAN
    BY <2>1
  <2>4. ControlOK'
    BY <1>1, <1>2, <2>2, <2>3 DEF ControlOK, Steps
  <2>5. tries' <= starts'
    BY <1>1, <1>2, <2>2 DEF ControlOK
  <2> QED BY <2>2, <2>4, <2>5, RunningControl
<1>5. CASE Crash
  <2>1. at' = "down" /\ k' = 1 /\ UNCHANGED <<ready, reset, uploads, starts, history>>
    BY <1>5 DEF Crash
  <2> QED
    BY <1>1, <1>2, <2>1 DEF ControlOK, PlacesFit, MarkersFit, Counted, Steps, Restoring, history
<1>14. CASE Start
  <2>1. /\ at' = "reset" /\ k' = 1 /\ starts' = starts + 1 /\ starts < MaxStarts
        /\ UNCHANGED <<ready, reset, uploads, clean, disturbed, tries>>
    BY <1>14 DEF Start, disk, history
  <2>2. ControlOK'
    BY <1>1, <1>2, <2>1 DEF ControlOK, Steps
  <2>3. PlacesFit' /\ MarkersFit' /\ Counted'
    BY <1>1, <1>2, <2>1 DEF ControlOK, PlacesFit, MarkersFit, Counted, Restoring
  <2> QED BY <2>2, <2>3
<1>17. ASSUME at' \in {"wipe", "check"}, k' = 1, at' = "wipe" <=> reset', reset' \in BOOLEAN,
              tries' \in {tries, 0}, ready' = ready, Started, at \in {"reset", "wipe"}
       PROVE  Goal
  <2>1. tries' \in 0 .. MaxStarts /\ tries' < starts'
    <3>1. tries \in 0 .. MaxStarts /\ starts \in 0 .. MaxStarts /\ tries < starts /\ starts' = starts
      BY <1>1, <1>17 DEF ControlOK, Counted, Started
    <3> QED BY <1>2, <1>17, <3>1
  <2>2. ControlOK'
    BY <1>1, <1>2, <1>17, <2>1 DEF ControlOK, Steps, Started
  <2>3. PlacesFit' /\ MarkersFit' /\ Counted'
    BY <1>1, <1>17, <2>1, <2>2, FolderFacts
       DEF ControlOK, PlacesFit, MarkersFit, Counted, Restoring, Started
  <2> QED BY <2>2, <2>3
<1>6. CASE CheckReset
  BY <1>1, <1>6, <1>17 DEF CheckReset, Goto, ControlOK
<1>18. CASE WipeMarker
  BY <1>1, <1>17, <1>18 DEF WipeMarker, Goto
<1>16. CASE WipeDatabase \/ WipeFolder
  <2>1. /\ at = "wipe" /\ at' = "wipe" /\ UNCHANGED <<ready, reset, tries>> /\ Started
        /\ k' \in 1 .. Len(FolderOrder) + 1
    BY <1>1, <1>16, FolderFacts DEF WipeDatabase, WipeFolder, Goto, PlacesFit
  <2> QED
    BY <1>1, <1>2, <2>1 DEF ControlOK, PlacesFit, MarkersFit, Counted, Restoring, Started
<1>7. CASE WipeRestore
  BY <1>1, <1>2, <1>7
     DEF ControlOK, PlacesFit, MarkersFit, Counted, WipeRestore, Steps, Restoring, history
<1>8. CASE CheckRestore \/ MakeRollback \/ KeepDatabase
  BY <1>1, <1>2, <1>8
     DEF ControlOK, PlacesFit, MarkersFit, Counted, CheckRestore, MakeRollback, KeepDatabase, Steps,
         Restoring, Started, Goto, Complete
<1>9. CASE RemoveDatabase \/ PlaceDatabase \/ DropLog
  <2>1. /\ at \in {"remove", "place", "log"} /\ UNCHANGED <<stage, ready, reset, tries>> /\ Started
        /\ \/ at' \in {"place", "log"} /\ k' = k /\ Staged(stage, DatabaseOrder[k])
           \/ AfterDatabase
    <3>1. CASE RemoveDatabase
      BY <3>1 DEF RemoveDatabase, Goto
    <3>2. CASE PlaceDatabase
      BY <1>1, <3>2 DEF PlaceDatabase, PlacesFit, Goto
    <3>3. CASE DropLog
      BY <3>3 DEF DropLog
    <3> QED BY <1>9, <3>1, <3>2, <3>3
  <2> QED
    BY <1>1, <1>2, <2>1, FolderFacts
       DEF ControlOK, PlacesFit, MarkersFit, Counted, Steps, Restoring, Started, Goto, AfterDatabase,
           Complete, Staged
<1>10. CASE SetFolderAside \/ CopyFolder
  <2>1. /\ k \in DOMAIN FolderOrder /\ UNCHANGED <<stage, ready, reset, tries>> /\ Started
        /\ (Goto("copy", k) /\ Staged(stage, FolderOrder[k])) \/ AfterFolder
        /\ at \in Restoring
    BY <1>1, <1>10 DEF SetFolderAside, CopyFolder, PlacesFit, Restoring
  <2> QED
    BY <1>1, <1>2, <2>1, FolderFacts
       DEF ControlOK, PlacesFit, MarkersFit, Counted, Steps, Restoring, Started, Goto, AfterFolder,
           Complete, Staged
<1>11. CASE RemoveMarker \/ DiscardStaged \/ PruneRollbacks
  <2>1. /\ at' \in {"discard", "prune", "open"} /\ k' = 1
        /\ UNCHANGED <<reset, tries>> /\ Started /\ ready' \in {ready, FALSE}
    BY <1>11 DEF RemoveMarker, DiscardStaged, PruneRollbacks, Goto
  <2>2. ~ready' /\ ~reset
    BY <1>1, <1>11 DEF MarkersFit, RemoveMarker, DiscardStaged, PruneRollbacks, Restoring
  <2>3. ControlOK'
    BY <1>1, <1>2, <2>1 DEF ControlOK, Steps, Started
  <2>4. PlacesFit' /\ MarkersFit' /\ Counted'
    BY <1>1, <2>1, <2>2 DEF PlacesFit, MarkersFit, Counted, Restoring, Started
  <2> QED BY <2>3, <2>4
<1>15. CASE Open
  BY <1>1, <1>2, <1>15 DEF ControlOK, PlacesFit, MarkersFit, Counted, Open, Steps, Restoring, Goto
<1>12. CASE UNCHANGED vars
  BY <1>1, <1>12 DEF ControlOK, PlacesFit, MarkersFit, Counted, vars, disk, history, Complete, Staged
<1> QED
  BY <1>3, <1>4, <1>5, <1>6, <1>7, <1>8, <1>9, <1>10, <1>11, <1>12, <1>13, <1>14, <1>15, <1>16, <1>18
     DEF Next, ResetStep, RestoreStep
-----------------------------------------------------------------------------
(* The data folder.                                                        *)
Directories == [Entries -> Archives \cup {None}] \cup {NoDirectory}

LEMMA ContentFacts ==
    /\ Own \in Contents /\ None \in Contents /\ Torn \in Contents /\ Behind \in Contents
    /\ Archives \subseteq Contents
  BY DEF Contents

LEMMA StagedFacts ==
    ASSUME NEW dir \in Directories, NEW e \in Entries, Staged(dir, e)
    PROVE  dir \in [Entries -> Archives \cup {None}] /\ dir[e] \in Archives
  BY DEF Staged, Directories

LEMMA StartFacts ==
    ASSUME StartInv
    PROVE  /\ live \in [Items -> Contents] /\ wal \in [Databases -> Contents] /\ base \in [Items -> Contents]
           /\ incoming \in Directories /\ stage \in Directories
           /\ tries \in Nat /\ starts \in Nat
           /\ at \in {"keep", "remove", "place", "log"} =>
                k \in {1, 2} /\ DatabaseOrder[k] \in Databases
           /\ at \in {"aside", "copy"} => k \in DOMAIN FolderOrder /\ FolderOrder[k] \in Folders
<1>1. TypeOK /\ PlacesFit
  BY DEF StartInv
<1>2. /\ live \in [Items -> Contents] /\ wal \in [Databases -> Contents] /\ base \in [Items -> Contents]
      /\ incoming \in Directories /\ stage \in Directories
  BY <1>1 DEF TypeOK, Directories
<1>3. tries \in Nat /\ starts \in Nat
  BY <1>1, RestoreConstants DEF TypeOK
<1> QED BY <1>1, <1>2, <1>3, DatabaseFacts, FolderFacts DEF PlacesFit

DataOK == live \in [Items -> Contents] /\ wal \in [Databases -> Contents] /\ base \in [Items -> Contents]

LEMMA DataStep == StartInv /\ [Next]_vars => DataOK'
<1> SUFFICES ASSUME StartInv, [Next]_vars PROVE DataOK'
  OBVIOUS
<1>1. /\ DataOK /\ stage \in Directories
      /\ \A i \in Databases : i \in Items
      /\ \A j \in DOMAIN FolderOrder : FolderOrder[j] \in Items /\ FolderOrder[j] \in Entries
  BY StartFacts, FolderFacts, DatabaseFacts DEF DataOK
<1>2. live' \in [Items -> Contents]
  <2>1. CASE Use
    BY <2>1, ContentFacts DEF Use
  <2>2. CASE Crash
    BY <1>1, <2>2, ContentFacts DEF Crash, Interrupted, DataOK
  <2>3. CASE WipeDatabase \/ WipeFolder \/ RemoveDatabase \/ SetFolderAside
    BY <1>1, <2>3, ContentFacts DEF WipeDatabase, WipeFolder, RemoveDatabase, SetFolderAside, DataOK
  <2>4. CASE PlaceDatabase
    <3>1. stage[DatabaseOrder[k]] \in Archives
      BY <1>1, <2>4, StartFacts, StagedFacts, DatabaseFacts DEF PlaceDatabase, StartInv, PlacesFit
    <3> QED BY <1>1, <2>4, <3>1, ContentFacts DEF PlaceDatabase, DataOK
  <2>5. CASE CopyFolder
    <3>1. stage[FolderOrder[k]] \in Archives
      BY <1>1, <2>5, StartFacts, StagedFacts DEF CopyFolder, StartInv, PlacesFit
    <3> QED BY <1>1, <2>5, <3>1, ContentFacts DEF CopyFolder, DataOK
  <2>6. CASE Open
    <3>1. PICK spoilt : live' = [i \in Items |-> IF i \in spoilt THEN Torn ELSE live[i]]
      BY <2>6 DEF Open
    <3> QED BY <1>1, <3>1, ContentFacts DEF DataOK
  <2> QED BY <1>1, <2>1, <2>2, <2>3, <2>4, <2>5, <2>6, LiveChanges DEF DataOK
<1>3. wal' \in [Databases -> Contents]
  <2>1. CASE Use \/ Stop \/ WipeDatabase \/ DropLog
    BY <1>1, <2>1, ContentFacts DEF Use, Stop, WipeDatabase, DropLog, DataOK
  <2>2. CASE Open
    BY <1>1, <1>2, <2>2 DEF Open
  <2> QED BY <1>1, <2>1, <2>2, LogChanges DEF DataOK
<1>4. base' = base \/ base' = live
  BY DEF Next, UploadStep, Begin, Clear, Unpack, RemoveStaged, Install, Mark, Fail, RequestReset, Use, Stop,
         Crash, Start, ResetStep, CheckReset, WipeDatabase, WipeFolder, WipeRestore, WipeMarker,
         RestoreStep, CheckRestore, MakeRollback, KeepDatabase, RemoveDatabase, PlaceDatabase, DropLog,
         SetFolderAside, CopyFolder, RemoveMarker, DiscardStaged, PruneRollbacks, Open, vars, history,
         Started
<1> QED BY <1>1, <1>2, <1>3, <1>4 DEF DataOK

-----------------------------------------------------------------------------
(* What is uploaded and staged.                                            *)
LEMMA DirectoryFacts ==
    /\ NoDirectory \in Directories /\ EmptyDirectory \in Directories /\ EmptyDirectory # NoDirectory
    /\ \A dir \in [Entries -> Archives \cup {None}] : dir \in Directories /\ dir # NoDirectory
    /\ \A a \in Archives : Whole(a) \in [Entries -> Archives \cup {None}]
<1>1. \A dir \in [Entries -> Archives \cup {None}] : dir # NoDirectory
  <2> SUFFICES ASSUME NEW dir \in [Entries -> Archives \cup {None}], dir = NoDirectory PROVE FALSE
    OBVIOUS
  <2>1. DOMAIN dir = Entries /\ DOMAIN dir = {}
    BY DEF NoDirectory
  <2> QED BY <2>1, DatabaseFacts
<1>2. EmptyDirectory \in [Entries -> Archives \cup {None}]
  BY DEF EmptyDirectory
<1> QED BY <1>1, <1>2 DEF Directories, Whole

LEMMA IncomingStep == StartInv /\ [Next]_vars => incoming' \in Directories
<1> SUFFICES ASSUME StartInv, [Next]_vars PROVE incoming' \in Directories
  OBVIOUS
<1>1. incoming \in Directories
  BY StartFacts
<1>2. ASSUME NEW u \in Uploads, Unpack(u) PROVE incoming' \in Directories
  <2> DEFINE e == EntryOrder[upload[u].n]
  <2>1. incoming \in [Entries -> Archives \cup {None}]
    BY <1>1, <1>2 DEF Unpack, Directories
  <2>2. upload[u].archive \in Archives /\ e \in Entries
    BY <1>2, EntryFacts DEF StartInv, UploadsKnow, Unpack
  <2>3. incoming' = [incoming EXCEPT ![e] = IF e \in Holds(upload[u].archive)
                                            THEN upload[u].archive ELSE incoming[e]]
    BY <1>2 DEF Unpack
  <2> HIDE DEF e
  <2>4. incoming' \in [Entries -> Archives \cup {None}]
    BY <2>1, <2>2, <2>3
  <2> QED BY <2>4, DirectoryFacts
<1>3. ASSUME NEW u \in Uploads, Clear(u) \/ Install(u) PROVE incoming' \in Directories
  <2>1. CASE incoming' \in {EmptyDirectory, NoDirectory}
    BY <2>1, DirectoryFacts
  <2>2. ASSUME NEW gone, incoming # NoDirectory,
               incoming' = [e \in Entries |-> IF e \in gone THEN None ELSE incoming[e]]
        PROVE  incoming' \in Directories
    BY <1>1, <2>2 DEF Directories
  <2> QED BY <1>3, <2>1, <2>2 DEF Clear, Install
<1>4. CASE WipeRestore
  BY <1>1, <1>4, DirectoryFacts DEF WipeRestore
<1> QED BY <1>1, <1>2, <1>3, <1>4, IncomingChanges

LEMMA StageStep == StartInv /\ [Next]_vars => stage' \in Directories
<1> SUFFICES ASSUME StartInv, [Next]_vars PROVE stage' \in Directories
  OBVIOUS
<1>1. stage \in Directories /\ incoming \in Directories
  BY StartFacts
<1>2. ASSUME NEW e \in Entries, stage' = [stage EXCEPT ![e] = None] PROVE stage' \in Directories
  <2>1. CASE stage = NoDirectory
    BY <1>2, <2>1 DEF NoDirectory, Directories
  <2>2. CASE stage \in [Entries -> Archives \cup {None}]
    BY <1>2, <2>2 DEF Directories
  <2> QED BY <1>1, <2>1, <2>2 DEF Directories
<1>3. ASSUME NEW u \in Uploads, RemoveStaged(u) \/ Install(u) PROVE stage' \in Directories
  BY <1>1, <1>2, <1>3, DirectoryFacts DEF RemoveStaged, Install
<1>4. CASE Crash
  BY <1>1, <1>2, <1>4 DEF Crash, Interrupted
<1>5. CASE WipeRestore \/ DiscardStaged
  BY <1>1, <1>5, DirectoryFacts DEF WipeRestore, DiscardStaged
<1> QED BY <1>1, <1>3, <1>4, <1>5, StageChanges

\* Upload u, and no other, goes on to this step.
UploadRecord == [at : UploadSteps, archive : Archives \cup {None}, n : 1 .. Len(EntryOrder) + 1]
UploadBecomes(u, step, archive, n) ==
    /\ upload'[u] = [at |-> step, archive |-> archive, n |-> n]
    /\ \A v \in Uploads : v # u => upload'[v] = upload[v]
    /\ upload' \in [Uploads -> UploadRecord]

LEMMA UploadFacts ==
    ASSUME StartInv, NEW u \in Uploads
    PROVE  /\ upload \in [Uploads -> UploadRecord] /\ upload[u] \in UploadRecord
           /\ upload[u].at \in UploadSteps
           /\ upload[u].at \in {"clear", "unpack"} =>
                upload[u].archive \in Archives /\ upload[u].n \in 1 .. Len(EntryOrder)
           /\ upload[u].at = "clear" => upload[u].n = 1
<1>1. upload \in [Uploads -> UploadRecord]
  BY DEF StartInv, TypeOK, UploadRecord
<1>2. upload[u] \in UploadRecord
  BY <1>1
<1> QED BY <1>1, <1>2 DEF UploadRecord, StartInv, UploadsKnow

LEMMA UploadSet ==
    ASSUME StartInv, NEW u \in Uploads, NEW step \in UploadSteps, NEW archive \in Archives \cup {None},
           NEW n \in 1 .. Len(EntryOrder) + 1,
           upload' = [upload EXCEPT ![u] = [at |-> step, archive |-> archive, n |-> n]]
    PROVE  UploadBecomes(u, step, archive, n)
  BY UploadFacts DEF UploadBecomes, UploadRecord

LEMMA UploadDoes ==
    ASSUME StartInv, NEW u \in Uploads, UploadStep(u)
    PROVE  \/ Begin(u) /\ \E a \in Archives : UploadBecomes(u, "clear", a, 1)
           \/ Clear(u) /\ UploadBecomes(u, "unpack", upload[u].archive, 1)
           \/ /\ Unpack(u) /\ upload[u].n < Len(EntryOrder)
              /\ UploadBecomes(u, "unpack", upload[u].archive, upload[u].n + 1)
           \/ /\ Unpack(u) /\ upload[u].n = Len(EntryOrder)
              /\ UploadBecomes(u, "replace", None, 1)
           \/ RemoveStaged(u) /\ (UNCHANGED upload \/ UploadBecomes(u, "install", None, 1))
           \/ Install(u) /\ UploadBecomes(u, "mark", None, 1)
           \/ (Mark(u) \/ Fail(u)) /\ UploadBecomes(u, "idle", None, 1)
<1>1. 1 \in 1 .. Len(EntryOrder) + 1 /\ Len(EntryOrder) \in Nat
  BY EntryFacts, FolderFacts
<1>2. ASSUME NEW step \in UploadSteps, Move(u, step) PROVE UploadBecomes(u, step, None, 1)
  BY <1>1, <1>2, UploadSet DEF Move
<1>3. CASE Begin(u)
  BY <1>1, <1>3, UploadSet DEF Begin, UploadSteps
<1>4. CASE Clear(u)
  <2>1. upload' = [upload EXCEPT ![u].at = "unpack"] /\ upload[u].at = "clear"
    BY <1>4 DEF Clear
  <2>2. upload'[u] = [at |-> "unpack", archive |-> upload[u].archive, n |-> 1]
    BY <2>1, UploadFacts DEF UploadRecord
  <2>3. upload' = [upload EXCEPT ![u] = [at |-> "unpack", archive |-> upload[u].archive, n |-> 1]]
    BY <2>1, <2>2, UploadFacts
  <2>4. upload[u].archive \in Archives \cup {None}
    BY <2>1, UploadFacts
  <2> QED BY <1>1, <1>4, <2>3, <2>4, UploadSet DEF UploadSteps
<1>5. CASE Unpack(u)
  <2>1. upload[u].archive \in Archives /\ upload[u].n \in 1 .. Len(EntryOrder)
    BY <1>5, UploadFacts DEF Unpack
  <2>2. CASE upload[u].n < Len(EntryOrder)
    <3>1. upload' = [upload EXCEPT ![u].n = upload[u].n + 1] /\ upload[u].at = "unpack"
      BY <1>5, <2>2 DEF Unpack
    <3>2. upload'[u] = [at |-> "unpack", archive |-> upload[u].archive, n |-> upload[u].n + 1]
      BY <3>1, UploadFacts DEF UploadRecord
    <3>3. upload' = [upload EXCEPT ![u] = [at |-> "unpack", archive |-> upload[u].archive,
                                           n |-> upload[u].n + 1]]
      BY <3>1, <3>2, UploadFacts
    <3>4. upload[u].n + 1 \in 1 .. Len(EntryOrder) + 1
      BY <1>1, <2>1
    <3> QED BY <1>5, <2>1, <2>2, <3>3, <3>4, UploadSet DEF UploadSteps
  <2>3. CASE ~(upload[u].n < Len(EntryOrder))
    <3>1. Move(u, "replace") /\ upload[u].n = Len(EntryOrder)
      BY <1>1, <1>5, <2>1, <2>3 DEF Unpack
    <3> QED BY <1>2, <1>5, <3>1 DEF UploadSteps
  <2> QED BY <2>2, <2>3
<1>6. CASE RemoveStaged(u)
  BY <1>2, <1>6 DEF RemoveStaged, UploadSteps
<1>7. CASE Install(u) \/ Mark(u) \/ Fail(u)
  BY <1>2, <1>7 DEF Install, Mark, Fail, UploadSteps
<1> QED BY <1>3, <1>4, <1>5, <1>6, <1>7 DEF UploadStep

UploadsOK ==
    /\ upload \in [Uploads -> UploadRecord] /\ UploadsKnow
    /\ ~Running => \A u \in Uploads : upload[u].at = "idle"

LEMMA UploadsStep == StartInv /\ [Next]_vars => UploadsOK'
<1> SUFFICES ASSUME StartInv, [Next]_vars PROVE UploadsOK'
  OBVIOUS
<1>1. UploadsOK /\ 1 \in 1 .. Len(EntryOrder) /\ Len(EntryOrder) \in Nat
  BY UploadFacts, EntryFacts, FolderFacts DEF StartInv, TypeOK, UploadsOK, UploadRecord
<1>2. ASSUME NEW u \in Uploads, UploadStep(u) PROVE UploadsOK'
  <2>1. at' = at /\ Running
    BY <1>2
       DEF StartInv, TypeOK, UploadStep, Begin, Clear, Unpack, RemoveStaged, Install, Mark, Fail
  <2>2. ASSUME NEW step, NEW a, NEW n, UploadBecomes(u, step, a, n),
               step \in {"clear", "unpack"} => a \in Archives /\ n \in 1 .. Len(EntryOrder),
               step = "clear" => n = 1
        PROVE  UploadsOK'
    BY <1>1, <2>1, <2>2 DEF UploadBecomes, UploadsOK, UploadsKnow, Running
  <2>3. upload[u].at \in {"clear", "unpack"} =>
            upload[u].archive \in Archives /\ upload[u].n \in 1 .. Len(EntryOrder)
    BY UploadFacts
  <2>4. CASE RemoveStaged(u) /\ UNCHANGED upload
    BY <1>1, <2>1, <2>4 DEF UploadsOK, UploadsKnow, Running
  <2>5. ASSUME NEW a \in Archives, UploadBecomes(u, "clear", a, 1) PROVE UploadsOK'
    BY <1>1, <2>2, <2>5
  <2>6. CASE Clear(u) /\ UploadBecomes(u, "unpack", upload[u].archive, 1)
    <3>1. upload[u].archive \in Archives
      BY <2>3, <2>6 DEF Clear
    <3> QED BY <1>1, <2>2, <2>6, <3>1
  <2>7. CASE /\ Unpack(u) /\ upload[u].n < Len(EntryOrder)
             /\ UploadBecomes(u, "unpack", upload[u].archive, upload[u].n + 1)
    <3>1. upload[u].archive \in Archives /\ upload[u].n + 1 \in 1 .. Len(EntryOrder)
      BY <1>1, <2>3, <2>7 DEF Unpack
    <3> QED BY <2>2, <2>7, <3>1
  <2>8. ASSUME NEW step \in {"replace", "install", "mark", "idle"}, UploadBecomes(u, step, None, 1)
        PROVE  UploadsOK'
    BY <2>2, <2>8
  <2> QED BY <1>2, <2>4, <2>5, <2>6, <2>7, <2>8, UploadDoes
<1>3. CASE Stop
  <2>1. upload' = [u \in Uploads |-> Idle]
    BY <1>3 DEF Stop
  <2>2. Idle \in UploadRecord
    BY EntryFacts, FolderFacts DEF Idle, UploadRecord, UploadSteps
  <2> QED BY <2>1, <2>2 DEF UploadsOK, UploadsKnow, Idle
<1>4. CASE UNCHANGED upload
  <2>1. ASSUME Running, ~Running' PROVE Stop
    BY <2>1
       DEF Next, UploadStep, Begin, Clear, Unpack, RemoveStaged, Install, Mark, Fail, RequestReset, Use,
           Crash, Start, ResetStep, CheckReset, WipeDatabase, WipeFolder, WipeRestore, WipeMarker,
           RestoreStep, CheckRestore, MakeRollback, KeepDatabase, RemoveDatabase, PlaceDatabase, DropLog,
           SetFolderAside, CopyFolder, RemoveMarker, DiscardStaged, PruneRollbacks, Open, vars, Running
  <2> QED BY <1>1, <1>3, <1>4, <2>1 DEF UploadsOK, UploadsKnow
<1> QED BY <1>2, <1>3, <1>4, UploadChanges

-----------------------------------------------------------------------------
(* The rollback folders.                                                   *)
Folder == [Items -> Contents]

\* In the newest one, item i becomes x.
Fills(i, x) ==
    /\ rollbacks' \in Seq(Folder) /\ Len(rollbacks') = Len(rollbacks)
    /\ DOMAIN rollbacks' = DOMAIN rollbacks /\ Len(rollbacks) \in DOMAIN rollbacks
    /\ \A n \in DOMAIN rollbacks : n # Len(rollbacks) => rollbacks'[n] = rollbacks[n]
    /\ rollbacks'[Len(rollbacks)][i] = x
    /\ \A j \in Items : j # i => rollbacks'[Len(rollbacks)][j] = rollbacks[Len(rollbacks)][j]

LEMMA RollbackFacts ==
    ASSUME StartInv
    PROVE  /\ rollbacks \in Seq(Folder) /\ Len(rollbacks) \in Nat /\ DOMAIN rollbacks = 1 .. Len(rollbacks)
           /\ at \in Restoring => Len(rollbacks) \in DOMAIN rollbacks
           /\ \A n \in DOMAIN rollbacks : rollbacks[n] \in Folder
<1>1. rollbacks \in Seq(Folder)
  BY DEF StartInv, RollbacksFit, Folder
<1>2. at \in Restoring => Len(rollbacks) # 0
  BY <1>1, EmptySeq DEF StartInv, RollbacksFit
<1> QED BY <1>1, <1>2

LEMMA FillsLast ==
    ASSUME StartInv, at \in Restoring, NEW i \in Items, NEW x \in Contents,
           rollbacks' = [rollbacks EXCEPT ![Len(rollbacks)][i] = x]
    PROVE  Fills(i, x)
<1>1. /\ rollbacks \in Seq(Folder) /\ Len(rollbacks) \in 1 .. Len(rollbacks)
      /\ DOMAIN rollbacks = 1 .. Len(rollbacks) /\ rollbacks[Len(rollbacks)] \in Folder
  BY RollbackFacts
<1>2. PICK folder : folder = [rollbacks[Len(rollbacks)] EXCEPT ![i] = x]
  OBVIOUS
<1>3. folder \in Folder /\ folder[i] = x /\ \A j \in Items : j # i => folder[j] = rollbacks[Len(rollbacks)][j]
  BY <1>1, <1>2 DEF Folder
<1>4. rollbacks' = [rollbacks EXCEPT ![Len(rollbacks)] = folder]
  BY <1>2
<1>5. /\ rollbacks' \in Seq(Folder) /\ Len(rollbacks') = Len(rollbacks)
      /\ \A j \in 1 .. Len(rollbacks) :
            rollbacks'[j] = IF j = Len(rollbacks) THEN folder ELSE rollbacks[j]
  <2>1. PICK all, last : all = rollbacks /\ last = Len(rollbacks)
    OBVIOUS
  <2>2. all \in Seq(Folder) /\ last \in 1 .. Len(all)
    BY <1>1, <2>1
  <2>3. /\ [all EXCEPT ![last] = folder] \in Seq(Folder)
        /\ Len([all EXCEPT ![last] = folder]) = Len(all)
        /\ \A j \in 1 .. Len(all) : [all EXCEPT ![last] = folder][j] = IF j = last THEN folder ELSE all[j]
    BY <1>3, <2>2, ExceptSeq
  <2>4. rollbacks' = [all EXCEPT ![last] = folder]
    BY <1>4, <2>1
  <2> QED BY <2>1, <2>3, <2>4
<1> QED BY <1>1, <1>3, <1>5 DEF Fills

LEMMA KeepFills ==
    ASSUME StartInv, KeepDatabase
    PROVE  LET d == DatabaseOrder[k] IN
           Fills(d, IF live[d] # None /\ wal[d] = live[d] THEN Behind ELSE live[d])
<1>1. PICK d, x : d = DatabaseOrder[k] /\ x = (IF live[d] # None /\ wal[d] = live[d] THEN Behind ELSE live[d])
  OBVIOUS
<1>2. d \in Items /\ x \in Contents /\ at \in Restoring
  BY <1>1, StartFacts, DatabaseFacts, ContentFacts DEF KeepDatabase, Restoring
<1>3. rollbacks' = [rollbacks EXCEPT ![Len(rollbacks)][d] = x]
  BY <1>1 DEF KeepDatabase
<1> QED BY <1>1, <1>2, <1>3, FillsLast

LEMMA AsideFills ==
    ASSUME StartInv, SetFolderAside
    PROVE  Fills(FolderOrder[k], live[FolderOrder[k]])
<1>1. PICK f, x : f = FolderOrder[k] /\ x = live[f]
  OBVIOUS
<1>2. f \in Items /\ x \in Contents /\ at \in Restoring
  BY <1>1, StartFacts, FolderFacts DEF SetFolderAside, Restoring
<1>3. rollbacks' = [rollbacks EXCEPT ![Len(rollbacks)][f] = x]
  BY <1>1 DEF SetFolderAside
<1> QED BY <1>1, <1>2, <1>3, FillsLast

LEMMA CrashFills ==
    ASSUME StartInv, Crash, rollbacks' # rollbacks
    PROVE  at = "keep" /\ Fills(DatabaseOrder[k], Torn)
<1>1. PICK d : d = DatabaseOrder[k]
  OBVIOUS
<1>2. at = "keep" /\ rollbacks' = [rollbacks EXCEPT ![Len(rollbacks)][d] = Torn]
  BY <1>1 DEF Crash, Interrupted
<1>3. d \in Items /\ at \in Restoring
  BY <1>1, <1>2, StartFacts, DatabaseFacts DEF Restoring
<1> QED BY <1>1, <1>2, <1>3, FillsLast, ContentFacts

LEMMA MakesRollback ==
    ASSUME StartInv, MakeRollback
    PROVE  /\ rollbacks' \in Seq(Folder) /\ Len(rollbacks') = Len(rollbacks) + 1
           /\ DOMAIN rollbacks' = 1 .. Len(rollbacks) + 1 /\ rollbacks' # <<>>
           /\ \A n \in DOMAIN rollbacks : rollbacks'[n] = rollbacks[n]
           /\ \A i \in Items : rollbacks'[Len(rollbacks')][i] = None
<1>1. rollbacks \in Seq(Folder) /\ DOMAIN rollbacks = 1 .. Len(rollbacks) /\ Len(rollbacks) \in Nat
  BY RollbackFacts
<1> DEFINE empty == [i \in Items |-> None]
<1>2. empty \in Folder
  BY ContentFacts DEF Folder
<1>3. rollbacks' = Append(rollbacks, empty)
  BY DEF MakeRollback
<1>4. \A i \in Items : empty[i] = None
  OBVIOUS
<1> HIDE DEF empty
<1>5. /\ rollbacks' \in Seq(Folder) /\ rollbacks' # <<>> /\ Len(rollbacks') = Len(rollbacks) + 1
      /\ \A n \in 1 .. Len(rollbacks) : rollbacks'[n] = rollbacks[n]
      /\ rollbacks'[Len(rollbacks) + 1] = empty
  BY <1>1, <1>2, <1>3, AppendProperties
<1> QED BY <1>1, <1>4, <1>5

\* The newest are kept.
\* Of the folders that are there to stay, none is among the first ones.
LEMMA Prunes ==
    ASSUME StartInv, PruneRollbacks
    PROVE  \E gone \in Nat :
              /\ rollbacks' \in Seq(Folder)
              /\ gone = 0 \/ gone + Kept <= Len(rollbacks)
              /\ Len(rollbacks') = Len(rollbacks) - gone
              /\ \A n \in DOMAIN rollbacks :
                    n > gone => n - gone \in DOMAIN rollbacks' /\ rollbacks'[n - gone] = rollbacks[n]
<1>1. rollbacks \in Seq(Folder) /\ DOMAIN rollbacks = 1 .. Len(rollbacks) /\ Len(rollbacks) \in Nat
      /\ \A n \in 1 .. Len(rollbacks) : rollbacks[n] \in Folder
  BY RollbackFacts
<1>2. Kept \in Nat /\ Kept > 0
  BY RestoreConstants
<1>3. CASE Len(rollbacks) > Kept
  <2>1. PICK first \in 1 .. Len(rollbacks) - Kept + 1 : rollbacks' = SubSeq(rollbacks, first, Len(rollbacks))
    BY <1>3 DEF PruneRollbacks
  <2>2. PICK m, n : m = first /\ n = Len(rollbacks)
    OBVIOUS
  <2>3. /\ m \in Int /\ n \in Int /\ m <= n /\ m > 0 /\ n - m + 1 >= Kept
        /\ \A i \in m .. n : rollbacks[i] \in Folder
    BY <1>1, <1>2, <1>3, <2>1, <2>2
  <2>4. PICK all : all = rollbacks
    OBVIOUS
  <2>5. /\ SubSeq(all, m, n) \in Seq(Folder)
        /\ Len(SubSeq(all, m, n)) = IF m <= n THEN n - m + 1 ELSE 0
        /\ \A i \in 1 .. n - m + 1 : SubSeq(all, m, n)[i] = all[m + i - 1]
    <3>1. \A i \in m .. n : all[i] \in Folder
      BY <2>3, <2>4
    <3>2. m \in Int /\ n \in Int
      BY <2>3
    <3> QED BY <3>1, <3>2, SubSeqProperties
  <2>6. /\ rollbacks' \in Seq(Folder) /\ Len(rollbacks') = n - m + 1
        /\ \A i \in 1 .. n - m + 1 : rollbacks'[i] = rollbacks[m + i - 1]
    BY <2>1, <2>2, <2>3, <2>4, <2>5
  <2>7. PICK gone : gone = m - 1
    OBVIOUS
  <2>8. /\ gone \in Nat /\ gone + Kept <= Len(rollbacks) /\ Len(rollbacks') = Len(rollbacks) - gone
        /\ DOMAIN rollbacks' = 1 .. Len(rollbacks')
    BY <1>1, <1>2, <2>2, <2>3, <2>6, <2>7
  <2>9. ASSUME NEW j \in 1 .. Len(rollbacks), j > gone
        PROVE  j - gone \in 1 .. Len(rollbacks') /\ rollbacks'[j - gone] = rollbacks[j]
    <3>1. PICK i : i = j - gone
      OBVIOUS
    <3>2. i \in 1 .. n - m + 1 /\ m + i - 1 = j
      BY <1>1, <2>2, <2>3, <2>7, <2>9, <3>1
    <3> QED BY <2>6, <3>1, <3>2
  <2> QED BY <1>1, <2>6, <2>8, <2>9
<1>4. CASE ~(Len(rollbacks) > Kept)
  <2>1. rollbacks' = rollbacks
    BY <1>4 DEF PruneRollbacks
  <2>2. \A n \in DOMAIN rollbacks : n - 0 = n
    BY <1>1
  <2>3. Len(rollbacks) - 0 = Len(rollbacks) /\ 0 \in Nat
    BY <1>1
  <2> WITNESS 0 \in Nat
  <2> QED BY <1>1, <2>1, <2>2, <2>3
<1> QED BY <1>3, <1>4

LEMMA RollbacksStep == StartInv /\ [Next]_vars => RollbacksFit'
<1> SUFFICES ASSUME StartInv, [Next]_vars PROVE RollbacksFit'
  OBVIOUS
<1>1. /\ rollbacks \in Seq(Folder) /\ Len(rollbacks) \in Nat /\ DOMAIN rollbacks = 1 .. Len(rollbacks)
      /\ at \in Restoring => Len(rollbacks) # 0
  BY RollbackFacts
<1>2. rollbacks' \in Seq(Folder)
  <2>1. CASE Crash
    <3>1. CASE rollbacks' = rollbacks
      BY <1>1, <3>1
    <3>2. CASE rollbacks' # rollbacks
      BY <2>1, <3>2, CrashFills DEF Fills
    <3> QED BY <3>1, <3>2
  <2>2. CASE WipeRestore
    <3>1. rollbacks' = rollbacks \/ rollbacks' = <<>>
      BY <2>2 DEF WipeRestore
    <3>2. <<>> \in Seq(Folder)
      BY EmptySeq
    <3> QED BY <1>1, <3>1, <3>2
  <2>3. CASE MakeRollback \/ KeepDatabase \/ SetFolderAside \/ PruneRollbacks
    BY <2>3, MakesRollback, KeepFills, AsideFills, Prunes DEF Fills
  <2> QED BY <1>1, <2>1, <2>2, <2>3, RollbackChanges
<1>3. at' \in Restoring => Len(rollbacks') # 0
  <2>1. at' \in Restoring => MakeRollback \/ at \in Restoring
    BY DEF Next, UploadStep, Begin, Clear, Unpack, RemoveStaged, Install, Mark, Fail, RequestReset, Use, Stop,
         Crash, Start, ResetStep, CheckReset, WipeDatabase, WipeFolder, WipeRestore, WipeMarker,
         RestoreStep, CheckRestore, KeepDatabase, RemoveDatabase, PlaceDatabase, DropLog,
         SetFolderAside, CopyFolder, RemoveMarker, DiscardStaged, PruneRollbacks, Open, vars, Restoring, Goto
  <2>2. CASE Crash \/ WipeRestore \/ PruneRollbacks
    BY <2>2 DEF Crash, WipeRestore, PruneRollbacks, Goto, Restoring
  <2>3. CASE MakeRollback
    BY <1>1, <2>3, MakesRollback
  <2>4. CASE KeepDatabase \/ SetFolderAside
    BY <1>1, <2>1, <2>4, KeepFills, AsideFills DEF Fills, MakeRollback, KeepDatabase, SetFolderAside
  <2> QED BY <1>1, <2>1, <2>2, <2>3, <2>4, RollbackChanges
<1> QED BY <1>2, <1>3 DEF RollbacksFit, Folder

LEMMA StartStep == StartInv /\ [Next]_vars => StartInv'
<1> SUFFICES ASSUME StartInv, [Next]_vars PROVE StartInv'
  OBVIOUS
<1>1. /\ (ControlOK /\ PlacesFit /\ MarkersFit /\ Counted)' /\ DataOK' /\ UploadsOK' /\ RollbacksFit'
      /\ incoming' \in Directories /\ stage' \in Directories
  BY ControlStep, DataStep, UploadsStep, RollbacksStep, IncomingStep, StageStep
<1>3. logsLeft' \subseteq Databases
  BY StartFacts, LogsLeftChanges DEF StartInv, TypeOK, DropLog, Open
<1>2. TypeOK'
  <2>1. \A n \in DOMAIN rollbacks' : rollbacks'[n] \in [Items -> Contents]
    BY <1>1 DEF RollbacksFit
  <2> QED BY <1>1, <1>3, <2>1 DEF TypeOK, ControlOK, DataOK, UploadsOK, UploadRecord, Directories
<1> QED BY <1>1, <1>2 DEF StartInv, UploadsOK

LEMMA StartInitial == Init => StartInv
<1> SUFFICES ASSUME Init PROVE StartInv
  OBVIOUS
<1>1. 1 \in 1 .. Len(EntryOrder) /\ 1 \in 1 .. Len(EntryOrder) + 1
  BY EntryFacts, FolderFacts
<1>2. Idle \in UploadRecord /\ Idle.at = "idle"
  BY <1>1 DEF Idle, UploadRecord, UploadSteps
<1>3. rollbacks = <<>> /\ rollbacks \in Seq([Items -> Contents])
  BY DEF Init
<1>4. TypeOK
  <2>1. live \in [Items -> Contents] /\ base \in [Items -> Contents] /\ wal \in [Databases -> Contents]
    BY ContentFacts DEF Init
  <2>2. upload \in [Uploads -> UploadRecord] /\ \A u \in Uploads : upload[u].at = "idle"
    BY <1>2 DEF Init
  <2>3. at = "up" /\ k = 1 /\ incoming = NoDirectory /\ stage = NoDirectory /\ ~ready /\ ~reset
        /\ uploads = 0 /\ starts = 0 /\ tries = 0 /\ clean /\ ~disturbed /\ logsLeft = {}
        /\ {ready, reset, clean, disturbed} \subseteq BOOLEAN
    BY DEF Init
  <2>4. uploads \in 0 .. MaxUploads /\ starts \in 0 .. MaxStarts /\ tries \in 0 .. MaxStarts
    BY <2>3, RestoreConstants
  <2> QED BY <1>1, <1>3, <2>1, <2>2, <2>3, <2>4 DEF TypeOK, UploadRecord, Steps
<1>5. UploadsKnow
  BY <1>2 DEF Init, UploadsKnow
<1> QED
  BY <1>3, <1>4, <1>5 DEF Init, StartInv, PlacesFit, MarkersFit, Counted, RollbacksFit, Restoring

LEMMA StartInvariant == Spec => []StartInv
  BY StartInitial, StartStep, PTL DEF Spec

(* What is on the disk and where a start or an upload is, is of its type   *)
(* whatever the folders and the archives, and uploads end with the server. *)
THEOREM RestoreTyping == Spec => []TypeOK
<1>1. StartInv => TypeOK
  BY DEF StartInv
<1> QED BY <1>1, StartInvariant, PTL
-----------------------------------------------------------------------------
(* Databases and their logs.                                               *)
LEMMA LogsStep ==
    ASSUME StartInv, LogsFit, [Next]_vars
    PROVE  LogsFit'
<1>1. /\ live \in [Items -> Contents] /\ wal \in [Databases -> Contents]
      /\ Databases = {"music", "core"} /\ DatabaseOrder[1] = "music" /\ DatabaseOrder[2] = "core"
      /\ \A d \in Databases : d \in Items /\ \A j \in DOMAIN FolderOrder : FolderOrder[j] # d
  BY StartFacts, DatabaseFacts, FolderFacts
<1>2. PlacesFit /\ MarkersFit
  BY DEF StartInv
<1>3. Running => \A d \in Databases : Fits(d)
  BY DEF LogsFit
\* The running server, and a start that ends or begins.
<1>4. ASSUME NEW u \in Uploads, UploadStep(u) PROVE LogsFit'
  <2>1. Running /\ at' = at /\ UNCHANGED <<live, wal, logsLeft>>
    BY <1>4
       DEF StartInv, TypeOK, UploadStep, Begin, Clear, Unpack, RemoveStaged, Install, Mark, Fail, disk,
           history
  <2> QED BY <1>3, <2>1 DEF LogsFit, Fits, Running
<1>5. CASE RequestReset \/ Use \/ Stop
  BY <1>1, <1>3, <1>5 DEF LogsFit, Fits, Running, RequestReset, Use, Stop, history
<1>6. CASE Start
  BY <1>6 DEF LogsFit, Fits, Running, Start, disk, history
<1>7. CASE Crash
  <2>1. \A d \in Databases : live'[d] = live[d] /\ wal'[d] = wal[d]
    BY <1>1, <1>2, <1>7, FolderFacts DEF Crash, Interrupted, PlacesFit
  <2>2. stage' = stage \/ at = "discard"
    BY <1>7 DEF Crash, Interrupted
  <2>3. at' = "down" /\ ready' = ready /\ reset' = reset /\ logsLeft' = logsLeft
    BY <1>7 DEF Crash, history
  <2> QED BY <1>2, <2>1, <2>2, <2>3 DEF LogsFit, Fits, Running, MarkersFit, Staged
\* The reset.
<1>8. CASE CheckReset \/ WipeDatabase \/ WipeFolder \/ WipeRestore
  <2>1. at' \in {"wipe", "check"} /\ reset' = reset /\ ready' \in {ready, FALSE}
    BY <1>8 DEF CheckReset, WipeDatabase, WipeFolder, WipeRestore, Goto
  <2>2. CASE reset
    BY <2>1, <2>2 DEF LogsFit, Running
  <2>3. CASE ~reset
    <3>1. CheckReset
      BY <1>2, <1>8, <2>3 DEF MarkersFit, WipeDatabase, WipeFolder, WipeRestore
    <3> QED BY <2>1, <3>1 DEF CheckReset, LogsFit, Running, Fits
  <2> QED BY <2>2, <2>3
<1>9. CASE WipeMarker
  <2>1. \A d \in Databases : wal'[d] = None
    BY <1>9 DEF WipeMarker, NoDatabase
  <2> QED BY <1>9, <2>1 DEF WipeMarker, Goto, LogsFit, Fits
\* The restore.
<1>10. CASE CheckRestore \/ MakeRollback \/ KeepDatabase
  BY <1>2, <1>10 DEF CheckRestore, MakeRollback, KeepDatabase, Goto, LogsFit, Fits, MarkersFit, Running
<1>11. CASE RemoveDatabase
  <2>1. /\ k \in {1, 2} /\ ~reset /\ ready /\ at = "remove" /\ UNCHANGED <<wal, stage, ready, reset, logsLeft>>
    BY <1>2, <1>11 DEF RemoveDatabase, PlacesFit, MarkersFit, Restoring
  <2>2. CASE Staged(stage, DatabaseOrder[k])
    BY <1>1, <1>11, <2>1, <2>2 DEF RemoveDatabase, Goto, LogsFit, Fits, Running
  <2>3. CASE ~Staged(stage, DatabaseOrder[k])
    <3>1. Fits(DatabaseOrder[k])
      BY <1>1, <2>1, <2>3 DEF LogsFit
    <3>2. UNCHANGED live /\ AfterDatabase
      BY <1>11, <2>3 DEF RemoveDatabase
    <3> QED BY <1>1, <2>1, <3>1, <3>2 DEF AfterDatabase, Goto, LogsFit, Fits, Running
  <2> QED BY <2>2, <2>3
<1>12. CASE PlaceDatabase
  <2>1. /\ k \in {1, 2} /\ ~reset /\ ready /\ Staged(stage, DatabaseOrder[k])
        /\ UNCHANGED <<wal, stage, ready, reset, logsLeft>>
    BY <1>2, <1>12 DEF PlaceDatabase, PlacesFit, MarkersFit, Restoring
  <2> QED BY <1>1, <1>12, <2>1 DEF PlaceDatabase, Goto, LogsFit, Fits, Running
<1>13. CASE DropLog
  <2>1. k \in {1, 2} /\ UNCHANGED <<live, stage, ready, reset>> /\ AfterDatabase /\ at = "log"
    BY <1>2, <1>13 DEF DropLog, PlacesFit
  <2>2. /\ wal'[DatabaseOrder[k]] = None
           \/ DatabaseOrder[k] \in logsLeft'
        /\ \A d \in Databases : d # DatabaseOrder[k] => wal'[d] = wal[d] /\ (d \in logsLeft => d \in logsLeft')
    BY <1>1, <1>13, <2>1 DEF DropLog
  <2> QED BY <1>1, <2>1, <2>2 DEF AfterDatabase, Goto, LogsFit, Fits, Running
<1>14. CASE SetFolderAside \/ CopyFolder
  <2>1. logsLeft' = logsLeft /\ \A d \in Databases : live'[d] = live[d] /\ wal'[d] = wal[d]
    BY <1>1, <1>2, <1>14 DEF SetFolderAside, CopyFolder, PlacesFit
  <2>2. at' \in {"aside", "copy", "marker"} /\ at \in {"aside", "copy"}
    BY <1>14 DEF SetFolderAside, CopyFolder, AfterFolder, Goto
  <2> QED BY <2>1, <2>2 DEF LogsFit, Fits
<1>15. CASE RemoveMarker \/ DiscardStaged \/ PruneRollbacks
  <2>1. \A d \in Databases : Fits(d)
    BY <1>2, <1>15 DEF MarkersFit, LogsFit, RemoveMarker, DiscardStaged, PruneRollbacks
  <2>2. at' \in {"discard", "prune", "open"} /\ UNCHANGED <<live, wal, logsLeft>>
    BY <1>15 DEF RemoveMarker, DiscardStaged, PruneRollbacks, Goto
  <2>3. \A d \in Databases : Fits(d)'
    BY <2>1, <2>2 DEF Fits
  <2> QED BY <2>2, <2>3 DEF LogsFit
<1>17. CASE Open
  <2>1. at' = "up" /\ \A d \in Databases : wal'[d] = live'[d]
    BY <1>17 DEF Open, Goto
  <2> QED BY <2>1 DEF LogsFit, Fits
<1>16. CASE UNCHANGED vars
  BY <1>16 DEF vars, disk, history, LogsFit, Fits, Running, Staged
<1> QED
  BY <1>4, <1>5, <1>6, <1>7, <1>8, <1>9, <1>10, <1>11, <1>12, <1>13, <1>14, <1>15, <1>16, <1>17
     DEF Next, ResetStep, RestoreStep

(* No database is opened beside the log of another, which SQLite would     *)
(* apply to it, wherever a restore or a reset was cut off before and       *)
(* whatever removals failed on the way, but for a database whose last such *)
(* removal did (apply_staged_restore): OpensNoForeignLog.                  *)
THEOREM NoForeignLog == Spec => []OpensNoForeignLog
<1>1. Init => LogsFit
  BY DatabaseFacts DEF Init, LogsFit, Fits, Running
<1>2. StartInv /\ LogsFit /\ [Next]_vars => LogsFit'
  BY LogsStep
<1>3. StartInv /\ LogsFit => OpensNoForeignLog
  BY DEF StartInv, MarkersFit, LogsFit, OpensNoForeignLog, Fits
<1> QED BY <1>1, <1>2, <1>3, StartInvariant, PTL DEF Spec
-----------------------------------------------------------------------------
(* How far a start has come.                                               *)
LEMMA ProgressStep ==
    ASSUME StartInv, Progress, [Next]_vars
    PROVE  Progress'
<1>1. /\ live \in [Items -> Contents] /\ wal \in [Databases -> Contents]
      /\ Databases = {"music", "core"} /\ DatabaseOrder[1] = "music" /\ DatabaseOrder[2] = "core"
      /\ \A d \in Databases : d \in Items /\ \A j \in DOMAIN FolderOrder : FolderOrder[j] # d
      /\ \A f \in Folders : f \notin Databases
  BY StartFacts, DatabaseFacts, FolderFacts
<1>2. PlacesFit /\ MarkersFit
  BY DEF StartInv
<1>3. /\ DOMAIN FolderOrder = 1 .. Len(FolderOrder) /\ Len(FolderOrder) \in Nat
      /\ FolderOrder = <<>> <=> Len(FolderOrder) = 0
      /\ \A j \in DOMAIN FolderOrder : FolderOrder[j] \in Folders /\ FolderOrder[j] \in Items
      /\ \A i, j \in DOMAIN FolderOrder : FolderOrder[i] = FolderOrder[j] => i = j
      /\ \A f \in Folders : \E j \in DOMAIN FolderOrder : FolderOrder[j] = f
  BY FolderFacts
\* Where nothing is being done there is nothing to say.
<1>4. ASSUME at' \notin Restoring \cup {"wipe"} PROVE Progress'
  BY <1>4 DEF Progress, Restoring
<1>5. ASSUME NEW u \in Uploads, UploadStep(u) PROVE Progress'
  <2>1. at' = "up"
    BY <1>5
       DEF StartInv, TypeOK, Running, UploadStep, Begin, Clear, Unpack, RemoveStaged, Install, Mark, Fail
  <2> QED BY <1>4, <2>1 DEF Restoring
<1>6. CASE RequestReset \/ Use \/ Stop \/ Crash \/ Start \/ WipeMarker \/ CheckRestore
           \/ RemoveMarker \/ DiscardStaged \/ PruneRollbacks \/ Open
  BY <1>4, <1>6
     DEF RequestReset, Use, Stop, Crash, Start, WipeMarker, CheckRestore, RemoveMarker, DiscardStaged,
         PruneRollbacks, Open, Goto, Restoring, Running
\* The reset.
<1>7. CASE CheckReset
  BY <1>3, <1>7 DEF CheckReset, Goto, Progress
<1>8. CASE WipeDatabase
  <2>1. at = "wipe" /\ UNCHANGED <<at, k>> /\ (k > 1 => NoDatabase) /\ ~NoDatabase
    BY <1>8 DEF WipeDatabase, Progress, NoDatabase
  <2>2. \A j \in DOMAIN FolderOrder : live'[FolderOrder[j]] = live[FolderOrder[j]]
    BY <1>1, <1>3, <1>8 DEF WipeDatabase
  <2> QED BY <2>1, <2>2 DEF Progress
<1>9. CASE WipeFolder
  <2>1. /\ at = "wipe" /\ at' = "wipe" /\ k \in DOMAIN FolderOrder /\ k' = k + 1 /\ NoDatabase /\ wal' = wal
        /\ live' = [live EXCEPT ![FolderOrder[k]] = None]
    BY <1>9 DEF WipeFolder, Goto
  <2>2. NoDatabase'
    BY <1>1, <2>1 DEF NoDatabase
  <2>3. ASSUME NEW j \in DOMAIN FolderOrder, j < k + 1 PROVE live'[FolderOrder[j]] = None
    <3>1. CASE j < k
      BY <1>1, <1>3, <2>1, <3>1 DEF Progress
    <3>2. CASE j = k
      BY <1>1, <1>3, <2>1, <3>2
    <3> QED BY <1>3, <2>1, <2>3, <3>1, <3>2
  <2> QED BY <2>1, <2>2, <2>3 DEF Progress
<1>10. CASE WipeRestore
  BY <1>10 DEF WipeRestore, Progress, NoDatabase
\* The restore.
<1>11. CASE MakeRollback \/ KeepDatabase
  BY <1>11 DEF MakeRollback, KeepDatabase, Goto, Progress
<1>12. ASSUME k \in {1, 2}, AfterDatabase, UNCHANGED <<live, stage>>, at \in {"remove", "log"},
              Placed(DatabaseOrder[k])
       PROVE  Progress'
  <2>1. k = 2 => \A d \in Databases : Placed(d)
    BY <1>1, <1>12 DEF Progress
  <2> QED BY <1>1, <1>3, <1>12, <2>1 DEF AfterDatabase, Goto, Progress, Placed, Replaced, Folders
<1>13. CASE RemoveDatabase
  <2>1. k \in {1, 2} /\ at = "remove" /\ stage' = stage
    BY <1>2, <1>13 DEF RemoveDatabase, PlacesFit
  <2>2. CASE Staged(stage, DatabaseOrder[k])
    BY <1>1, <1>13, <2>1, <2>2 DEF RemoveDatabase, Goto, Progress, Placed
  <2>3. CASE ~Staged(stage, DatabaseOrder[k])
    BY <1>12, <1>13, <2>1, <2>3 DEF RemoveDatabase, Placed
  <2> QED BY <2>2, <2>3
<1>14. CASE PlaceDatabase
  <2>1. k \in {1, 2} /\ at = "place" /\ at' = "log" /\ k' = k /\ stage' = stage
    BY <1>2, <1>14 DEF PlaceDatabase, PlacesFit, Goto
  <2>2. /\ live'[DatabaseOrder[k]] = stage[DatabaseOrder[k]]
        /\ k = 2 => live'["music"] = live["music"]
    BY <1>1, <1>14, <2>1 DEF PlaceDatabase
  <2> QED BY <2>1, <2>2 DEF Progress, Placed
<1>15. CASE DropLog
  BY <1>2, <1>12, <1>15 DEF DropLog, PlacesFit, Progress
<1>16. ASSUME k \in DOMAIN FolderOrder, AfterFolder, stage' = stage, at \in {"aside", "copy"},
              \A i \in Items : i # FolderOrder[k] => live'[i] = live[i],
              live'[FolderOrder[k]] = IF Staged(stage, FolderOrder[k]) THEN stage[FolderOrder[k]] ELSE None
       PROVE  Progress'
  <2>1. \A d \in Databases : Placed(d)'
    BY <1>1, <1>16 DEF Progress, Placed
  <2>2. ASSUME NEW j \in DOMAIN FolderOrder, j < k + 1 PROVE Replaced(FolderOrder[j])'
    <3>1. CASE j < k
      BY <1>3, <1>16, <3>1 DEF Progress, Replaced
    <3>2. CASE j = k
      BY <1>16, <3>2 DEF Replaced
    <3> QED BY <1>3, <1>16, <2>2, <3>1, <3>2
  <2>3. CASE k < Len(FolderOrder)
    BY <1>16, <2>1, <2>2, <2>3 DEF AfterFolder, Goto, Progress
  <2>4. CASE ~(k < Len(FolderOrder))
    <3>1. \A j \in DOMAIN FolderOrder : j < k + 1
      BY <1>3, <1>16, <2>4
    <3>2. \A f \in Folders : Replaced(f)'
      BY <1>3, <2>2, <3>1
    <3> QED BY <1>16, <2>1, <2>4, <3>2 DEF AfterFolder, Goto, Progress
  <2> QED BY <2>3, <2>4
<1>17. CASE SetFolderAside
  <2>1. k \in DOMAIN FolderOrder /\ at = "aside" /\ stage' = stage /\ FolderOrder[k] \in Items
    BY <1>2, <1>3, <1>17 DEF SetFolderAside, PlacesFit
  <2>2. live'[FolderOrder[k]] = None /\ \A i \in Items : i # FolderOrder[k] => live'[i] = live[i]
    BY <1>1, <1>17, <2>1 DEF SetFolderAside
  <2>3. CASE Staged(stage, FolderOrder[k])
    <3>1. at' = "copy" /\ k' = k
      BY <1>17, <2>3 DEF SetFolderAside, Goto
    <3>2. \A d \in Databases : Placed(d)'
      BY <1>1, <2>1, <2>2 DEF Progress, Placed
    <3>3. \A j \in DOMAIN FolderOrder : j < k => Replaced(FolderOrder[j])'
      BY <1>3, <2>1, <2>2 DEF Progress, Replaced
    <3> QED BY <3>1, <3>2, <3>3 DEF Progress
  <2>4. CASE ~Staged(stage, FolderOrder[k])
    BY <1>16, <1>17, <2>1, <2>2, <2>4 DEF SetFolderAside
  <2> QED BY <2>3, <2>4
<1>18. CASE CopyFolder
  <2>1. /\ k \in DOMAIN FolderOrder /\ at = "copy" /\ stage' = stage /\ FolderOrder[k] \in Items
        /\ Staged(stage, FolderOrder[k]) /\ AfterFolder
    BY <1>2, <1>3, <1>18 DEF CopyFolder, PlacesFit
  <2>2. /\ live'[FolderOrder[k]] = stage[FolderOrder[k]]
        /\ \A i \in Items : i # FolderOrder[k] => live'[i] = live[i]
    BY <1>1, <1>18, <2>1 DEF CopyFolder
  <2> QED BY <1>16, <2>1, <2>2
<1>19. CASE UNCHANGED vars
  BY <1>19 DEF vars, disk, Progress, Placed, Replaced, NoDatabase, Staged
<1> QED
  BY <1>5, <1>6, <1>7, <1>8, <1>9, <1>10, <1>11, <1>13, <1>14, <1>15, <1>17, <1>18, <1>19
     DEF Next, ResetStep, RestoreStep
-----------------------------------------------------------------------------
(* A restore and a reset happen entirely or not at all.                    *)
Data == [Items -> Contents]
Serving == IF Running THEN live ELSE Down
Pending == ready \/ reset

LEMMA PromiseFacts ==
    ASSUME StartInv
    PROVE  /\ live \in Data /\ Down \notin Data /\ Unstartable \notin Data
           /\ NextStart \in Data \cup {Unstartable}
           /\ Complete => Restored \in Data
           /\ ready \in BOOLEAN /\ reset \in BOOLEAN
<1>1. live \in Data /\ stage \in Directories /\ Items \subseteq Entries
      /\ ready \in BOOLEAN /\ reset \in BOOLEAN
  BY StartFacts, DatabaseFacts DEF Data, StartInv, TypeOK
<1>2. Down \notin Data /\ Unstartable \notin Data
  BY RestoreConstants DEF Data
<1>3. \A i \in Items : Staged(stage, i) => stage[i] \in Contents
  BY <1>1, StagedFacts, ContentFacts
<1>4. Restored \in Data
  BY <1>1, <1>3, ContentFacts DEF Restored, Data
<1>5. [i \in Items |-> None] \in Data
  BY ContentFacts DEF Data
<1> QED BY <1>1, <1>2, <1>4, <1>5 DEF NextStart

\* What the next start opens does not depend on what it does on the way.
LEMMA SameNext ==
    ASSUME UNCHANGED <<ready, reset, stage>>,
           \/ reset \/ live' = live
           \/ /\ ready /\ \A i \in Items : i \in Databases => Staged(stage, i) \/ live'[i] = live[i]
    PROVE  NextStart' = NextStart
<1>1. CASE reset \/ live' = live
  BY <1>1 DEF NextStart, Restored, Complete, Staged
<1>2. CASE ~reset /\ ready /\ \A i \in Items : i \in Databases => Staged(stage, i) \/ live'[i] = live[i]
  <2>1. Restored' = Restored
    BY <1>2 DEF Restored, Staged
  <2>2. Complete' = Complete
    BY DEF Complete, Staged
  <2> QED BY <1>2, <2>1, <2>2 DEF NextStart
<1> QED BY <1>1, <1>2

LEMMA StartStutters ==
    ASSUME StartInv, Progress, [Next]_vars, ~Running, ~Running', ~WipeMarker, ~RemoveMarker
    PROVE  NextStart' = NextStart /\ Pending' = Pending
<1>1. PlacesFit /\ MarkersFit /\ live \in [Items -> Contents]
  BY StartFacts DEF StartInv
<1>2. /\ \A d \in Databases : d \in Items /\ \A j \in DOMAIN FolderOrder : FolderOrder[j] # d
      /\ DatabaseOrder[1] \in Databases /\ DatabaseOrder[2] \in Databases
  BY DatabaseFacts, FolderFacts
<1> DEFINE Goal == NextStart' = NextStart /\ Pending' = Pending
<1>3. ASSUME UNCHANGED <<live, ready, reset, stage>> PROVE Goal
  BY <1>3, SameNext DEF Pending
<1>4. CASE Start \/ CheckReset \/ CheckRestore \/ MakeRollback \/ KeepDatabase \/ DropLog \/ PruneRollbacks
  BY <1>3, <1>4
     DEF Start, CheckReset, CheckRestore, MakeRollback, KeepDatabase, DropLog, PruneRollbacks, disk
<1>5. CASE WipeDatabase \/ WipeFolder \/ WipeRestore
  <2>1. reset /\ reset' = reset
    BY <1>1, <1>5 DEF WipeDatabase, WipeFolder, WipeRestore, MarkersFit
  <2> QED BY <2>1 DEF NextStart, Pending
<1>6. CASE RemoveDatabase \/ PlaceDatabase
  <2>1. ready /\ UNCHANGED <<ready, reset, stage>>
    BY <1>1, <1>6 DEF RemoveDatabase, PlaceDatabase, MarkersFit, Restoring
  <2>2. \A i \in Items : i \in Databases => Staged(stage, i) \/ live'[i] = live[i]
    BY <1>1, <1>6 DEF RemoveDatabase, PlaceDatabase, PlacesFit
  <2> QED BY <2>1, <2>2, SameNext DEF Pending
<1>7. CASE SetFolderAside \/ CopyFolder
  <2>1. ready /\ UNCHANGED <<ready, reset, stage>>
    BY <1>1, <1>7 DEF SetFolderAside, CopyFolder, MarkersFit, Restoring
  <2>2. \A i \in Databases : live'[i] = live[i]
    BY <1>1, <1>2, <1>7 DEF SetFolderAside, CopyFolder, PlacesFit
  <2> QED BY <2>1, <2>2, SameNext DEF Pending
<1>8. CASE DiscardStaged
  BY <1>1, <1>8 DEF DiscardStaged, MarkersFit, NextStart, Pending
<1>9. CASE Crash
  <2>1. UNCHANGED <<ready, reset>>
    BY <1>9 DEF Crash
  <2>2. CASE UNCHANGED <<live, stage>>
    BY <1>3, <2>1, <2>2
  <2>3. CASE at = "copy" /\ stage' = stage /\ live' = [live EXCEPT ![FolderOrder[k]] = Torn]
    <3>1. ready /\ \A i \in Databases : live'[i] = live[i]
      BY <1>1, <1>2, <2>3 DEF MarkersFit, PlacesFit, Restoring
    <3> QED BY <2>1, <2>3, <3>1, SameNext DEF Pending
  <2>4. CASE at = "wipe"
    BY <1>1, <2>1, <2>4 DEF MarkersFit, NextStart, Pending
  <2>5. CASE at = "discard" /\ live' = live
    BY <1>1, <2>1, <2>5 DEF MarkersFit, NextStart, Pending
  <2> QED BY <1>9, <2>2, <2>3, <2>4, <2>5 DEF Crash, Interrupted
<1>10. \A u \in Uploads : ~UploadStep(u)
  BY DEF StartInv, TypeOK, UploadStep, Begin, Clear, Unpack, RemoveStaged, Install, Mark, Fail
<1>11. ~(RequestReset \/ Use \/ Stop \/ Open)
  BY DEF RequestReset, Use, Stop, Open, Goto, Running
<1>12. CASE UNCHANGED vars
  BY <1>3, <1>12 DEF vars, disk
<1> QED
  BY <1>4, <1>5, <1>6, <1>7, <1>8, <1>9, <1>10, <1>11, <1>12 DEF Next, ResetStep, RestoreStep

\* The markers are removed when all is done.
LEMMA MarkerSettles ==
    ASSUME StartInv, Progress, WipeMarker \/ RemoveMarker
    PROVE  ~Running /\ ~Running' /\ Pending /\ ~Pending' /\ NextStart' = NextStart /\ NextStart \in Data
<1>1. /\ live \in [Items -> Contents] /\ Items = Databases \cup Folders
      /\ \A f \in Folders : f \notin Databases /\ \E j \in DOMAIN FolderOrder : FolderOrder[j] = f
      /\ DOMAIN FolderOrder = 1 .. Len(FolderOrder) /\ Len(FolderOrder) \in Nat
  BY StartFacts, FolderFacts DEF Items
<1>2. MarkersFit /\ PlacesFit
  BY DEF StartInv
<1>3. CASE WipeMarker
  <2>1. /\ at = "wipe" /\ k > Len(FolderOrder) /\ NoDatabase /\ reset /\ ~ready
        /\ at' = "check" /\ ~reset' /\ ready' = ready /\ live' = live /\ k \in 1 .. Len(FolderOrder) + 1
    BY <1>2, <1>3 DEF WipeMarker, Goto, MarkersFit, PlacesFit
  <2>2. \A f \in Folders : live[f] = None
    BY <1>1, <2>1 DEF Progress
  <2>3. live = [i \in Items |-> None]
    BY <1>1, <2>1, <2>2 DEF NoDatabase
  <2> QED BY <2>1, <2>3, PromiseFacts DEF NextStart, Pending, Running
<1>4. CASE RemoveMarker
  <2>1. /\ at = "marker" /\ at' = "discard" /\ ready /\ Complete /\ ~reset
        /\ ~ready' /\ reset' = reset /\ live' = live
    BY <1>2, <1>4 DEF RemoveMarker, Goto, MarkersFit, Restoring
  <2>2. \A i \in Items : live[i] = IF i \in Databases /\ ~Staged(stage, i) THEN live[i]
                                   ELSE IF Staged(stage, i) THEN stage[i] ELSE None
    BY <1>1, <2>1 DEF Progress, Placed, Replaced
  <2>3. live = Restored
    BY <1>1, <2>2 DEF Restored
  <2> QED BY <2>1, <2>3, PromiseFacts DEF NextStart, Pending, Running
<1> QED BY <1>3, <1>4

LEMMA NextPromised ==
    ASSUME StartInv, [Next]_vars
    PROVE  NextStart' \in Data \cup {Unstartable}
<1>1. live' \in Data /\ stage' \in Directories /\ Items \subseteq Entries
  BY DataStep, StageStep, DatabaseFacts DEF DataOK, Data
<1>2. PICK now, staged : now = live' /\ staged = stage'
  OBVIOUS
<1>3. \A i \in Items : Staged(staged, i) => staged[i] \in Contents
  BY <1>1, <1>2, StagedFacts, ContentFacts
<1>4. Restored' = [i \in Items |-> IF i \in Databases /\ ~Staged(staged, i) THEN now[i]
                                   ELSE IF Staged(staged, i) THEN staged[i] ELSE None]
  BY <1>2 DEF Restored, Staged
<1>5. Restored' \in Data
  BY <1>1, <1>2, <1>3, <1>4, ContentFacts DEF Data
<1>6. [i \in Items |-> None] \in Data
  BY ContentFacts DEF Data
<1> QED BY <1>1, <1>5, <1>6 DEF NextStart

\* What the running server does.
LEMMA ServerKeepsPromise ==
    ASSUME StartInv, Progress, [Next]_vars, Running, Running'
    PROVE  \/ Abstract!Write
           \/ Abstract!Promise
           \/ UNCHANGED <<Serving, NextStart, Pending, logsLeft>>
<1>1. /\ live \in Data /\ live # Down /\ NextStart \in Data \cup {Unstartable}
      /\ NextStart' \in Data \cup {Unstartable}
  BY PromiseFacts, NextPromised
<1>2. CASE Use
  <2>1. /\ live' = [i \in Items |-> Own] /\ UNCHANGED <<stage, ready, reset>>
    BY <1>2 DEF Use
  <2>2. live' \in Data /\ \A i \in Items : live'[i] = Own
    BY <2>1, ContentFacts DEF Data
  <2>3. Pending' = Pending
    BY <2>1 DEF Pending
  <2>4. \/ ~Pending /\ NextStart' = live'
        \/ Pending /\ NextStart' = NextStart
        \/ /\ Pending /\ NextStart # Unstartable /\ NextStart' \in Data
           /\ \A i \in Items : NextStart'[i] \in {NextStart[i], live'[i]}
    <3>1. CASE reset \/ ~ready
      BY <2>1, <3>1 DEF NextStart, Pending
    <3>2. CASE ~reset /\ ready /\ ~Complete
      BY <2>1, <3>2 DEF NextStart, Pending, Complete, Staged
    <3>3. CASE ~reset /\ ready /\ Complete
      <4>1. Complete'
        BY <2>1, <3>3 DEF Complete, Staged
      <4>2. NextStart = Restored /\ NextStart' = Restored' /\ Pending
        BY <2>1, <3>3, <4>1 DEF NextStart, Pending
      <4>3. \A i \in Items : Restored'[i] \in {Restored[i], live'[i]}
        BY <2>1 DEF Restored, Staged
      <4>4. NextStart \in Data /\ NextStart # Unstartable
        BY <3>3, <4>2, PromiseFacts
      <4>5. NextStart' \in Data
        <5>1. NextStart' # Unstartable
          <6>1. DOMAIN NextStart' = Items
            BY <4>2 DEF Restored
          <6>2. \A i \in Items : NextStart'[i] \in Contents
            BY <2>2, <4>2, <4>3, <4>4 DEF Data
          <6>3. NextStart' \in Data
            BY <4>2, <6>2 DEF Data, Restored
          <6> QED BY <6>3, PromiseFacts
        <5> QED BY <1>1, <5>1
      <4> QED BY <4>2, <4>3, <4>4, <4>5
    <3> QED BY <3>1, <3>2, <3>3
  <2>5. logsLeft' = logsLeft
    BY <1>2 DEF Use, history
  <2> QED BY <1>1, <2>2, <2>3, <2>4, <2>5 DEF Abstract!Write, Abstract!Data, Data, Pending
<1>3. ASSUME UNCHANGED <<live, logsLeft>>, Pending' PROVE Abstract!Promise
  BY <1>1, <1>3 DEF Abstract!Promise, Abstract!Data, Data, Pending
<1>4. ASSUME UNCHANGED <<live, ready, reset, stage, logsLeft>>
      PROVE  UNCHANGED <<Serving, NextStart, Pending, logsLeft>>
  BY <1>4, SameNext DEF Serving, Pending
<1>5. CASE RequestReset
  BY <1>3, <1>5 DEF RequestReset, Pending, history
<1>6. ASSUME NEW u \in Uploads, UploadStep(u) PROVE \/ Abstract!Promise
                                                   \/ UNCHANGED <<Serving, NextStart, Pending, logsLeft>>
  <2>1. live' = live /\ reset' = reset /\ ready' \in {ready, TRUE} /\ logsLeft' = logsLeft
    BY <1>6 DEF UploadStep, Begin, Clear, Unpack, RemoveStaged, Install, Mark, Fail, disk, history
  <2>2. CASE Pending'
    BY <1>3, <2>1, <2>2
  <2>3. CASE ~Pending'
    <3>1. ready' # TRUE /\ ~reset'
      BY <2>3 DEF Pending
    <3>2. ready' = ready
      BY <2>1, <3>1
    <3> QED BY <1>4, <2>1, <2>3, <3>1, <3>2 DEF NextStart, Serving, Pending
  <2> QED BY <2>2, <2>3
<1>7. CASE UNCHANGED vars
  BY <1>4, <1>7 DEF vars, disk, history
<1>8. ~(Stop \/ Crash \/ Start \/ ResetStep \/ RestoreStep)
  BY DEF Stop, Crash, Start, ResetStep, CheckReset, WipeDatabase, WipeFolder, WipeRestore, WipeMarker,
         RestoreStep, CheckRestore, MakeRollback, KeepDatabase, RemoveDatabase, PlaceDatabase, DropLog,
         SetFolderAside, CopyFolder, RemoveMarker, DiscardStaged, PruneRollbacks, Open, Running
<1> QED BY <1>2, <1>5, <1>6, <1>7, <1>8 DEF Next

LEMMA StepKeepsPromise ==
    ASSUME StartInv, Progress, OpensNoForeignLog, [Next]_vars
    PROVE  Abstract!Next \/ UNCHANGED <<Serving, NextStart, Pending, logsLeft>>
<1>1. CASE Running /\ Running'
  BY <1>1, ServerKeepsPromise DEF Abstract!Next
<1>2. CASE Running /\ ~Running'
  <2>1. Stop
    BY <1>2
       DEF Next, UploadStep, Begin, Clear, Unpack, RemoveStaged, Install, Mark, Fail, RequestReset, Use,
           Crash, Start, ResetStep, CheckReset, WipeDatabase, WipeFolder, WipeRestore, WipeMarker,
           RestoreStep, CheckRestore, MakeRollback, KeepDatabase, RemoveDatabase, PlaceDatabase, DropLog,
           SetFolderAside, CopyFolder, RemoveMarker, DiscardStaged, PruneRollbacks, Open, vars, Running
  <2>2. UNCHANGED <<live, ready, reset, stage, logsLeft>>
    BY <2>1 DEF Stop
  <2>3. NextStart' = NextStart /\ Pending' = Pending /\ live # Down
    BY <2>2, SameNext, PromiseFacts DEF Pending
  <2> QED BY <1>2, <2>2, <2>3 DEF Abstract!Next, Abstract!Stop, Pending
<1>3. CASE ~Running /\ Running'
  <2>1. Open
    <3>1. \A u \in Uploads : ~UploadStep(u)
      BY <1>3 DEF StartInv, TypeOK, UploadStep, Begin, Clear, Unpack, RemoveStaged, Install, Mark, Fail
    <3> QED
      BY <1>3, <3>1
         DEF Next, RequestReset, Use, Stop, Crash, Start, ResetStep, CheckReset, WipeDatabase, WipeFolder,
             WipeRestore, WipeMarker, RestoreStep, CheckRestore, MakeRollback, KeepDatabase,
             RemoveDatabase, PlaceDatabase, DropLog, SetFolderAside, AfterDatabase, AfterFolder, CopyFolder,
             RemoveMarker, DiscardStaged, PruneRollbacks, vars, Running, Goto
  <2>2. ~ready /\ ~reset /\ UNCHANGED <<ready, reset>> /\ logsLeft' = {} /\ at = "open"
    BY <2>1 DEF Open, StartInv, MarkersFit
  <2>3. NextStart = live /\ NextStart' = live'
    BY <2>2 DEF NextStart
  <2>4. live' \in Data
    BY DataStep DEF DataOK, Data
  <2>5. \A i \in Items \ logsLeft : live'[i] = live[i]
    <3>1. PICK spoilt \in SUBSET {d \in Databases : wal[d] \notin {None, live[d]}} :
              live' = [i \in Items |-> IF i \in spoilt THEN Torn ELSE live[i]]
      BY <2>1 DEF Open
    <3>2. spoilt \subseteq logsLeft
      BY <2>2 DEF OpensNoForeignLog
    <3> QED BY <3>1, <3>2
  <2> QED BY <1>3, <2>2, <2>3, <2>4, <2>5 DEF Abstract!Next, Abstract!Open, Abstract!Data, Data
<1>4. CASE ~Running /\ ~Running' /\ (WipeMarker \/ RemoveMarker)
  <2>1. Pending /\ ~Pending' /\ NextStart' = NextStart /\ NextStart # Unstartable
    BY <1>4, MarkerSettles, PromiseFacts
  <2>2. logsLeft' = logsLeft
    BY <1>4 DEF WipeMarker, RemoveMarker
  <2> QED BY <1>4, <2>1, <2>2 DEF Abstract!Next, Abstract!Settle, Pending
<1>5. CASE ~Running /\ ~Running' /\ ~(WipeMarker \/ RemoveMarker)
  <2>1. NextStart' = NextStart /\ Pending' = Pending
    BY <1>5, StartStutters
  <2>2. CASE logsLeft' = logsLeft
    BY <1>5, <2>1, <2>2 DEF Serving
  <2>3. CASE logsLeft' # logsLeft
    <3>1. DropLog
      BY <1>5, <2>3, LogsLeftChanges DEF Open, Goto, Running
    <3>2. Pending /\ logsLeft' \in SUBSET Items
      BY <3>1, StartFacts, DatabaseFacts
         DEF DropLog, StartInv, TypeOK, MarkersFit, Restoring, Pending
    <3> QED BY <1>5, <2>1, <3>2 DEF Abstract!Next, Abstract!Except, Pending
  <2> QED BY <2>2, <2>3
<1> QED BY <1>1, <1>2, <1>3, <1>4, <1>5

LEMMA ProgressInvariant == Spec => [](StartInv /\ Progress)
<1>1. Init => Progress
  BY DEF Init, Progress
<1>2. StartInv /\ Progress /\ [Next]_vars => Progress'
  BY ProgressStep
<1> QED BY <1>1, <1>2, StartInvariant, PTL DEF Spec

(* However often a start dies on the way, and wherever it does, it does    *)
(* not change what a later start will open, and the first one that comes   *)
(* through opens exactly that, but for a database whose old log could not  *)
(* be removed (apply_staged_restore, apply_reset_at): RestartKeepsPromise.                                                   *)
THEOREM PromiseKept == Spec => RestartKeepsPromise
<1>1. Init => Abstract!Init
  <2> SUFFICES ASSUME Init PROVE Abstract!Init
    OBVIOUS
  <2>1. live \in Data /\ ~ready /\ ~reset /\ Running
    BY ContentFacts DEF Init, Data, Running
  <2>2. NextStart = live
    BY <2>1 DEF NextStart
  <2>3. logsLeft = {}
    BY DEF Init
  <2> QED BY <2>1, <2>2, <2>3 DEF Abstract!Init, Abstract!Data, Data
<1>2. StartInv /\ Progress /\ OpensNoForeignLog /\ [Next]_vars => [Abstract!Next]_(Abstract!promise)
  BY StepKeepsPromise DEF Abstract!promise, Serving, Pending
<1> QED BY <1>1, <1>2, ProgressInvariant, NoForeignLog, PTL DEF Spec, RestartKeepsPromise, Abstract!Spec
-----------------------------------------------------------------------------
(* What waits to be restored.                                              *)
LEMMA PartFacts ==
    ASSUME NEW a \in Archives
    PROVE  /\ Part(a, 1) = EmptyDirectory
           /\ \A n \in DOMAIN EntryOrder : LET e == EntryOrder[n] IN
                Part(a, n + 1) = [Part(a, n) EXCEPT ![e] = IF e \in Holds(a) THEN a ELSE Part(a, n)[e]]
           /\ Part(a, Len(EntryOrder) + 1) = Whole(a)
<1>1. DOMAIN EntryOrder = 1 .. Len(EntryOrder) /\ Len(EntryOrder) \in Nat
  BY EntryFacts, FolderFacts
<1>2. Part(a, 1) = EmptyDirectory
  BY <1>1 DEF Part, EmptyDirectory
<1>3. Part(a, Len(EntryOrder) + 1) = Whole(a)
  <2>1. \A e \in Entries : \E j \in DOMAIN EntryOrder : j < Len(EntryOrder) + 1 /\ EntryOrder[j] = e
    BY <1>1, EntryFacts
  <2>2. Part(a, Len(EntryOrder) + 1) = [e \in Entries |-> Whole(a)[e]]
    BY <2>1 DEF Part
  <2> QED BY <2>2 DEF Whole
<1>4. ASSUME NEW n \in DOMAIN EntryOrder, NEW e, e = EntryOrder[n]
      PROVE  Part(a, n + 1) = [Part(a, n) EXCEPT ![e] = IF e \in Holds(a) THEN a ELSE Part(a, n)[e]]
  <2>1. \A f \in Entries : f # e =>
            ((\E j \in DOMAIN EntryOrder : j < n + 1 /\ EntryOrder[j] = f)
                <=> (\E j \in DOMAIN EntryOrder : j < n /\ EntryOrder[j] = f))
    BY <1>1, <1>4
  <2>2. \A f \in Entries : f # e => Part(a, n + 1)[f] = Part(a, n)[f]
    BY <2>1 DEF Part
  <2>3. \E j \in DOMAIN EntryOrder : j < n + 1 /\ EntryOrder[j] = e
    BY <1>1, <1>4
  <2>4. e \in Entries
    BY <1>4, EntryFacts
  <2>5. Part(a, n + 1)[e] = IF e \in Holds(a) THEN a ELSE Part(a, n)[e]
    BY <2>3, <2>4 DEF Part, Whole
  <2>6. DOMAIN Part(a, n + 1) = Entries /\ DOMAIN Part(a, n) = Entries
        /\ Part(a, n + 1) = [f \in Entries |-> Part(a, n + 1)[f]]
    BY DEF Part
  <2> QED BY <2>2, <2>4, <2>5, <2>6
<1> QED BY <1>2, <1>3, <1>4

\* An undisturbed upload has the directories to itself.
LEMMA UploadUndisturbed ==
    ASSUME StartInv, StagingInv, ~disturbed, ~disturbed', NEW u \in Uploads, UploadStep(u)
    PROVE  StagingInv'
<1>1. Undisturbed /\ PendingIsWhole
  BY DEF StagingInv
<1>2. \A v \in Uploads : v # u => upload[v].at = "idle"
  <2>1. CASE Begin(u)
    BY <2>1 DEF Begin, Staging
  <2>2. CASE ~Begin(u)
    <3>1. u \in Staging
      BY <2>2 DEF UploadStep, Clear, Unpack, RemoveStaged, Install, Mark, Fail, Staging
    <3> QED BY <1>1, <3>1 DEF Undisturbed, Staging
  <2> QED BY <2>1, <2>2
\* It is enough to look at u.
<1> DEFINE Left ==
      /\ upload[u].at = "unpack" => incoming = Part(upload[u].archive, upload[u].n)
      /\ upload[u].at \in {"replace", "install"} => \E a \in Archives : incoming = Whole(a)
      /\ upload[u].at = "mark" => \E a \in Archives : stage = Whole(a)
    Promised ==
      ready /\ ~reset /\ upload[u].at \notin Replacing => \E a \in Archives : stage = Whole(a)
<1>3. Left /\ Promised
  BY <1>1, <1>2 DEF Undisturbed, PendingIsWhole, Replacing
<1>4. ASSUME NEW step \in UploadSteps, NEW a, NEW n, UploadBecomes(u, step, a, n),
             step = "unpack" => incoming' = Part(a, n),
             step \in {"replace", "install"} => \E b \in Archives : incoming' = Whole(b),
             step = "mark" => \E b \in Archives : stage' = Whole(b),
             ready' /\ ~reset' /\ step \notin Replacing => \E b \in Archives : stage' = Whole(b)
      PROVE  StagingInv'
  <2>1. /\ \A v \in Uploads : v # u => upload'[v].at = "idle"
        /\ upload'[u].at = step /\ upload'[u].archive = a /\ upload'[u].n = n
    BY <1>2, <1>4 DEF UploadBecomes
  <2>2. Undisturbed'
    BY <1>4, <2>1 DEF Undisturbed, Staging
  <2>3. PendingIsWhole'
    BY <1>4, <2>1 DEF PendingIsWhole
  <2> QED BY <2>2, <2>3 DEF StagingInv
<1>5. ASSUME Begin(u), NEW a \in Archives, UploadBecomes(u, "clear", a, 1) PROVE StagingInv'
  <2>2. upload[u].at = "idle" /\ UNCHANGED <<ready, reset, stage>>
    BY <1>5 DEF Begin, disk
  <2> QED BY <1>3, <1>4, <1>5, <2>2 DEF UploadSteps, Replacing
<1>6. CASE Clear(u) /\ UploadBecomes(u, "unpack", upload[u].archive, 1)
  <2>2. upload[u].at = "clear" /\ UNCHANGED <<ready, reset, stage>> /\ incoming' = EmptyDirectory
    BY <1>6 DEF Clear
  <2>3. upload[u].archive \in Archives
    BY <2>2, UploadFacts
  <2>4. incoming' = Part(upload[u].archive, 1)
    BY <2>2, <2>3, PartFacts
  <2> QED BY <1>3, <1>4, <1>6, <2>2, <2>4 DEF UploadSteps, Replacing
<1>7. CASE /\ Unpack(u)
           /\ \/ upload[u].n < Len(EntryOrder) /\ UploadBecomes(u, "unpack", upload[u].archive, upload[u].n + 1)
              \/ upload[u].n = Len(EntryOrder) /\ UploadBecomes(u, "replace", None, 1)
  <2>1. PICK a, n, e : a = upload[u].archive /\ n = upload[u].n /\ e = EntryOrder[n]
    OBVIOUS
  <2>2. upload[u].at = "unpack" /\ UNCHANGED <<ready, reset, stage>> /\ incoming = Part(a, n)
    BY <1>3, <1>7, <2>1 DEF Unpack
  <2>3. a \in Archives /\ n \in DOMAIN EntryOrder
    BY <2>1, <2>2, UploadFacts, EntryFacts
  <2>4. incoming' = [incoming EXCEPT ![e] = IF e \in Holds(a) THEN a ELSE incoming[e]]
    BY <1>7, <2>1 DEF Unpack
  <2>5. incoming' = Part(a, n + 1)
    BY <2>1, <2>2, <2>3, <2>4, PartFacts
  <2>6. CASE upload[u].n < Len(EntryOrder) /\ UploadBecomes(u, "unpack", upload[u].archive, upload[u].n + 1)
    BY <1>3, <1>4, <2>1, <2>2, <2>5, <2>6 DEF UploadSteps, Replacing
  <2>7. CASE upload[u].n = Len(EntryOrder) /\ UploadBecomes(u, "replace", None, 1)
    <3>1. incoming' = Whole(a)
      BY <2>1, <2>3, <2>5, <2>7, PartFacts
    <3> QED BY <1>4, <2>3, <2>7, <3>1 DEF UploadSteps, Replacing
  <2> QED BY <1>7, <2>6, <2>7
<1>8. CASE RemoveStaged(u) /\ (UNCHANGED upload \/ UploadBecomes(u, "install", None, 1))
  <2>1. upload[u].at = "replace" /\ UNCHANGED incoming
    BY <1>8 DEF RemoveStaged
  <2>2. CASE UploadBecomes(u, "install", None, 1)
    BY <1>3, <1>4, <2>1, <2>2 DEF UploadSteps, Replacing
  <2>3. CASE UNCHANGED upload
    <3>1. Undisturbed'
      BY <1>1, <1>2, <1>3, <2>1, <2>3 DEF Undisturbed, Staging
    <3>2. PendingIsWhole'
      BY <2>1, <2>3 DEF PendingIsWhole, Replacing
    <3> QED BY <3>1, <3>2 DEF StagingInv
  <2> QED BY <1>8, <2>2, <2>3
<1>9. CASE Install(u) /\ UploadBecomes(u, "mark", None, 1)
  <2>2. upload[u].at = "install" /\ stage' = incoming
    BY <1>9 DEF Install
  <2> QED BY <1>3, <1>4, <1>9, <2>2 DEF UploadSteps, Replacing
<1>10. CASE Mark(u) /\ UploadBecomes(u, "idle", None, 1)
  <2>2. upload[u].at = "mark" /\ UNCHANGED stage
    BY <1>10 DEF Mark
  <2> QED BY <1>3, <1>4, <1>10, <2>2 DEF UploadSteps, Replacing
<1>11. CASE Fail(u) /\ UploadBecomes(u, "idle", None, 1)
  <2>2. UNCHANGED <<ready, reset, stage>> /\ ~(ready /\ upload[u].at \in Replacing)
    BY <1>11 DEF Fail, disk
  <2> QED BY <1>3, <1>4, <1>11, <2>2 DEF UploadSteps, Replacing
<1> QED BY <1>5, <1>6, <1>7, <1>8, <1>9, <1>10, <1>11, UploadDoes

LEMMA StagingStep ==
    ASSUME StartInv, StagingInv, [Next]_vars
    PROVE  StagingInv'
<1>1. ~Running => \A u \in Uploads : upload[u].at = "idle"
  BY DEF StartInv, TypeOK
<1>2. CASE disturbed'
  BY <1>2 DEF StagingInv, PendingIsWhole
<1>3. CASE Open
  <2>1. \A u \in Uploads : upload'[u].at = "idle"
    BY <1>1, <1>3 DEF Open, Running
  <2>2. ~ready'
    BY <1>3 DEF Open, StartInv, MarkersFit
  <2> QED BY <2>1, <2>2 DEF StagingInv, Undisturbed, PendingIsWhole, Staging
<1>4. ASSUME ~disturbed, ~disturbed', NEW u \in Uploads, UploadStep(u) PROVE StagingInv'
  BY <1>4, UploadUndisturbed
<1>5. CASE ~disturbed /\ ~disturbed' /\ Stop
  <2>1. \A u \in Uploads : upload'[u].at = "idle"
    BY <1>5 DEF Stop, Idle
  <2>2. UNCHANGED <<ready, reset, stage>> /\ ~(ready /\ \E u \in Staging : upload[u].at \in Replacing)
    BY <1>5 DEF Stop
  <2>3. ready => \A u \in Uploads : upload[u].at \notin Replacing
    BY <2>2 DEF Staging, Replacing
  <2>4. PendingIsWhole'
    BY <1>5, <2>2, <2>3 DEF StagingInv, PendingIsWhole
  <2> QED BY <2>1, <2>4 DEF StagingInv, Undisturbed, Staging
<1>6. CASE ~disturbed /\ ~disturbed' /\ ~Open /\ ~Stop /\ \A u \in Uploads : ~UploadStep(u)
  <2>1. UNCHANGED upload
    BY <1>6, UploadChanges
  <2>2. UNCHANGED <<incoming, stage>> \/ ~Running
    BY <1>6, IncomingChanges, StageChanges
       DEF UploadStep, Crash, WipeRestore, DiscardStaged, Running
  <2>3. Undisturbed'
    <3>1. CASE UNCHANGED <<incoming, stage>>
      BY <1>6, <2>1, <3>1 DEF StagingInv, Undisturbed, Staging
    <3>2. CASE ~Running
      BY <1>1, <2>1, <3>2 DEF Undisturbed, Staging
    <3> QED BY <2>2, <3>1, <3>2
  <2>4. ready' /\ ~reset' => ready /\ ~reset
    BY <1>6
       DEF Next, vars, disk, RequestReset, Use, Crash, Start, ResetStep, CheckReset, WipeDatabase,
           WipeFolder, WipeRestore, WipeMarker, RestoreStep, CheckRestore, MakeRollback, KeepDatabase,
           RemoveDatabase, PlaceDatabase, DropLog, SetFolderAside, CopyFolder, RemoveMarker,
           DiscardStaged, PruneRollbacks, Started
  <2>5. ready' /\ ~reset' => UNCHANGED stage
    BY <1>6, <2>4, StageChanges
       DEF UploadStep, Crash, Interrupted, WipeRestore, DiscardStaged, StartInv, MarkersFit
  <2>6. PendingIsWhole'
    BY <1>6, <2>1, <2>4, <2>5 DEF StagingInv, PendingIsWhole
  <2> QED BY <2>3, <2>6 DEF StagingInv
<1>7. disturbed' \/ ~disturbed \/ Open
  BY DEF Next, UploadStep, Begin, Clear, Unpack, RemoveStaged, Install, Mark, Fail, RequestReset, Use,
         Stop, Crash, Start, ResetStep, CheckReset, WipeDatabase, WipeFolder, WipeRestore, WipeMarker,
         RestoreStep, CheckRestore, MakeRollback, KeepDatabase, RemoveDatabase, PlaceDatabase, DropLog,
         SetFolderAside, CopyFolder, RemoveMarker, DiscardStaged, PruneRollbacks, vars, history, Started
<1> QED BY <1>2, <1>3, <1>4, <1>5, <1>6, <1>7

(* An archive that waits to be restored is a whole one, however uploads    *)
(* were cut off before, so long as nothing disturbed its staging           *)
(* (validate_and_stage_restore): PendingIsWhole.                           *)
THEOREM PendingWhole == Spec => []PendingIsWhole
<1>1. Init => StagingInv
  BY DEF Init, Idle, StagingInv, Undisturbed, PendingIsWhole, Staging
<1>2. StartInv /\ StagingInv /\ [Next]_vars => StagingInv'
  BY StagingStep
<1>3. StagingInv => PendingIsWhole
  BY DEF StagingInv
<1> QED BY <1>1, <1>2, <1>3, StartInvariant, PTL DEF Spec
-----------------------------------------------------------------------------
(* What a restore replaces.                                                *)
LEMMA ClosedStep ==
    ASSUME StartInv, KeptInv, [Next]_vars
    PROVE  LogsClosed' /\ Tried'
<1>1. LogsClosed /\ Tried
  BY DEF KeptInv
<1>2. Tried'
  <2>1. ASSUME NEW u \in Uploads, UploadStep(u) PROVE Tried'
    BY <1>1, <2>1
       DEF Tried, Restoring, UploadStep, Begin, Clear, Unpack, RemoveStaged, Install, Mark, Fail, history
  <2>2. CASE RequestReset \/ Use \/ Stop \/ Crash \/ Start
    BY <1>1, <2>2 DEF Tried, Restoring, RequestReset, Use, Stop, Crash, Start, history
  <2>3. CASE ResetStep
    BY <2>3 DEF Tried, Restoring, ResetStep, CheckReset, WipeDatabase, WipeFolder, WipeRestore, WipeMarker, Goto
  <2>4. CASE CheckRestore \/ MakeRollback
    BY <2>4, StartFacts DEF Tried, Restoring, CheckRestore, MakeRollback, Goto
  <2>5. CASE KeepDatabase \/ RemoveDatabase \/ PlaceDatabase \/ DropLog
    BY <1>1, <2>5 DEF Tried, Restoring, KeepDatabase, RemoveDatabase, PlaceDatabase, DropLog, AfterDatabase, Goto
  <2>6. CASE SetFolderAside \/ CopyFolder \/ RemoveMarker
    BY <1>1, <2>6 DEF Tried, Restoring, SetFolderAside, CopyFolder, RemoveMarker, AfterFolder, Goto
  <2>7. CASE DiscardStaged \/ PruneRollbacks \/ Open
    BY <1>1, <2>7 DEF Tried, Restoring, DiscardStaged, PruneRollbacks, Open, Goto
  <2>8. CASE UNCHANGED vars
    BY <1>1, <2>8 DEF Tried, vars, history
  <2> QED BY <2>1, <2>2, <2>3, <2>4, <2>5, <2>6, <2>7, <2>8 DEF Next, RestoreStep
<1>3. CASE Stop
  BY <1>2, <1>3 DEF Stop, LogsClosed
<1>4. CASE Running'
  BY <1>2, <1>4 DEF LogsClosed
<1>5. CASE ~Running' /\ ~Stop
  <2>1. ~Running /\ clean' = clean
    BY <1>5
       DEF Next, UploadStep, Begin, Clear, Unpack, RemoveStaged, Install, Mark, Fail, RequestReset, Use,
           Crash, Start, ResetStep, CheckReset, WipeDatabase, WipeFolder, WipeRestore, WipeMarker,
           RestoreStep, CheckRestore, MakeRollback, KeepDatabase, RemoveDatabase, PlaceDatabase, DropLog,
           SetFolderAside, CopyFolder, RemoveMarker, DiscardStaged, PruneRollbacks, Open, vars, history,
           Running, Started
  <2>2. \A d \in Databases : wal'[d] \in {wal[d], None}
    BY <1>5, <2>1, LogChanges, StartFacts DEF Use, WipeDatabase, DropLog, Open, Running, Goto
  <2> QED BY <1>1, <1>2, <2>1, <2>2 DEF LogsClosed
<1> QED BY <1>2, <1>3, <1>4, <1>5

\* Nothing that is still to be passed is touched.
LEMMA KeptAsItIs ==
    ASSUME StillKept, ~Running, UNCHANGED <<rollbacks, tries, base, clean, reset>>, ready' => ready,
           Passed' \subseteq Passed, \A i \in Items \ Passed : live'[i] = live[i]
    PROVE  StillKept'
<1>1. Saved' = Saved /\ Counting' = Counting
  BY DEF Saved, Counting
<1>2. Untouched \subseteq Untouched' \cup Passed
  BY DEF Untouched
<1>3. ~reset' /\ (ready' \/ tries' > 0) /\ tries' <= Kept => ~reset /\ (ready \/ tries > 0) /\ tries <= Kept
  OBVIOUS
<1> QED BY <1>1, <1>2, <1>3 DEF StillKept

\* The newest rollback folder gets what item i is, or what is left of it.
LEMMA KeptInFolder ==
    ASSUME StartInv, KeptInv, at \in Restoring, ~Running,
           UNCHANGED <<tries, base, clean, reset, ready>>,
           NEW i \in Items, NEW x \in Contents, Fills(i, x), i \notin Passed,
           rollbacks[Len(rollbacks)][i] = None,
           \A j \in Items : j # i => live'[j] = live[j],
           Passed' \subseteq Passed \cup {i},
           \/ live'[i] = live[i] /\ Passed' \subseteq Passed
           \/ i \in Counting => x = live[i]
    PROVE  StillKept'
<1>1. rollbacks \in Seq(Folder) /\ Len(rollbacks) \in Nat /\ DOMAIN rollbacks = 1 .. Len(rollbacks)
  BY RollbackFacts
<1>2. tries \in Nat /\ tries > 0
  BY StartFacts DEF KeptInv, Tried
<1>3. Counting' = Counting
  BY DEF Counting
<1>4. Saved \cap Counting \subseteq Saved'
  <2> SUFFICES ASSUME NEW j \in Saved, j \in Counting PROVE j \in Saved'
    OBVIOUS
  <2>1. PICK n \in DOMAIN rollbacks : n + tries > Len(rollbacks) /\ rollbacks[n][j] = base[j]
    BY DEF Saved
  <2>2. j \in Items /\ base[j] # None
    BY DEF Saved, Counting
  <2>3. rollbacks'[n][j] = rollbacks[n][j]
    <3>1. CASE n # Len(rollbacks)
      BY <3>1 DEF Fills
    <3>2. CASE n = Len(rollbacks)
      <4>1. j # i
        BY <2>1, <2>2, <3>2
      <4> QED BY <2>2, <3>2, <4>1 DEF Fills
    <3> QED BY <3>1, <3>2
  <2>4. n \in DOMAIN rollbacks' /\ n + tries' > Len(rollbacks')
    BY <2>1 DEF Fills
  <2> QED BY <2>1, <2>2, <2>3, <2>4 DEF Saved
<1>5. x = base[i] => i \in Saved'
  <2> SUFFICES ASSUME x = base[i] PROVE i \in Saved'
    OBVIOUS
  <2>1. PICK n : n = Len(rollbacks)
    OBVIOUS
  <2>2. n \in DOMAIN rollbacks' /\ n + tries' > Len(rollbacks') /\ rollbacks'[n][i] = base'[i]
    BY <1>1, <1>2, <2>1 DEF Fills
  <2> QED BY <2>2 DEF Saved
<1>6. CASE ~reset /\ (ready \/ tries > 0) /\ tries <= Kept
  <2>1. Counting \cap Passed \subseteq Saved /\ Counting \subseteq Untouched \cup Saved
    BY <1>6 DEF KeptInv, StillKept
  <2>2. \A j \in Items : j # i /\ j \in Untouched => j \in Untouched'
    BY DEF Untouched
  <2>3. i \in Counting => i \in Saved' \/ (i \in Untouched' /\ Passed' \subseteq Passed)
    <3>1. CASE i \in Saved
      BY <1>4, <3>1
    <3>2. CASE i \in Counting /\ live[i] = base[i]
      BY <1>5, <3>2 DEF Untouched
    <3> QED BY <2>1, <3>1, <3>2 DEF Untouched
  <2>4. Counting \subseteq Items
    BY DEF Counting
  <2>5. Counting' \cap Passed' \subseteq Saved'
    BY <1>3, <1>4, <2>1, <2>3
  <2>6. Counting' \subseteq Untouched' \cup Saved'
    BY <1>3, <1>4, <2>1, <2>2, <2>3, <2>4
  <2> QED BY <2>5, <2>6 DEF StillKept
<1> QED BY <1>6 DEF StillKept

\* A database is copied into the newest rollback folder.
LEMMA KeepDatabaseKeeps ==
    ASSUME StartInv, KeptInv, KeepDatabase
    PROVE  FilledSoFar' /\ StillKept'
<1>1. PICK d, x : d = DatabaseOrder[k] /\ x = (IF live[d] # None /\ wal[d] = live[d] THEN Behind ELSE live[d])
  OBVIOUS
<1>2. /\ at = "keep" /\ k \in {1, 2} /\ d \in Databases /\ d \in Items /\ x \in Contents
      /\ (k = 1 => d = "music") /\ (k = 2 => d = "core")
  BY <1>1, StartFacts, DatabaseFacts, ContentFacts DEF KeepDatabase
<1>3. Fills(d, x)
  BY <1>1, KeepFills
<1>4. /\ ready /\ ~reset /\ UNCHANGED <<live, wal, ready, reset, tries, base, clean>>
      /\ IF k < 2 THEN at' = "keep" /\ k' = k + 1 ELSE at' = "remove" /\ k' = 1
  BY <1>2 DEF KeepDatabase, Goto, Started, StartInv, MarkersFit, Restoring
<1>5. Passed = (IF k = 2 THEN {"music"} ELSE {}) /\ Passed' = (IF k = 2 THEN Databases ELSE {"music"})
  BY <1>2, <1>4, DatabaseFacts DEF Passed
<1>6. /\ d \notin Passed /\ Passed' = Passed \cup {d}
      /\ \A i \in Items \ Passed : rollbacks[Len(rollbacks)][i] = None
  BY <1>2, <1>5, DatabaseFacts DEF KeptInv, FilledSoFar
<1>7. FilledSoFar'
  <2>1. \A i \in Items \ Passed' : rollbacks'[Len(rollbacks')][i] = None
    BY <1>3, <1>6 DEF Fills
  <2>2. Folders \subseteq Items
    BY DEF Items
  <2> QED BY <1>4, <2>1, <2>2 DEF FilledSoFar
<1>8. d \in Counting => x = live[d]
  <2>1. clean => wal[d] = None
    BY <1>2 DEF KeptInv, LogsClosed, Running
  <2> QED BY <1>1, <1>2, <2>1 DEF Counting
<1>9. StillKept'
  BY <1>2, <1>3, <1>4, <1>6, <1>8, KeptInFolder DEF Restoring, Running
<1> QED BY <1>7, <1>9

\* A folder is moved into it.
LEMMA SetAsideKeeps ==
    ASSUME StartInv, KeptInv, SetFolderAside
    PROVE  FilledSoFar' /\ StillKept'
<1>1. PICK f, x : f = FolderOrder[k] /\ x = live[f]
  OBVIOUS
<1>2. /\ at = "aside" /\ k \in DOMAIN FolderOrder /\ f \in Folders /\ f \in Items /\ x \in Contents
      /\ f \notin Databases
  BY <1>1, StartFacts, FolderFacts DEF SetFolderAside
<1>3. Fills(f, x)
  BY <1>1, AsideFills
<1>4. /\ ready /\ ~reset /\ UNCHANGED <<ready, reset, tries, base, clean>>
      /\ live' = [live EXCEPT ![f] = None]
      /\ (at' = "copy" /\ k' = k) \/ AfterFolder
  BY <1>1, <1>2 DEF SetFolderAside, Goto, Started, StartInv, MarkersFit, Restoring
<1>5. Passed = {i \in Items : i \in Databases \/ \E j \in DOMAIN FolderOrder : j < k /\ FolderOrder[j] = i}
  BY <1>2, <1>4 DEF Passed
<1>6. f \notin Passed
  BY <1>1, <1>2, <1>5, FolderFacts
<1>7. Passed' = Passed \cup {f}
  <2>1. DOMAIN FolderOrder = 1 .. Len(FolderOrder) /\ Len(FolderOrder) \in Nat
    BY FolderFacts
  <2>2. CASE at' = "copy" /\ k' = k
    BY <1>1, <1>2, <1>4, <1>5, <2>2 DEF Passed
  <2>3. CASE AfterFolder /\ k < Len(FolderOrder)
    <3>1. at' = "aside" /\ k' = k + 1
      BY <2>3 DEF AfterFolder, Goto
    <3>2. \A j \in DOMAIN FolderOrder : j < k + 1 <=> j < k \/ j = k
      BY <1>2, <2>1
    <3>3. Passed' = {i \in Items : i \in Databases \/ \E j \in DOMAIN FolderOrder : j < k + 1 /\ FolderOrder[j] = i}
      BY <1>4, <3>1 DEF Passed
    <3> QED BY <1>1, <1>2, <1>5, <3>2, <3>3
  <2>4. CASE AfterFolder /\ ~(k < Len(FolderOrder))
    <3>1. at' = "marker" /\ k = Len(FolderOrder)
      BY <1>2, <2>1, <2>4 DEF AfterFolder, Goto
    <3>2. \A j \in DOMAIN FolderOrder : j < k \/ j = k
      BY <2>1, <3>1
    <3>3. Passed' = Items
      BY <3>1 DEF Passed
    <3>4. Items \subseteq Passed \cup {f}
      BY <1>1, <1>5, <3>2, FolderFacts DEF Items
    <3> QED BY <1>2, <1>5, <3>3, <3>4
  <2> QED BY <1>4, <2>2, <2>3, <2>4
<1>8. \A i \in Folders \ Passed : rollbacks[Len(rollbacks)][i] = None
  BY <1>2 DEF KeptInv, FilledSoFar
<1>9. FilledSoFar'
  <2>1. at' # "keep"
    BY <1>4 DEF AfterFolder, Goto
  <2>2. Folders \subseteq Items
    BY DEF Items
  <2>3. \A i \in Folders \ Passed' : rollbacks'[Len(rollbacks')][i] = None
    BY <1>3, <1>7, <1>8, <2>2 DEF Fills
  <2> QED BY <2>1, <2>3 DEF FilledSoFar
<1>10. StillKept'
  <2>1. \A i \in Items : i # f => live'[i] = live[i]
    BY <1>4, StartFacts
  <2>2. rollbacks[Len(rollbacks)][f] = None
    BY <1>2, <1>6, <1>8
  <2> QED BY <1>1, <1>2, <1>3, <1>4, <1>6, <1>7, <2>1, <2>2, KeptInFolder DEF Restoring, Running
<1> QED BY <1>9, <1>10

\* A start that ends early leaves what it had done.
LEMMA CrashKeeps ==
    ASSUME StartInv, KeptInv, Crash
    PROVE  FilledSoFar' /\ StillKept'
<1>1. /\ ~Running /\ at' = "down" /\ k' = 1 /\ UNCHANGED <<ready, reset, tries, base, clean>>
      /\ FilledSoFar'
  BY DEF Crash, Running, history, FilledSoFar
<1>2. Passed' \subseteq Passed
  BY <1>1 DEF Passed
<1>3. CASE rollbacks' # rollbacks
  <2>1. PICK d : d = DatabaseOrder[k]
    OBVIOUS
  <2>2. at = "keep" /\ Fills(d, Torn) /\ k \in {1, 2} /\ d \in Items /\ ready
        /\ (k = 1 => d = "music") /\ (k = 2 => d = "core")
    BY <1>3, <2>1, CrashFills, StartFacts, DatabaseFacts DEF StartInv, MarkersFit, Restoring
  <2>3. d \notin Passed
    BY <2>2 DEF Passed
  <2>4. rollbacks[Len(rollbacks)][d] = None
    BY <2>2, <2>3 DEF KeptInv, FilledSoFar
  <2>5. live' = live
    BY <1>3 DEF Crash, Interrupted
  <2> QED BY <1>1, <1>2, <2>2, <2>3, <2>4, <2>5, KeptInFolder, ContentFacts DEF Restoring
<1>4. CASE rollbacks' = rollbacks /\ ~reset
  <2>1. \A i \in Items \ Passed : live'[i] = live[i]
    <3>1. live' = live \/ (at = "copy" /\ live' = [live EXCEPT ![FolderOrder[k]] = Torn])
      BY <1>4 DEF Crash, Interrupted, StartInv, MarkersFit
    <3>2. at = "copy" => FolderOrder[k] \in Passed
      BY StartFacts, FolderFacts DEF Passed
    <3> QED BY <3>1, <3>2, StartFacts
  <2> QED BY <1>1, <1>2, <1>4, <2>1, KeptAsItIs DEF KeptInv
<1>5. CASE reset
  BY <1>1, <1>5 DEF StillKept
<1> QED BY <1>1, <1>3, <1>4, <1>5

LEMMA MakeRollbackKeeps ==
    ASSUME StartInv, KeptInv, MakeRollback
    PROVE  FilledSoFar' /\ StillKept'
<1>1. /\ at = "rollback" /\ at' = "keep" /\ k' = 1 /\ tries' = tries + 1
      /\ UNCHANGED <<live, ready, reset, base, clean>> /\ ready /\ ~reset
  BY DEF MakeRollback, Goto, Started, StartInv, MarkersFit
<1>2. Passed = {} /\ Passed' = {}
  BY <1>1 DEF Passed
<1>3. FilledSoFar'
  BY <1>1, MakesRollback DEF FilledSoFar
<1>4. Counting' = Counting /\ Untouched' = Untouched
  BY <1>1 DEF Counting, Untouched
<1>5. Saved \subseteq Saved'
  <2> SUFFICES ASSUME NEW j \in Saved PROVE j \in Saved'
    OBVIOUS
  <2>1. PICK n \in DOMAIN rollbacks : n + tries > Len(rollbacks) /\ rollbacks[n][j] = base[j]
    BY DEF Saved
  <2>2. DOMAIN rollbacks = 1 .. Len(rollbacks) /\ Len(rollbacks) \in Nat /\ tries \in Nat
    BY RollbackFacts, StartFacts
  <2>3. rollbacks'[n] = rollbacks[n] /\ n \in DOMAIN rollbacks' /\ Len(rollbacks') = Len(rollbacks) + 1
    BY <2>2, MakesRollback
  <2>4. n + tries' > Len(rollbacks') /\ rollbacks'[n][j] = base'[j]
    BY <1>1, <2>1, <2>2, <2>3
  <2> QED BY <2>3, <2>4 DEF Saved
<1>6. tries' <= Kept => tries <= Kept
  BY <1>1, StartFacts, RestoreConstants
<1>7. tries' <= Kept => Counting \subseteq Untouched \cup Saved
  BY <1>1, <1>6 DEF KeptInv, StillKept, Running
<1>8. StillKept'
  BY <1>2, <1>4, <1>5, <1>7 DEF StillKept
<1> QED BY <1>3, <1>8

\* The rollback folders of the attempts that count are not pruned.
LEMMA PruneKeeps ==
    ASSUME StartInv, KeptInv, PruneRollbacks
    PROVE  FilledSoFar' /\ StillKept'
<1>1. /\ at = "prune" /\ at' = "open" /\ UNCHANGED <<live, ready, reset, tries, base, clean>>
      /\ ~ready /\ ~reset /\ tries \in Nat /\ tries > 0
  BY StartFacts DEF PruneRollbacks, Goto, Started, StartInv, MarkersFit, KeptInv, Tried
<1>2. FilledSoFar'
  BY <1>1 DEF FilledSoFar
<1>3. Passed = Items /\ Passed' = Items
  BY <1>1 DEF Passed
<1>4. Counting' = Counting
  BY <1>1 DEF Counting
<1>5. tries <= Kept => Saved \subseteq Saved'
  <2> SUFFICES ASSUME tries <= Kept, NEW j \in Saved PROVE j \in Saved'
    OBVIOUS
  <2>1. PICK n \in DOMAIN rollbacks : n + tries > Len(rollbacks) /\ rollbacks[n][j] = base[j]
    BY DEF Saved
  <2>2. PICK gone \in Nat :
            /\ gone = 0 \/ gone + Kept <= Len(rollbacks)
            /\ Len(rollbacks') = Len(rollbacks) - gone
            /\ \A m \in DOMAIN rollbacks :
                  m > gone => m - gone \in DOMAIN rollbacks' /\ rollbacks'[m - gone] = rollbacks[m]
    BY Prunes
  <2>3. DOMAIN rollbacks = 1 .. Len(rollbacks) /\ Len(rollbacks) \in Nat /\ Kept \in Nat
    BY RollbackFacts, RestoreConstants
  <2>4. n > gone
    <3>1. n \in Nat /\ n > 0
      BY <2>3
    <3>2. CASE gone + Kept <= Len(rollbacks)
      BY <1>1, <2>1, <2>2, <2>3, <3>1, <3>2
    <3>3. CASE gone = 0
      BY <3>1, <3>3
    <3> QED BY <2>2, <3>2, <3>3
  <2>5. /\ Len(rollbacks') = Len(rollbacks) - gone
        /\ n - gone \in DOMAIN rollbacks' /\ rollbacks'[n - gone] = rollbacks[n]
    BY <2>2, <2>4
  <2>6. (n - gone) + tries' > Len(rollbacks')
    BY <1>1, <2>1, <2>3, <2>4, <2>5
  <2>7. j \in Items /\ rollbacks'[n - gone][j] = base'[j]
    BY <1>1, <2>1, <2>5 DEF Saved
  <2> QED BY <2>5, <2>6, <2>7 DEF Saved
<1>6. Counting \subseteq Items
  BY DEF Counting
<1>7. tries <= Kept => Counting \subseteq Saved
  BY <1>1, <1>3, <1>6 DEF KeptInv, StillKept, Running
<1>8. StillKept'
  BY <1>1, <1>4, <1>5, <1>7 DEF StillKept
<1> QED BY <1>2, <1>8

LEMMA KeptStep ==
    ASSUME StartInv, KeptInv, [Next]_vars
    PROVE  KeptInv'
<1> SUFFICES FilledSoFar' /\ StillKept'
  BY ClosedStep DEF KeptInv
<1>1. FilledSoFar /\ StillKept
  BY DEF KeptInv
<1>2. /\ live \in [Items -> Contents]
      /\ at \in {"remove", "place", "log"} => DatabaseOrder[k] \in Databases
      /\ at = "copy" => FolderOrder[k] \in Folders
      /\ Folders \subseteq Items /\ Databases \subseteq Items /\ Folders \cap Databases = {}
      /\ at \in Restoring => ready
  BY StartFacts, FolderFacts, DatabaseFacts DEF StartInv, MarkersFit, Items
<1>3. CASE Running'
  BY <1>3 DEF FilledSoFar, StillKept, Running
<1>4. CASE Stop
  <2>1. /\ at' = "down" /\ base' = live' /\ tries' = 0
    BY <1>4 DEF Stop
  <2>2. Passed' = {} /\ Untouched' = Items
    BY <2>1 DEF Passed, Untouched
  <2> QED BY <2>1, <2>2 DEF FilledSoFar, StillKept, Counting
<1>5. CASE Start \/ CheckReset \/ CheckRestore
  <2>1. /\ ~Running /\ UNCHANGED <<live, rollbacks, tries, base, clean, ready, reset>>
        /\ at \notin Restoring /\ at' \notin Restoring
    BY <1>5 DEF Start, CheckReset, CheckRestore, Goto, Started, disk, history, Running, Restoring
  <2>2. Passed' \subseteq Passed
    BY <2>1 DEF Passed, Restoring
  <2>3. FilledSoFar'
    BY <2>1 DEF FilledSoFar, Restoring
  <2> QED BY <1>1, <2>1, <2>2, <2>3, KeptAsItIs
<1>6. CASE WipeDatabase \/ WipeFolder \/ WipeRestore
  <2>1. reset' /\ at' = "wipe"
    BY <1>6 DEF WipeDatabase, WipeFolder, WipeRestore, Goto, Started, StartInv, MarkersFit
  <2> QED BY <2>1 DEF FilledSoFar, StillKept
<1>7. CASE WipeMarker
  <2>1. ~ready' /\ tries' = 0 /\ at' = "check"
    BY <1>7 DEF WipeMarker, Goto
  <2> QED BY <2>1 DEF FilledSoFar, StillKept
<1>8. CASE RemoveDatabase \/ PlaceDatabase \/ DropLog
  <2>1. /\ at \in {"remove", "place", "log"} /\ DatabaseOrder[k] \in Databases /\ ready /\ ~Running
        /\ UNCHANGED <<rollbacks, tries, base, clean, ready, reset>>
    BY <1>2, <1>8 DEF RemoveDatabase, PlaceDatabase, DropLog, Started, Running, Restoring
  <2>2. \/ at' \in {"remove", "place", "log"}
        \/ at' = "aside" /\ k' = 1
        \/ at' = "marker" /\ FolderOrder = <<>>
    BY <1>8, <2>1 DEF RemoveDatabase, PlaceDatabase, DropLog, Goto, AfterDatabase
  <2>3. Passed = Databases
    BY <1>2, <2>1 DEF Passed
  <2>4. Passed' = Databases
    <3>1. CASE at' \in {"remove", "place", "log"}
      BY <1>2, <2>1, <3>1 DEF Passed
    <3>2. CASE at' = "aside" /\ k' = 1
      <4>1. ~(\E j \in DOMAIN FolderOrder : j < 1)
        BY FolderFacts
      <4> QED BY <1>2, <2>1, <3>2, <4>1 DEF Passed
    <3>3. CASE at' = "marker" /\ FolderOrder = <<>>
      <4>1. Folders = {}
        BY <3>3, FolderFacts
      <4> QED BY <2>1, <3>3, <4>1 DEF Passed, Items
    <3> QED BY <2>2, <3>1, <3>2, <3>3
  <2>5. \A i \in Items \ Passed : live'[i] = live[i]
    <3>1. PICK d : d = DatabaseOrder[k]
      OBVIOUS
    <3>2. live' = live \/ \E x : live' = [live EXCEPT ![d] = x]
      BY <1>8, <3>1 DEF RemoveDatabase, PlaceDatabase, DropLog
    <3> QED BY <1>2, <2>1, <2>3, <3>1, <3>2
  <2>6. FilledSoFar'
    BY <1>1, <2>1, <2>2, <2>3, <2>4 DEF FilledSoFar
  <2>7. StillKept'
    BY <1>1, <2>1, <2>3, <2>4, <2>5, KeptAsItIs
  <2> QED BY <2>6, <2>7
<1>9. CASE CopyFolder
  <2>1. PICK f : f = FolderOrder[k]
    OBVIOUS
  <2>2. /\ at = "copy" /\ k \in DOMAIN FolderOrder /\ f \in Folders /\ ready /\ ~Running
        /\ UNCHANGED <<rollbacks, tries, base, clean, ready, reset>> /\ AfterFolder
        /\ \E x : live' = [live EXCEPT ![f] = x]
    BY <1>2, <1>9, <2>1, StartFacts DEF CopyFolder, Started, Running, Restoring
  <2>3. DOMAIN FolderOrder = 1 .. Len(FolderOrder) /\ Len(FolderOrder) \in Nat
    BY FolderFacts
  <2>4. Passed = {i \in Items : \/ i \in Databases \/ FolderOrder[k] = i
                                \/ \E j \in DOMAIN FolderOrder : j < k /\ FolderOrder[j] = i}
    BY <2>2 DEF Passed
  <2>5. Passed' = Passed
    <3>1. CASE k < Len(FolderOrder)
      <4>1. at' = "aside" /\ k' = k + 1
        BY <2>2, <3>1 DEF AfterFolder, Goto
      <4>2. \A j \in DOMAIN FolderOrder : j < k + 1 <=> j < k \/ j = k
        BY <2>2, <2>3
      <4>3. Passed' = {i \in Items : i \in Databases \/ \E j \in DOMAIN FolderOrder : j < k + 1 /\ FolderOrder[j] = i}
        BY <2>2, <4>1 DEF Passed
      <4> QED BY <2>2, <2>4, <4>2, <4>3
    <3>2. CASE ~(k < Len(FolderOrder))
      <4>1. at' = "marker" /\ k = Len(FolderOrder)
        BY <2>2, <2>3, <3>2 DEF AfterFolder, Goto
      <4>2. \A j \in DOMAIN FolderOrder : j < k \/ j = k
        BY <2>3, <4>1
      <4>3. Passed' = Items
        BY <4>1 DEF Passed
      <4>4. Items \subseteq Passed
        BY <2>4, <4>2, FolderFacts DEF Items
      <4> QED BY <2>4, <4>3, <4>4
    <3> QED BY <3>1, <3>2
  <2>6. f \in Passed
    BY <1>2, <2>1, <2>2, <2>4
  <2>7. \A i \in Items \ Passed : live'[i] = live[i]
    BY <1>2, <2>2, <2>6
  <2>8. FilledSoFar'
    <3>1. at' \in {"aside", "marker"}
      BY <2>2 DEF AfterFolder, Goto
    <3> QED BY <1>1, <2>2, <2>5, <3>1 DEF FilledSoFar
  <2> QED BY <1>1, <2>2, <2>5, <2>7, <2>8, KeptAsItIs
<1>10. CASE RemoveMarker \/ DiscardStaged
  <2>1. /\ at \in {"marker", "discard"} /\ at' \in {"discard", "prune"} /\ ~Running
        /\ UNCHANGED <<live, rollbacks, tries, base, clean, reset>> /\ (ready' => ready)
    BY <1>10 DEF RemoveMarker, DiscardStaged, Goto, Started, Running
  <2>2. Passed = Items /\ Passed' \subseteq Items
    BY <1>10, <2>1 DEF Passed, KeptInv, Tried, StartInv, MarkersFit, RemoveMarker, DiscardStaged
  <2>3. FilledSoFar'
    BY <2>1 DEF FilledSoFar
  <2> QED BY <1>1, <2>1, <2>2, <2>3, KeptAsItIs
<1>11. CASE UNCHANGED vars
  BY <1>1, <1>11
     DEF FilledSoFar, StillKept, Saved, Passed, Untouched, Counting, vars, disk, history, Running
<1>12. ~Running' /\ (RequestReset \/ Use \/ \E u \in Uploads : UploadStep(u)) => FALSE
  BY DEF StartInv, TypeOK, UploadStep, Begin, Clear, Unpack, RemoveStaged, Install, Mark, Fail,
         RequestReset, Use, Running
<1>13. Open => Running'
  BY DEF Open, Goto, Running
<1> QED
  BY <1>3, <1>4, <1>5, <1>6, <1>7, <1>8, <1>9, <1>10, <1>11, <1>12, <1>13, CrashKeeps, MakeRollbackKeeps,
     KeepDatabaseKeeps, SetAsideKeeps, PruneKeeps
     DEF Next, ResetStep, RestoreStep

(* Whatever a restore replaces is in one of the rollback folders that are  *)
(* left when it is through, if it came through within as many attempts as  *)
(* rollback folders are kept (apply_staged_restore,                        *)
(* prune_restore_rollbacks): ReplacedIsKept.                               *)
THEOREM ReplacedKept == Spec => []ReplacedIsKept
<1>1. Init => KeptInv
  BY DEF Init, KeptInv, LogsClosed, Tried, FilledSoFar, StillKept, Restoring, Running
<1>2. StartInv /\ KeptInv /\ [Next]_vars => KeptInv'
  BY KeptStep
<1>3. StartInv /\ KeptInv => ReplacedIsKept
  <2> SUFFICES ASSUME StartInv, KeptInv, at = "open", tries \in 1 .. Kept,
                      NEW i \in Items, base[i] # None, i \in Databases => clean
               PROVE  \E n \in DOMAIN rollbacks : rollbacks[n][i] = base[i]
    BY DEF ReplacedIsKept
  <2>1. ~ready /\ ~reset /\ ~Running /\ tries > 0 /\ tries <= Kept
    BY RestoreConstants DEF StartInv, MarkersFit, Running
  <2>2. i \in Counting /\ i \in Passed
    BY <2>1 DEF Counting, Passed
  <2>3. i \in Saved
    BY <2>1, <2>2 DEF KeptInv, StillKept
  <2> QED BY <2>3 DEF Saved
<1> QED BY <1>1, <1>2, <1>3, StartInvariant, PTL DEF Spec
===============================================================================
