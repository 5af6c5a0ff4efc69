----------------------------- MODULE StagedRestore -----------------------------
(***************************************************************************)
(* Restoring a private backup and resetting Parson.  A running server only *)
(* stages: it unpacks an uploaded archive and leaves a marker              *)
(* (crates/backend/src/api/data.rs, validate_and_stage_restore and         *)
(* reset_parson).  The next start does the work before it opens a database *)
(* (crates/backend/src/settings.rs, apply_staged_reset and                 *)
(* apply_staged_restore, called first by build_server).                    *)
(*                                                                         *)
(* One action is one operation on the file system, and the process may die *)
(* between any two.  An operation that is not atomic (copying a tree,      *)
(* removing one) is either entry by entry or may be left half done by a    *)
(* crash.  Where the code goes on although a removal has failed, so does   *)
(* the model.  A file is known by whose data it holds.                     *)
(***************************************************************************)
EXTENDS Naturals, Sequences

CONSTANTS
    Archives,       \* the backups that are uploaded
    Uploads,        \* uploads that may be handled at the same time
    FolderOrder,    \* the managed folders, in the order they are restored
    FoldersIn,      \* which of them each archive holds
    Kept,           \* how many rollback folders are kept: 3 in the code
    MaxUploads,     \* how many uploads are made at most
    MaxStarts,      \* how often the process is started at most
    Own,            \* data this server wrote
    None,           \* no such file
    Torn,           \* a file or folder that was copied halfway
    Behind,         \* a database file without the commits of its log
    Down,           \* for RestartPromise: no server runs
    Unstartable     \* for RestartPromise: the next start is refused

DatabaseOrder == <<"music", "core">>
Databases == {"music", "core"}
Folders == {FolderOrder[k] : k \in DOMAIN FolderOrder}
Items == Databases \cup Folders
Manifest == "manifest"
Entries == Items \cup {Manifest}
EntryOrder == <<Manifest>> \o DatabaseOrder \o FolderOrder

Contents == Archives \cup {Own, None, Torn, Behind}

ASSUME RestoreConstants ==
    /\ FolderOrder \in Seq(Folders)
    /\ Folders \cap (Databases \cup {Manifest}) = {}
    /\ \A i, j \in DOMAIN FolderOrder : FolderOrder[i] = FolderOrder[j] => i = j
    /\ Archives \cap {Own, None, Torn, Behind} = {}
    /\ \A n \in {Own, Torn, Behind} : n # None
    /\ FoldersIn \in [Archives -> SUBSET Folders]
    /\ {Down, Unstartable} \cap [Items -> Contents] = {}
    /\ Kept \in Nat \ {0}
    /\ MaxUploads \in Nat /\ MaxStarts \in Nat

VARIABLES
    live,           \* the data folder: Database and the managed folders
    wal,            \* the database for which a -wal file was left behind
    incoming,       \* Restore/incoming
    stage,          \* Restore/staged
    ready,          \* is there a Restore/READY?
    reset,          \* is there a Reset/READY?
    rollbacks,      \* Recovery/before-restore-*, oldest first
    at,             \* what the process is doing
    k,              \* the place in the loop it is in
    upload,         \* what each upload is doing
    uploads,        \* how many uploads there have been
    starts,         \* how many starts there have been
    (* History: what the server last had open, was it stopped in order, and *)
    (* how many attempts at restoring there have been since.                *)
    base, clean, tries,
    (* History: was a staging disturbed: by another upload at the same time, *)
    (* by failing while it replaced what an earlier one had staged, or by   *)
    (* leftovers in Restore/incoming that could not be removed?             *)
    disturbed,
    (* History: the databases that a restore replaced and whose old log it  *)
    (* could not remove.                                                    *)
    logsLeft

disk == <<live, wal, incoming, stage, ready, reset, rollbacks>>
history == <<base, clean, tries, disturbed, logsLeft>>
vars == <<disk, at, k, upload, uploads, starts, history>>

NoDirectory == [e \in {} |-> None]
EmptyDirectory == [e \in Entries |-> None]
Holds(a) == Databases \cup {Manifest} \cup FoldersIn[a]
Whole(a) == [e \in Entries |-> IF e \in Holds(a) THEN a ELSE None]
Staged(dir, e) == dir # NoDirectory /\ dir[e] # None

Idle == [at |-> "idle", archive |-> None, n |-> 1]

Running == at = "up"
Steps == {"down", "refused", "reset", "wipe", "check", "rollback", "keep", "remove",
          "place", "log", "aside", "copy", "marker", "discard", "prune", "open", "up"}
UploadSteps == {"idle", "clear", "unpack", "replace", "install", "mark"}
Replacing == {"replace", "install", "mark"}

TypeOK ==
    /\ live \in [Items -> Contents]
    /\ wal \in [Databases -> Contents]
    /\ {incoming, stage} \subseteq [Entries -> Archives \cup {None}] \cup {NoDirectory}
    /\ ready \in BOOLEAN /\ reset \in BOOLEAN
    /\ \A n \in DOMAIN rollbacks : rollbacks[n] \in [Items -> Contents]
    /\ at \in Steps /\ k \in 1 .. Len(EntryOrder)
    /\ upload \in [Uploads -> [at : UploadSteps, archive : Archives \cup {None}, n : 1 .. Len(EntryOrder) + 1]]
    /\ uploads \in 0 .. MaxUploads /\ starts \in 0 .. MaxStarts
    /\ base \in [Items -> Contents]
    /\ clean \in BOOLEAN /\ disturbed \in BOOLEAN
    /\ tries \in 0 .. MaxStarts /\ logsLeft \subseteq Databases
    (* Uploads are handled by the running server, restores are not.         *)
    /\ ~Running => \A u \in Uploads : upload[u].at = "idle"

Init ==
    /\ live = [i \in Items |-> Own]
    /\ wal = [d \in Databases |-> Own]
    /\ incoming = NoDirectory /\ stage = NoDirectory
    /\ ready = FALSE /\ reset = FALSE
    /\ rollbacks = <<>>
    /\ at = "up" /\ k = 1
    /\ upload = [u \in Uploads |-> Idle]
    /\ uploads = 0 /\ starts = 0
    /\ base = live /\ clean = TRUE /\ tries = 0 /\ disturbed = FALSE /\ logsLeft = {}

-----------------------------------------------------------------------------
(* The running server: an upload is unpacked into Restore/incoming, which  *)
(* takes the place of Restore/staged, and the marker is written.  Nothing  *)
(* keeps two uploads apart.                                                *)
Move(u, step) == upload' = [upload EXCEPT ![u] = [at |-> step, archive |-> None, n |-> 1]]

Staging == {u \in Uploads : upload[u].at # "idle"}

Begin(u) == \E a \in Archives :
    /\ Running /\ upload[u].at = "idle" /\ uploads < MaxUploads
    /\ uploads' = uploads + 1
    /\ upload' = [upload EXCEPT ![u] = [at |-> "clear", archive |-> a, n |-> 1]]
    /\ disturbed' = (disturbed \/ Staging # {})
    /\ UNCHANGED <<disk, at, k, starts, base, clean, tries, logsLeft>>

(* What an earlier upload left behind is removed; if that fails, what is   *)
(* left of it is unpacked into.                                            *)
Clear(u) ==
    /\ upload[u].at = "clear"
    /\ \/ incoming' = EmptyDirectory
       \/ /\ incoming # NoDirectory
          /\ \E gone \in SUBSET Entries :
                incoming' = [e \in Entries |-> IF e \in gone THEN None ELSE incoming[e]]
    /\ upload' = [upload EXCEPT ![u].at = "unpack"]
    /\ disturbed' = (disturbed \/ incoming' # EmptyDirectory)
    /\ UNCHANGED <<live, wal, stage, ready, reset, rollbacks, at, k, uploads, starts, base, clean, tries, logsLeft>>

(* The last entry is followed by the check that the manifest and the music *)
(* database were among them and that the database is sound.                *)
Unpack(u) ==
    /\ upload[u].at = "unpack"
    /\ incoming # NoDirectory
    /\ LET e == EntryOrder[upload[u].n] IN
       incoming' = [incoming EXCEPT ![e] = IF e \in Holds(upload[u].archive)
                                           THEN upload[u].archive ELSE @]
    /\ IF upload[u].n < Len(EntryOrder)
       THEN upload' = [upload EXCEPT ![u].n = @ + 1]
       ELSE /\ Staged(incoming', "music")
            /\ Move(u, "replace")
    /\ UNCHANGED <<live, wal, stage, ready, reset, rollbacks, at, k, uploads, starts, history>>

(* remove_dir_all: entry by entry, in any order.  If it fails the rename   *)
(* does, and so the upload: Fail.                                          *)
RemoveStaged(u) ==
    /\ upload[u].at = "replace"
    /\ IF \A e \in Entries : ~Staged(stage, e)
       THEN stage' = NoDirectory /\ Move(u, "install")
       ELSE /\ \E e \in Entries : Staged(stage, e) /\ stage' = [stage EXCEPT ![e] = None]
            /\ UNCHANGED upload
    /\ UNCHANGED <<live, wal, incoming, ready, reset, rollbacks, at, k, uploads, starts, history>>

\* The staging goes on when the new one could not be moved into place.
InstallIgnoringErrors(u) ==
    /\ upload[u].at = "install"
    /\ \/ /\ incoming # NoDirectory /\ stage = NoDirectory
          /\ stage' = incoming /\ incoming' = NoDirectory
       \/ UNCHANGED <<incoming, stage>>
    /\ Move(u, "mark")
    /\ UNCHANGED <<live, wal, ready, reset, rollbacks, at, k, uploads, starts, history>>

Install(u) ==
    /\ upload[u].at = "install"
    /\ incoming # NoDirectory /\ stage = NoDirectory
    /\ stage' = incoming /\ incoming' = NoDirectory
    /\ Move(u, "mark")
    /\ UNCHANGED <<live, wal, ready, reset, rollbacks, at, k, uploads, starts, history>>

Mark(u) ==
    /\ upload[u].at = "mark"
    /\ ready' = TRUE
    /\ Move(u, "idle")
    /\ UNCHANGED <<live, wal, incoming, stage, reset, rollbacks, at, k, uploads, starts, history>>

(* Any of these may fail: the archive is refused, or the disk is full.     *)
Fail(u) ==
    /\ upload[u].at # "idle"
    /\ Move(u, "idle")
    /\ disturbed' = (disturbed \/ (ready /\ upload[u].at \in Replacing))
    /\ UNCHANGED <<disk, at, k, uploads, starts, base, clean, tries, logsLeft>>

(* reset_parson, once its safety backup is written.                        *)
RequestReset ==
    /\ Running
    /\ reset' = TRUE
    /\ UNCHANGED <<live, wal, incoming, stage, ready, rollbacks, at, k, upload, uploads, starts, history>>

Use ==
    /\ Running
    /\ live' = [i \in Items |-> Own]
    /\ wal' = [d \in Databases |-> Own]
    /\ UNCHANGED <<incoming, stage, ready, reset, rollbacks, at, k, upload, uploads, starts, history>>

-----------------------------------------------------------------------------
\* Uploads go on where they were when the process comes back.
StopKeepingUploads ==
    /\ Running
    /\ at' = "down" /\ k' = 1
    /\ UNCHANGED upload
    /\ \/ clean' = TRUE /\ wal' = [d \in Databases |-> None]
       \/ clean' = FALSE /\ UNCHANGED wal
    /\ base' = live /\ tries' = 0
    /\ disturbed' = (disturbed \/ (ready /\ \E u \in Staging : upload[u].at \in Replacing))
    /\ UNCHANGED <<live, incoming, stage, ready, reset, rollbacks, uploads, starts, logsLeft>>

(* The process ends, in order or not.  Uploads die with it, operations     *)
(* that were under way leave what they had done, and a database that was   *)
(* not closed leaves its log.                                              *)
Stop ==
    /\ Running
    /\ at' = "down" /\ k' = 1
    /\ upload' = [u \in Uploads |-> Idle]
    /\ \/ clean' = TRUE /\ wal' = [d \in Databases |-> None]
       \/ clean' = FALSE /\ UNCHANGED wal
    /\ base' = live /\ tries' = 0
    /\ disturbed' = (disturbed \/ (ready /\ \E u \in Staging : upload[u].at \in Replacing))
    /\ UNCHANGED <<live, incoming, stage, ready, reset, rollbacks, uploads, starts, logsLeft>>

NoDatabase == \A d \in Databases : live[d] = None /\ wal[d] = None

Interrupted ==
    \/ UNCHANGED <<live, stage, rollbacks>>
    \/ /\ at = "keep" /\ live[DatabaseOrder[k]] # None
       /\ rollbacks' = [rollbacks EXCEPT ![Len(rollbacks)][DatabaseOrder[k]] = Torn]
       /\ UNCHANGED <<live, stage>>
    \/ /\ \/ at = "copy"
          \/ at = "wipe" /\ NoDatabase /\ k \in DOMAIN FolderOrder /\ live[FolderOrder[k]] # None
       /\ live' = [live EXCEPT ![FolderOrder[k]] = Torn]
       /\ UNCHANGED <<stage, rollbacks>>
    \/ /\ at = "discard"
       /\ \E e \in Entries : stage' = [stage EXCEPT ![e] = None]
       /\ UNCHANGED <<live, rollbacks>>

(* Dying and giving up on an error are the same here: `?` ends the start.  *)
Crash ==
    /\ at \notin {"down", "refused", "up"}
    /\ Interrupted
    /\ at' = "down" /\ k' = 1
    /\ UNCHANGED <<wal, incoming, ready, reset, upload, uploads, starts, history>>

Start ==
    /\ at \in {"down", "refused"}
    /\ starts < MaxStarts
    /\ starts' = starts + 1
    /\ at' = "reset" /\ k' = 1
    /\ UNCHANGED <<disk, upload, uploads, history>>

Goto(step, place) == at' = step /\ k' = place
Started == UNCHANGED <<incoming, upload, uploads, starts, base, clean, disturbed>>

(* The loops: over the databases, then over the folders.                   *)
AfterFolder == IF k < Len(FolderOrder) THEN Goto("aside", k + 1) ELSE Goto("marker", 1)
AfterDatabase ==
    IF k < 2 THEN Goto("remove", k + 1)
    ELSE IF FolderOrder = <<>> THEN Goto("marker", 1) ELSE Goto("aside", 1)

-----------------------------------------------------------------------------
(* apply_reset_at: directory by directory, and its own marker last.        *)
CheckReset ==
    /\ at = "reset"
    /\ IF reset THEN Goto("wipe", 1) ELSE Goto("check", 1)
    /\ UNCHANGED <<live, wal, stage, ready, reset, rollbacks, tries, logsLeft>> /\ Started

WipeDatabase == \E d \in Databases :
    /\ at = "wipe"
    /\ \/ live[d] # None /\ live' = [live EXCEPT ![d] = None] /\ UNCHANGED wal
       \/ wal[d] # None /\ wal' = [wal EXCEPT ![d] = None] /\ UNCHANGED live
    /\ UNCHANGED <<stage, ready, reset, rollbacks, at, k, tries, logsLeft>> /\ Started

WipeFolder ==
    /\ at = "wipe" /\ NoDatabase
    /\ k \in DOMAIN FolderOrder
    /\ live' = [live EXCEPT ![FolderOrder[k]] = None]
    /\ Goto("wipe", k + 1)
    /\ UNCHANGED <<wal, stage, ready, reset, rollbacks, tries, logsLeft>> /\ Started

(* Recovery, then Restore with the marker and the archive in any order.    *)
WipeRestore ==
    /\ at = "wipe" /\ NoDatabase /\ k > Len(FolderOrder)
    /\ \/ rollbacks # <<>> /\ rollbacks' = <<>> /\ UNCHANGED <<stage, ready, incoming>>
       \/ rollbacks = <<>> /\ ready /\ ready' = FALSE /\ UNCHANGED <<stage, incoming, rollbacks>>
       \/ rollbacks = <<>> /\ stage # NoDirectory /\ stage' = NoDirectory
          /\ UNCHANGED <<ready, incoming, rollbacks>>
       \/ rollbacks = <<>> /\ incoming # NoDirectory /\ incoming' = NoDirectory
          /\ UNCHANGED <<ready, stage, rollbacks>>
    /\ UNCHANGED <<live, wal, reset, at, k, upload, uploads, starts, history>>

WipeMarker ==
    /\ at = "wipe" /\ NoDatabase /\ k > Len(FolderOrder)
    /\ rollbacks = <<>> /\ ~ready /\ {stage, incoming} = {NoDirectory}
    /\ reset' = FALSE /\ tries' = 0
    /\ Goto("check", 1)
    /\ UNCHANGED <<live, wal, stage, ready, rollbacks, logsLeft>> /\ Started

-----------------------------------------------------------------------------
(* apply_staged_restore.                                                   *)
Complete == Staged(stage, Manifest) /\ Staged(stage, "music")

\* The marker is removed before the work instead of after it.
MarkerFirst ==
    /\ at = "check"
    /\ IF ~ready THEN Goto("open", 1)
       ELSE IF Complete THEN Goto("rollback", 1) ELSE Goto("refused", 1)
    /\ ready' = FALSE
    /\ UNCHANGED <<live, wal, stage, reset, rollbacks, tries, logsLeft>> /\ Started

CheckRestore ==
    /\ at = "check"
    /\ IF ~ready THEN Goto("open", 1)
       ELSE IF Complete THEN Goto("rollback", 1) ELSE Goto("refused", 1)
    /\ UNCHANGED <<live, wal, stage, ready, reset, rollbacks, tries, logsLeft>> /\ Started

MakeRollback ==
    /\ at = "rollback"
    /\ rollbacks' = Append(rollbacks, [i \in Items |-> None])
    /\ tries' = tries + 1
    /\ Goto("keep", 1)
    /\ UNCHANGED <<live, wal, stage, ready, reset, logsLeft>> /\ Started

(* Only the database file is copied: what is still in its log is not.      *)
KeepDatabase ==
    /\ at = "keep"
    /\ LET d == DatabaseOrder[k]
           copied == IF live[d] # None /\ wal[d] = live[d] THEN Behind ELSE live[d]
       IN rollbacks' = [rollbacks EXCEPT ![Len(rollbacks)][d] = copied]
    /\ IF k < 2 THEN Goto("keep", k + 1) ELSE Goto("remove", 1)
    /\ UNCHANGED <<live, wal, stage, ready, reset, tries, logsLeft>> /\ Started

(* The staged file is copied beside the database first; one that was not   *)
(* staged is left as it is.                                                *)
RemoveDatabase ==
    /\ at = "remove"
    /\ IF Staged(stage, DatabaseOrder[k])
       THEN live' = [live EXCEPT ![DatabaseOrder[k]] = None] /\ Goto("place", k)
       ELSE UNCHANGED live /\ AfterDatabase
    /\ UNCHANGED <<wal, stage, ready, reset, rollbacks, tries, logsLeft>> /\ Started

PlaceDatabase ==
    /\ at = "place"
    /\ live' = [live EXCEPT ![DatabaseOrder[k]] = stage[DatabaseOrder[k]]]
    /\ Goto("log", k)
    /\ UNCHANGED <<wal, stage, ready, reset, rollbacks, tries, logsLeft>> /\ Started

\* Only the log of the music database is thought of.
DropMusicLog ==
    /\ at = "log"
    /\ wal' = [wal EXCEPT !["music"] = None]
    /\ AfterDatabase
    /\ UNCHANGED <<live, stage, ready, reset, rollbacks, tries, logsLeft>> /\ Started

(* The log of the database that was replaced; that it could not be removed *)
(* is not looked at.                                                       *)
DropLog ==
    /\ at = "log"
    /\ LET d == DatabaseOrder[k] IN
       \/ wal' = [wal EXCEPT ![d] = None] /\ logsLeft' = logsLeft \ {d}
       \/ wal[d] # None /\ logsLeft' = logsLeft \cup {d} /\ UNCHANGED wal
    /\ AfterDatabase
    /\ UNCHANGED <<live, stage, ready, reset, rollbacks, tries>> /\ Started

SetFolderAside ==
    /\ at = "aside"
    /\ LET f == FolderOrder[k] IN
       /\ live' = [live EXCEPT ![f] = None]
       /\ rollbacks' = [rollbacks EXCEPT ![Len(rollbacks)][f] = live[f]]
       /\ IF Staged(stage, f) THEN Goto("copy", k) ELSE AfterFolder
    /\ UNCHANGED <<wal, stage, ready, reset, tries, logsLeft>> /\ Started

CopyFolder ==
    /\ at = "copy"
    /\ live' = [live EXCEPT ![FolderOrder[k]] = stage[FolderOrder[k]]]
    /\ AfterFolder
    /\ UNCHANGED <<wal, stage, ready, reset, rollbacks, tries, logsLeft>> /\ Started

RemoveMarker ==
    /\ at = "marker"
    /\ ready' = FALSE
    /\ Goto("discard", 1)
    /\ UNCHANGED <<live, wal, stage, reset, rollbacks, tries, logsLeft>> /\ Started

DiscardStaged ==
    /\ at = "discard"
    /\ stage' = NoDirectory
    /\ Goto("prune", 1)
    /\ UNCHANGED <<live, wal, ready, reset, rollbacks, tries, logsLeft>> /\ Started

\* The folder of this start is not counted among the ones to keep.
PruneOneTooMany ==
    /\ at = "prune"
    /\ rollbacks' = IF Len(rollbacks) >= Kept
                    THEN SubSeq(rollbacks, Len(rollbacks) - Kept + 2, Len(rollbacks))
                    ELSE rollbacks
    /\ Goto("open", 1)
    /\ UNCHANGED <<live, wal, stage, ready, reset, tries, logsLeft>> /\ Started

(* Some of what is too old may be there to stay: its removal is tried,     *)
(* newest first, and may fail.                                             *)
PruneRollbacks ==
    /\ at = "prune"
    /\ IF Len(rollbacks) > Kept
       THEN \E first \in 1 .. Len(rollbacks) - Kept + 1 :
                rollbacks' = SubSeq(rollbacks, first, Len(rollbacks))
       ELSE UNCHANGED rollbacks
    /\ Goto("open", 1)
    /\ UNCHANGED <<live, wal, stage, ready, reset, tries, logsLeft>> /\ Started

(* The databases are opened; where there is none, an empty one is made.    *)
(* SQLite may apply a log it finds to a database it was not written for.   *)
Open ==
    /\ at = "open"
    /\ Goto("up", 1)
    /\ \E spoilt \in SUBSET {d \in Databases : wal[d] \notin {None, live[d]}} :
          live' = [i \in Items |-> IF i \in spoilt THEN Torn ELSE live[i]]
    /\ wal' = [d \in Databases |-> live'[d]]
    /\ disturbed' = FALSE /\ logsLeft' = {}
    /\ UNCHANGED <<incoming, stage, ready, reset, rollbacks, upload, uploads, starts,
                   base, clean, tries>>

-----------------------------------------------------------------------------
UploadStep(u) ==
    \/ Begin(u) \/ Clear(u) \/ Unpack(u) \/ RemoveStaged(u) \/ Install(u) \/ Mark(u) \/ Fail(u)

ResetStep == CheckReset \/ WipeDatabase \/ WipeFolder \/ WipeRestore \/ WipeMarker

RestoreStep ==
    \/ CheckRestore \/ MakeRollback \/ KeepDatabase \/ RemoveDatabase \/ PlaceDatabase
    \/ DropLog \/ SetFolderAside \/ CopyFolder \/ RemoveMarker \/ DiscardStaged
    \/ PruneRollbacks \/ Open

Next ==
    \/ \E u \in Uploads : UploadStep(u)
    \/ RequestReset \/ Use \/ Stop \/ Crash \/ Start \/ ResetStep \/ RestoreStep

Spec == Init /\ [][Next]_vars

-----------------------------------------------------------------------------
(* What the next complete start will open.                                 *)
Restored == [i \in Items |->
    IF i \in Databases /\ ~Staged(stage, i) THEN live[i]
    ELSE IF Staged(stage, i) THEN stage[i] ELSE None]

NextStart ==
    IF reset THEN [i \in Items |-> None]
    ELSE IF ~ready THEN live
    ELSE IF Complete THEN Restored ELSE Unstartable

(* However often a start dies on the way, and wherever it does, it does    *)
(* not change what a later start will open, and the first one that comes   *)
(* through opens exactly that: a restore and a reset happen entirely or    *)
(* not at all (apply_staged_restore, apply_reset_at).  Only a database     *)
(* whose old log could not be removed is not promised.                     *)
Abstract == INSTANCE RestartPromise WITH
    serving <- IF Running THEN live ELSE Down,
    next <- NextStart,
    pending <- ready \/ reset,
    excepted <- logsLeft
RestartKeepsPromise == Abstract!Spec

(* An archive that waits to be restored is a whole one, and the last whose *)
(* staging was completed, so long as nothing disturbed the staging         *)
(* (validate_and_stage_restore): an upload that fails, wherever it does,   *)
(* leaves no marker beside half of an archive, and a start that died does  *)
(* not eat what waits.                                                     *)
PendingIsWhole ==
    (ready /\ ~reset /\ ~disturbed /\ \A u \in Uploads : upload[u].at \notin Replacing)
        => \E a \in Archives : stage = Whole(a)

(* Whatever a restore replaces is in one of the rollback folders that are  *)
(* left when it is through, if it came through within as many attempts as  *)
(* rollback folders are kept; a database only if it had been closed        *)
(* (apply_staged_restore, prune_restore_rollbacks).                        *)
ReplacedIsKept ==
    (at = "open" /\ tries \in 1 .. Kept) =>
        \A i \in Items : base[i] # None /\ (i \in Databases => clean) =>
            \E n \in DOMAIN rollbacks : rollbacks[n][i] = base[i]

(* No database is opened beside the log of another, which SQLite would     *)
(* apply, whatever was restored or reset, by however many starts, in each  *)
(* of which any removal of a log may have failed: but for the database     *)
(* whose last such removal did (apply_staged_restore, apply_reset_at).     *)
OpensNoForeignLog ==
    at = "open" => \A d \in Databases \ logsLeft : wal[d] \in {None, live[d]}
===============================================================================
