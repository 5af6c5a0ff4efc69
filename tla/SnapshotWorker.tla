--------------------------- MODULE SnapshotWorker ---------------------------
(***************************************************************************)
(* Recovery snapshots of the music database                                *)
(* (crates/backend/src/persistence/connection.rs, snapshot_after_import    *)
(* and create_verified_snapshot).                                          *)
(*                                                                         *)
(* Every import that changes the database asks for a snapshot through two  *)
(* atomic flags: SNAPSHOT_PENDING says that there is something to copy,    *)
(* SNAPSHOT_RUNNING that a worker thread exists or is being started.  Each *)
(* load, store or swap of a flag is a step of its own.  The worker skips   *)
(* the copy when the catalog has the fingerprint recorded with the last    *)
(* snapshot.  Two versions of the database may have the same catalog; a    *)
(* fingerprint is known by the version it was read from.  Snapshots and    *)
(* the record are files and survive a crash; the flags and the threads do  *)
(* not.                                                                    *)
(***************************************************************************)
EXTENDS Naturals, Sequences

CONSTANTS
    Importers,      \* the threads that import
    Workers,        \* the names of the worker threads
    MaxVersions,    \* how many times the database is changed at most
    Generations,    \* how many snapshots are kept
    Fingerprint,    \* the catalog fingerprint of each database version
                    \* (not injective: a catalog may return)
    NoRecord        \* no readable fingerprint is recorded

Versions == 0 .. MaxVersions

ASSUME ThreadsAssumption == Importers \cap Workers = {}
ASSUME BoundsAssumption == MaxVersions \in Nat /\ Generations \in Nat \ {0}
ASSUME FingerprintAssumption ==
    Fingerprint \in [Versions -> Nat] /\ NoRecord \notin Versions

VARIABLES
    pending,    \* SNAPSHOT_PENDING
    running,    \* SNAPSHOT_RUNNING
    pc,         \* where each thread is
    print,      \* the version whose fingerprint a worker has read
    copy,       \* the database version in a worker's temporary file
    version,    \* the committed version of the database
    snapshots,  \* the version in each snapshot file, oldest first
    recorded,   \* the version whose fingerprint is in the snapshot-state file
    excused     \* has a snapshot been given up since the last one began?

flags == <<pending, running>>
work == <<print, copy>>
disk == <<version, snapshots, recorded>>
vars == <<flags, pc, work, disk, excused>>

Threads == Importers \cup Workers
Rest(t) == IF t \in Importers THEN "idle" ELSE "off"

(* The thread between its winning swap of RUNNING and the store that       *)
(* clears it, the worker it starts included.                               *)
Copying == {"loop", "fingerprint", "vacuum", "rename", "prune", "record", "stop"}
Owning == {"spawn", "unclaim"} \cup Copying
Labels == {"idle", "off", "mark", "claim", "unmark", "recheck"} \cup Owning

TypeOK ==
    /\ pending \in BOOLEAN /\ running \in BOOLEAN /\ excused \in BOOLEAN
    /\ pc \in [Threads -> Labels]
    /\ \A t \in Importers : pc[t] \notin Copying \cup {"off", "recheck"}
    /\ \A w \in Workers : pc[w] # "idle"
    /\ print \in [Workers -> Versions \cup {NoRecord}]
    /\ copy \in [Workers -> Versions]
    /\ version \in Versions
    /\ snapshots \in Seq(Versions)
    /\ recorded \in Versions \cup {NoRecord}

Init ==
    /\ pending = FALSE /\ running = FALSE
    /\ pc = [t \in Threads |-> Rest(t)]
    /\ print = [w \in Workers |-> NoRecord]
    /\ copy = [w \in Workers |-> 0]
    /\ version = 0
    /\ snapshots = <<>>
    /\ recorded = NoRecord
    /\ excused = TRUE

Go(t, from, to) == pc[t] = from /\ pc' = [pc EXCEPT ![t] = to]

-----------------------------------------------------------------------------
(* snapshot_after_import, called by an import and by a worker that ends.   *)

Commit(t) ==
    /\ t \in Importers
    /\ version < MaxVersions
    /\ Go(t, "idle", "mark")
    /\ version' = version + 1
    /\ UNCHANGED <<flags, work, snapshots, recorded, excused>>

(* A change nobody asks a snapshot for: a folder is removed, or an import   *)
(* fails after its commit.                                                 *)
CommitUnasked(t) ==
    /\ t \in Importers
    /\ pc[t] = "idle"
    /\ version < MaxVersions
    /\ version' = version + 1
    /\ excused' = TRUE
    /\ UNCHANGED <<flags, pc, work, snapshots, recorded>>

Mark(t) ==
    /\ Go(t, "mark", "claim")
    /\ pending' = TRUE
    /\ UNCHANGED <<running, work, disk, excused>>

(* A faulty claim: a store in place of the swap.                           *)
ClaimByStore(t) ==
    /\ Go(t, "claim", "spawn")
    /\ running' = TRUE
    /\ UNCHANGED <<pending, work, disk, excused>>

Claim(t) ==
    /\ Go(t, "claim", IF running THEN Rest(t) ELSE "spawn")
    /\ running' = TRUE
    /\ UNCHANGED <<pending, work, disk, excused>>

Spawn(t) ==
    \E w \in Workers :
        /\ pc[t] = "spawn"
        /\ pc[w] = "off"
        /\ pc' = [pc EXCEPT ![t] = Rest(t), ![w] = "loop"]
        /\ UNCHANGED <<flags, work, disk, excused>>

(* The operating system has no thread to give: RUNNING is cleared, and     *)
(* then PENDING, which drops every request made so far.                    *)
SpawnFails(t) ==
    /\ Go(t, "spawn", "unclaim")
    /\ UNCHANGED <<flags, work, disk, excused>>

(* A faulty failure: RUNNING stays set.                                    *)
UnclaimNothing(t) ==
    /\ Go(t, "unclaim", Rest(t))
    /\ UNCHANGED <<flags, work, disk, excused>>

Unclaim(t) ==
    /\ Go(t, "unclaim", "unmark")
    /\ running' = FALSE
    /\ UNCHANGED <<pending, work, disk, excused>>

Unmark(t) ==
    /\ Go(t, "unmark", Rest(t))
    /\ pending' = FALSE
    /\ excused' = TRUE
    /\ UNCHANGED <<running, work, disk>>

-----------------------------------------------------------------------------
(* The worker thread.                                                      *)

TakePending(w) ==
    /\ Go(w, "loop", IF pending THEN "fingerprint" ELSE "stop")
    /\ pending' = FALSE
    /\ UNCHANGED <<running, work, disk, excused>>

(* catalog_fingerprint, and the comparison with the recorded one.          *)
ReadFingerprint(w) ==
    LET unchanged == /\ snapshots # <<>> /\ recorded # NoRecord
                     /\ Fingerprint[recorded] = Fingerprint[version]
    IN  /\ Go(w, "fingerprint", IF unchanged THEN "loop" ELSE "vacuum")
        /\ print' = [print EXCEPT ![w] = version]
        /\ excused' = FALSE
        /\ UNCHANGED <<flags, copy, disk>>

(* VACUUM INTO a temporary file, which is then checked.  It reads the      *)
(* database in a transaction of its own.                                   *)
Vacuum(w) ==
    /\ Go(w, "vacuum", "rename")
    /\ copy' = [copy EXCEPT ![w] = version]
    /\ UNCHANGED <<flags, print, disk, excused>>

Rename(w) ==
    /\ Go(w, "rename", "prune")
    /\ snapshots' = Append(snapshots, copy[w])
    /\ UNCHANGED <<flags, work, version, recorded, excused>>

(* A faulty rotation: the newest files go.                                 *)
PruneNewest(w) ==
    /\ Go(w, "prune", "record")
    /\ snapshots' = IF Len(snapshots) > Generations
                    THEN SubSeq(snapshots, 1, Generations)
                    ELSE snapshots
    /\ UNCHANGED <<flags, work, version, recorded, excused>>

(* The oldest files go; one that cannot be removed stays for the next time. *)
Prune(w) ==
    /\ Go(w, "prune", "record")
    /\ \E kept \in {Generations, Len(snapshots)} :
          snapshots' = IF Len(snapshots) > kept
                       THEN SubSeq(snapshots, Len(snapshots) - kept + 1, Len(snapshots))
                       ELSE snapshots
    /\ UNCHANGED <<flags, work, version, recorded, excused>>

(* A faulty record: the request is only cleared when the pass is over.     *)
RecordAndClear(w) ==
    /\ Go(w, "record", "loop")
    /\ recorded' = print[w]
    /\ pending' = FALSE
    /\ UNCHANGED <<running, work, version, snapshots, excused>>

Record(w) ==
    /\ Go(w, "record", "loop")
    /\ recorded' = print[w]
    /\ UNCHANGED <<flags, work, version, snapshots, excused>>

(* Any of these may fail, for want of a connection or of disk space; a     *)
(* fingerprint whose write fails is not readable any more.                 *)
PassFails(w) ==
    /\ pc[w] \in {"fingerprint", "vacuum", "rename", "prune", "record"}
    /\ pc' = [pc EXCEPT ![w] = "loop"]
    /\ recorded' \in IF pc[w] = "record" THEN {recorded, NoRecord} ELSE {recorded}
    /\ excused' = TRUE
    /\ UNCHANGED <<flags, work, version, snapshots>>

Stop(w) ==
    /\ Go(w, "stop", "recheck")
    /\ running' = FALSE
    /\ UNCHANGED <<pending, work, disk, excused>>

(* A faulty end: the thread does not look again.                           *)
RecheckNothing(w) ==
    /\ Go(w, "recheck", "off")
    /\ UNCHANGED <<flags, work, disk, excused>>

(* "Close the race between the final pending check and clearing RUNNING."  *)
Recheck(w) ==
    /\ Go(w, "recheck", IF pending THEN "mark" ELSE "off")
    /\ UNCHANGED <<flags, work, disk, excused>>

(* The process stops and starts again; the files stay, a fingerprint that  *)
(* was being written may not.                                              *)
Crash ==
    /\ pending' = FALSE /\ running' = FALSE
    /\ recorded' \in IF \E w \in Workers : pc[w] = "record" THEN {recorded, NoRecord} ELSE {recorded}
    /\ pc' = [t \in Threads |-> Rest(t)]
    /\ excused' = TRUE
    /\ UNCHANGED <<work, version, snapshots>>

-----------------------------------------------------------------------------
CallerStep(t) == Mark(t) \/ Claim(t) \/ Spawn(t) \/ SpawnFails(t) \/ Unclaim(t) \/ Unmark(t)

WorkerStep(w) ==
    \/ TakePending(w) \/ ReadFingerprint(w) \/ Vacuum(w) \/ Rename(w) \/ Prune(w)
    \/ Record(w) \/ PassFails(w) \/ Stop(w) \/ Recheck(w)

ThreadStep ==
    \/ \E t \in Importers : Commit(t) \/ CommitUnasked(t)
    \/ \E t \in Threads : CallerStep(t)
    \/ \E w \in Workers : WorkerStep(w)

Next == ThreadStep \/ Crash

Spec == Init /\ [][Next]_vars

(* Threads are scheduled, and nothing else is assumed: imports may stop    *)
(* coming, and the process may crash.                                      *)
CallerIsFair(t) == WF_vars(CallerStep(t))
WorkerIsFair(w) == WF_vars(WorkerStep(w))
Fairness ==
    /\ \A t \in Threads : CallerIsFair(t)
    /\ \A w \in Workers : WorkerIsFair(w)

FairSpec == Spec /\ Fairness

-----------------------------------------------------------------------------
Quiet == ~pending /\ \A t \in Threads : pc[t] = Rest(t)

(* Two threads never copy the database or prune snapshots at once, also    *)
(* while one worker ends and the next one starts.                          *)
OneSnapshotWriter ==
    \A v, w \in Workers : pc[v] \in Copying /\ pc[w] \in Copying => v = w

(* A request that is pending has somebody who will look at it: an import   *)
(* that finds RUNNING set may rely on the worker that ends.                *)
PendingIsNoticed ==
    pending => \E t \in Threads :
                  pc[t] \in {"mark", "claim", "unmark", "recheck"} \cup Owning

(* At rest the newest snapshot is of the present catalog, unless making it *)
(* was given up: no import that came during a pass is forgotten, and no    *)
(* fingerprint vouches for a snapshot that does not exist.  The one        *)
(* exception is a catalog that changed between the fingerprint and the     *)
(* copy of a pass and has returned since: the record then says that there  *)
(* is nothing to copy.                                                     *)
Newest == snapshots[Len(snapshots)]
CatalogReturned ==
    /\ recorded # NoRecord
    /\ recorded < Newest
    /\ Fingerprint[recorded] = Fingerprint[version]

QuietSnapshotIsCurrent ==
    Quiet /\ ~excused =>
        /\ snapshots # <<>>
        /\ Fingerprint[Newest] = Fingerprint[version] \/ CatalogReturned

(* Pruning never takes the last snapshot, nor one newer than one it keeps. *)
SnapshotsGrowNewer ==
    [][snapshots # <<>> =>
          /\ snapshots' # <<>>
          /\ snapshots'[Len(snapshots')] >= snapshots[Len(snapshots)]]_vars

(* No thread is stuck where it stands: not even the caller that finds no    *)
(* worker's name free, nor a worker whose request was taken by another.    *)
Calling == {"mark", "claim", "spawn", "unclaim", "unmark"}
CallerCanStep(t) == pc[t] \in Calling => ENABLED <<CallerStep(t)>>_vars
WorkerCanStep(w) == pc[w] \in Copying \cup {"recheck"} => ENABLED <<WorkerStep(w)>>_vars
ThreadsCanStep ==
    /\ \A t \in Threads : CallerCanStep(t)
    /\ \A w \in Workers : WorkerCanStep(w)

(* A request that stays pending is taken up, and a thread that asked is    *)
(* not kept: the flags cannot be left set with nobody at work.             *)
PendingIsTaken == pending ~> ~pending
=============================================================================
