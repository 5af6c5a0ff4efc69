------------------------ MODULE SnapshotWorkerProofs ------------------------
(***************************************************************************)
(* Theorems about SnapshotWorker, for any number of importing threads,     *)
(* worker threads, versions and generations.                               *)
(***************************************************************************)
EXTENDS SnapshotWorker, SequenceTheorems, TLAPS

USE DEF Owning, Copying

(* RUNNING is set exactly while one thread is its owner: the winner of the *)
(* swap first, the worker it starts afterwards.                            *)
OneOwner == \A t, u \in Threads : pc[t] \in Owning /\ pc[u] \in Owning => t = u
OwnerRuns == \A t \in Threads : pc[t] \in Owning => running
RunningOwned == running => \E t \in Threads : pc[t] \in Owning

FlagInv == TypeOK /\ OneOwner /\ OwnerRuns /\ RunningOwned /\ PendingIsNoticed

LEMMA RestIsFree ==
    ASSUME NEW t \in Threads
    PROVE  /\ Rest(t) \in {"idle", "off"}
           /\ Rest(t) \in Labels
           /\ t \in Importers => Rest(t) = "idle"
           /\ t \in Workers => Rest(t) = "off"
BY ThreadsAssumption, SMT DEF Rest, Labels, Threads

(* What the rotation leaves: no file, or a queue with the same last file.  *)
LEMMA PruneKeepsNewest ==
    ASSUME NEW w \in Workers, Prune(w), snapshots \in Seq(Versions)
    PROVE  /\ snapshots' \in Seq(Versions)
           /\ snapshots # <<>> => /\ snapshots' # <<>>
                                  /\ snapshots'[Len(snapshots')] = snapshots[Len(snapshots)]
<1>1. PICK kept \in {Generations, Len(snapshots)} :
          snapshots' = IF Len(snapshots) > kept
                       THEN SubSeq(snapshots, Len(snapshots) - kept + 1, Len(snapshots))
                       ELSE snapshots
  BY DEF Prune
<1>2. CASE Len(snapshots) > kept
  <2> DEFINE m == Len(snapshots) - kept + 1
             n == Len(snapshots)
  <2>1. /\ kept \in Nat \ {0} /\ n \in Nat /\ m \in Int /\ m >= 1 /\ m =< n
        /\ \A i \in m .. n : snapshots[i] \in Versions
    BY <1>2, BoundsAssumption, LenProperties, ElementOfSeq
  <2>2. /\ SubSeq(snapshots, m, n) \in Seq(Versions)
        /\ Len(SubSeq(snapshots, m, n)) = n - m + 1
        /\ \A i \in 1 .. n - m + 1 : SubSeq(snapshots, m, n)[i] = snapshots[m + i - 1]
    <3> HIDE DEF m, n
    <3> QED BY <2>1, SubSeqProperties
  <2>3. snapshots' = SubSeq(snapshots, m, n)
    BY <1>1, <1>2
  <2>4. /\ Len(snapshots') = kept
        /\ snapshots'[kept] = snapshots[n]
    BY <2>1, <2>2, <2>3
  <2>5. snapshots' # <<>>
    BY <2>4, <2>1
  <2> QED BY <2>2, <2>3, <2>4, <2>5
<1>3. CASE ~(Len(snapshots) > kept)
  BY <1>1, <1>3
<1> QED BY <1>2, <1>3

LEMMA FlagInvInit == Init => FlagInv
<1> SUFFICES ASSUME Init PROVE FlagInv
  OBVIOUS
<1>1. \A t \in Threads : pc[t] = Rest(t) /\ pc[t] \in {"idle", "off"}
  BY RestIsFree DEF Init
<1>2. pc \in [Threads -> Labels]
  BY RestIsFree DEF Init
<1>3. /\ \A t \in Importers : pc[t] = "idle"
      /\ \A t \in Workers : pc[t] = "off"
  BY RestIsFree DEF Init, Threads
<1>4. version \in Versions /\ copy \in [Workers -> Versions]
  BY BoundsAssumption DEF Init, Versions
<1>5. /\ print \in [Workers -> Versions \cup {NoRecord}]
      /\ snapshots \in Seq(Versions)
      /\ recorded \in Versions \cup {NoRecord}
      /\ pending \in BOOLEAN /\ running \in BOOLEAN /\ excused \in BOOLEAN
  BY EmptySeq DEF Init
<1>6. TypeOK
  BY <1>2, <1>3, <1>4, <1>5, Zenon DEF TypeOK, Owning, Copying
<1> QED BY <1>1, <1>6 DEF FlagInv, OneOwner, OwnerRuns, RunningOwned, PendingIsNoticed, Init

(* A step of one thread leaves the places of the others.                   *)
LEMMA FlagInvStep ==
    ASSUME FlagInv, [Next]_vars
    PROVE  FlagInv'
<1> USE DEF Go, flags, work, disk
<1>0. /\ TypeOK /\ OneOwner /\ OwnerRuns /\ RunningOwned /\ PendingIsNoticed
      /\ Threads = Importers \cup Workers
      /\ Importers \cap Workers = {}
  BY ThreadsAssumption DEF FlagInv, Threads
<1>1. ASSUME NEW t \in Importers, Commit(t) PROVE FlagInv'
  <2>1. TypeOK'
    <3>1. version' \in Versions
      BY <1>0, <1>1, BoundsAssumption DEF Commit, TypeOK, Versions
    <3> QED BY <1>0, <1>1, <3>1 DEF Commit, TypeOK, Labels
  <2>2. OneOwner' /\ OwnerRuns'
    BY <1>0, <1>1 DEF Commit, TypeOK, OneOwner, OwnerRuns
  <2>3. RunningOwned'
    BY <1>0, <1>1 DEF Commit, TypeOK, OneOwner, OwnerRuns, RunningOwned
  <2>4. PendingIsNoticed'
    BY <1>0, <1>1 DEF Commit, TypeOK, OneOwner, OwnerRuns, RunningOwned, PendingIsNoticed
  <2> QED BY <2>1, <2>2, <2>3, <2>4 DEF FlagInv
<1>2. ASSUME NEW t \in Importers, CommitUnasked(t) PROVE FlagInv'
  <2>1. TypeOK'
    <3>1. version' \in Versions
      BY <1>0, <1>2, BoundsAssumption DEF CommitUnasked, TypeOK, Versions
    <3> QED BY <1>0, <1>2, <3>1 DEF CommitUnasked, TypeOK
  <2>2. OneOwner' /\ OwnerRuns'
    BY <1>0, <1>2 DEF CommitUnasked, TypeOK, OneOwner, OwnerRuns
  <2>3. RunningOwned'
    BY <1>0, <1>2 DEF CommitUnasked, TypeOK, OneOwner, OwnerRuns, RunningOwned
  <2>4. PendingIsNoticed'
    BY <1>0, <1>2 DEF CommitUnasked, TypeOK, OneOwner, OwnerRuns, RunningOwned, PendingIsNoticed
  <2> QED BY <2>1, <2>2, <2>3, <2>4 DEF FlagInv
<1>3. ASSUME NEW t \in Threads, Mark(t) PROVE FlagInv'
  BY <1>0, <1>3 DEF Mark, FlagInv, TypeOK, OneOwner, OwnerRuns, RunningOwned, PendingIsNoticed, Labels
<1>4. ASSUME NEW t \in Threads, Claim(t) PROVE FlagInv'
  <2>0. PICK r : /\ r = Rest(t) /\ r \in {"idle", "off"}
                 /\ t \in Importers => r = "idle"
                 /\ t \in Workers => r = "off"
    BY RestIsFree
  <2>1. TypeOK'
    BY <1>0, <1>4, <2>0 DEF Claim, TypeOK, Labels
  <2>2. OneOwner' /\ OwnerRuns'
    BY <1>0, <1>4, <2>0 DEF Claim, TypeOK, OneOwner, OwnerRuns
  <2>3. RunningOwned'
    BY <1>0, <1>4, <2>0 DEF Claim, TypeOK, OneOwner, OwnerRuns, RunningOwned
  <2>4. PendingIsNoticed'
    BY <1>0, <1>4, <2>0 DEF Claim, TypeOK, OneOwner, OwnerRuns, RunningOwned, PendingIsNoticed
  <2> QED BY <2>1, <2>2, <2>3, <2>4 DEF FlagInv
<1>5. ASSUME NEW t \in Threads, Spawn(t) PROVE FlagInv'
  <2>0. PICK r : /\ r = Rest(t) /\ r \in {"idle", "off"}
                 /\ t \in Importers => r = "idle"
                 /\ t \in Workers => r = "off"
    BY RestIsFree
  <2>1. TypeOK'
    BY <1>0, <1>5, <2>0 DEF Spawn, TypeOK, Labels
  <2>2. OneOwner' /\ OwnerRuns'
    BY <1>0, <1>5, <2>0 DEF Spawn, TypeOK, OneOwner, OwnerRuns
  <2>3. RunningOwned'
    BY <1>0, <1>5, <2>0 DEF Spawn, TypeOK, OneOwner, OwnerRuns, RunningOwned
  <2>4. PendingIsNoticed'
    BY <1>0, <1>5, <2>0 DEF Spawn, TypeOK, OneOwner, OwnerRuns, RunningOwned, PendingIsNoticed
  <2> QED BY <2>1, <2>2, <2>3, <2>4 DEF FlagInv
<1>6. ASSUME NEW t \in Threads, SpawnFails(t) PROVE FlagInv'
  BY <1>0, <1>6 DEF SpawnFails, FlagInv, TypeOK, OneOwner, OwnerRuns, RunningOwned, PendingIsNoticed, Labels
<1>7. ASSUME NEW t \in Threads, Unclaim(t) PROVE FlagInv'
  BY <1>0, <1>7 DEF Unclaim, FlagInv, TypeOK, OneOwner, OwnerRuns, RunningOwned, PendingIsNoticed, Labels
<1>8. ASSUME NEW t \in Threads, Unmark(t) PROVE FlagInv'
  <2>0. PICK r : /\ r = Rest(t) /\ r \in {"idle", "off"}
                 /\ t \in Importers => r = "idle"
                 /\ t \in Workers => r = "off"
    BY RestIsFree
  <2>1. TypeOK'
    BY <1>0, <1>8, <2>0 DEF Unmark, TypeOK, Labels
  <2>2. OneOwner' /\ OwnerRuns'
    BY <1>0, <1>8, <2>0 DEF Unmark, TypeOK, OneOwner, OwnerRuns
  <2>3. RunningOwned'
    BY <1>0, <1>8, <2>0 DEF Unmark, TypeOK, OneOwner, OwnerRuns, RunningOwned
  <2>4. PendingIsNoticed'
    BY <1>0, <1>8, <2>0 DEF Unmark, TypeOK, OneOwner, OwnerRuns, RunningOwned, PendingIsNoticed
  <2> QED BY <2>1, <2>2, <2>3, <2>4 DEF FlagInv
<1>9. ASSUME NEW w \in Workers, TakePending(w) PROVE FlagInv'
  <2>1. TypeOK'
    BY <1>0, <1>9 DEF TakePending, TypeOK, Labels, Owning, Copying
  <2>2. OneOwner' /\ OwnerRuns'
    BY <1>0, <1>9 DEF TakePending, TypeOK, OneOwner, OwnerRuns, Owning, Copying
  <2>3. RunningOwned'
    BY <1>0, <1>9 DEF TakePending, TypeOK, RunningOwned, Owning, Copying, Threads
  <2>4. PendingIsNoticed'
    BY <1>9 DEF TakePending, PendingIsNoticed
  <2> QED BY <2>1, <2>2, <2>3, <2>4 DEF FlagInv
<1>10. ASSUME NEW w \in Workers, ReadFingerprint(w) PROVE FlagInv'
  <2>1. TypeOK'
    <3>1. print' \in [Workers -> Versions \cup {NoRecord}]
      BY <1>0, <1>10 DEF ReadFingerprint, TypeOK
    <3> QED BY <1>0, <1>10, <3>1 DEF ReadFingerprint, TypeOK, Labels
  <2>2. OneOwner' /\ OwnerRuns'
    BY <1>0, <1>10 DEF ReadFingerprint, TypeOK, OneOwner, OwnerRuns
  <2>3. RunningOwned'
    BY <1>0, <1>10 DEF ReadFingerprint, TypeOK, OneOwner, OwnerRuns, RunningOwned
  <2>4. PendingIsNoticed'
    BY <1>0, <1>10 DEF ReadFingerprint, TypeOK, OneOwner, OwnerRuns, RunningOwned, PendingIsNoticed
  <2> QED BY <2>1, <2>2, <2>3, <2>4 DEF FlagInv
<1>11. ASSUME NEW w \in Workers, Vacuum(w) PROVE FlagInv'
  BY <1>0, <1>11 DEF Vacuum, FlagInv, TypeOK, OneOwner, OwnerRuns, RunningOwned, PendingIsNoticed, Labels
<1>12. ASSUME NEW w \in Workers, Rename(w) PROVE FlagInv'
  BY <1>0, <1>12 DEF Rename, FlagInv, TypeOK, OneOwner, OwnerRuns, RunningOwned, PendingIsNoticed, Labels
<1>13. ASSUME NEW w \in Workers, Prune(w) PROVE FlagInv'
  <2>1. TypeOK'
    <3>1. snapshots' \in Seq(Versions)
      BY <1>0, <1>13, PruneKeepsNewest DEF TypeOK
    <3> QED BY <1>0, <1>13, <3>1 DEF Prune, TypeOK, Labels
  <2>2. OneOwner' /\ OwnerRuns'
    BY <1>0, <1>13 DEF Prune, TypeOK, OneOwner, OwnerRuns
  <2>3. RunningOwned'
    BY <1>0, <1>13 DEF Prune, TypeOK, OneOwner, OwnerRuns, RunningOwned
  <2>4. PendingIsNoticed'
    BY <1>0, <1>13 DEF Prune, TypeOK, OneOwner, OwnerRuns, RunningOwned, PendingIsNoticed
  <2> QED BY <2>1, <2>2, <2>3, <2>4 DEF FlagInv
<1>14. ASSUME NEW w \in Workers, Record(w) PROVE FlagInv'
  BY <1>0, <1>14 DEF Record, FlagInv, TypeOK, OneOwner, OwnerRuns, RunningOwned, PendingIsNoticed, Labels
<1>15. ASSUME NEW w \in Workers, PassFails(w) PROVE FlagInv'
  BY <1>0, <1>15 DEF PassFails, FlagInv, TypeOK, OneOwner, OwnerRuns, RunningOwned, PendingIsNoticed, Labels
<1>16. ASSUME NEW w \in Workers, Stop(w) PROVE FlagInv'
  BY <1>0, <1>16 DEF Stop, FlagInv, TypeOK, OneOwner, OwnerRuns, RunningOwned, PendingIsNoticed, Labels
<1>17. ASSUME NEW w \in Workers, Recheck(w) PROVE FlagInv'
  BY <1>0, <1>17 DEF Recheck, FlagInv, TypeOK, OneOwner, OwnerRuns, RunningOwned, PendingIsNoticed, Labels
<1>18. ASSUME Crash PROVE FlagInv'
  <2>1. /\ pc' \in [Threads -> Labels]
        /\ \A t \in Threads : pc'[t] \in {"idle", "off"}
        /\ \A t \in Importers : pc'[t] = "idle"
        /\ \A w \in Workers : pc'[w] = "off"
    BY <1>0, <1>18, RestIsFree DEF Crash
  <2>2. recorded' \in Versions \cup {NoRecord}
    BY <1>0, <1>18 DEF Crash, TypeOK
  <2>3. /\ pending' = FALSE /\ running' = FALSE /\ excused' = TRUE
        /\ UNCHANGED <<print, copy, version, snapshots>>
    BY <1>18 DEF Crash
  <2>4. TypeOK'
    BY <1>0, <2>1, <2>2, <2>3 DEF TypeOK
  <2> QED BY <2>1, <2>3, <2>4 DEF FlagInv, OneOwner, OwnerRuns, RunningOwned, PendingIsNoticed
<1>19. ASSUME UNCHANGED vars PROVE FlagInv'
  BY <1>0, <1>19 DEF vars, FlagInv, TypeOK, OneOwner, OwnerRuns, RunningOwned, PendingIsNoticed
<1> QED BY <1>1, <1>2, <1>3, <1>4, <1>5, <1>6, <1>7, <1>8, <1>9, <1>10, <1>11, <1>12, <1>13, <1>14, <1>15, <1>16, <1>17, <1>18, <1>19
  DEF Next, ThreadStep, CallerStep, WorkerStep, vars

LEMMA FlagInvariant == Spec => []FlagInv
<1>1. Init => FlagInv
  BY FlagInvInit
<1>2. FlagInv /\ [Next]_vars => FlagInv'
  BY FlagInvStep
<1> QED BY <1>1, <1>2, PTL DEF Spec

(* The flags, the files and the threads' places keep their types: no       *)
(* import runs the worker's loop, and no worker rests as an import.        *)
THEOREM SnapshotTyping == Spec => []TypeOK
<1>1. FlagInv => TypeOK
  BY DEF FlagInv
<1> QED BY <1>1, FlagInvariant, PTL

(* The swap of RUNNING admits one worker: two never copy or prune at once. *)
THEOREM OneWriter == Spec => []OneSnapshotWriter
<1>1. FlagInv => OneSnapshotWriter
  BY DEF FlagInv, OneOwner, OneSnapshotWriter, Threads
<1> QED BY <1>1, FlagInvariant, PTL

(* A pending request always has a thread that will see it, which is what   *)
(* the second look at PENDING is for.                                      *)
THEOREM RequestsAreNoticed == Spec => []PendingIsNoticed
<1>1. FlagInv => PendingIsNoticed
  BY DEF FlagInv
<1> QED BY <1>1, FlagInvariant, PTL

-----------------------------------------------------------------------------
(* The files.  A pass reads the fingerprint before it copies, so that what *)
(* is recorded is never newer than the copy it vouches for.                *)

Passing == {"vacuum", "rename", "prune", "record"}
Copied == {"prune", "record"}

(* A request is made, or is being made, or a pass has yet to look.         *)
Dirty ==
    \/ excused
    \/ pending
    \/ \E t \in Threads : pc[t] = "mark"
    \/ \E w \in Workers : pc[w] = "fingerprint"

NewestIsPast == snapshots # <<>> => Newest =< version
CopyIsPast == \A w \in Workers : copy[w] =< version
CopyIsNewer == \A w \in Workers : pc[w] = "rename" /\ snapshots # <<>> => Newest =< copy[w]
CopyIsNewest == \A w \in Workers : pc[w] \in Copied => snapshots # <<>> /\ Newest = copy[w]
PrintIsOlder ==
    \A w \in Workers :
        /\ pc[w] = "vacuum" => print[w] \in Versions /\ print[w] =< version
        /\ pc[w] \in {"rename"} \cup Copied => print[w] \in Versions /\ print[w] =< copy[w]
RecordIsOlder ==
    recorded # NoRecord => snapshots # <<>> /\ recorded \in Versions /\ recorded =< Newest

FileInv ==
    NewestIsPast /\ CopyIsPast /\ CopyIsNewer /\ CopyIsNewest /\ PrintIsOlder /\ RecordIsOlder

LEMMA FileInvInit == Init => FileInv
<1> SUFFICES ASSUME Init PROVE FileInv
  OBVIOUS
<1>1. \A w \in Workers : pc[w] = "off"
  <2> TAKE w \in Workers
  <2> QED BY RestIsFree DEF Init, Threads
<1>2. NewestIsPast /\ RecordIsOlder
  BY DEF Init, NewestIsPast, RecordIsOlder
<1>3. CopyIsPast
  BY DEF Init, CopyIsPast
<1>4. CopyIsNewer /\ CopyIsNewest /\ PrintIsOlder
  BY <1>1 DEF CopyIsNewer, CopyIsNewest, PrintIsOlder, Copied
<1> QED BY <1>2, <1>3, <1>4 DEF FileInv

(* What is read of a sequence of versions.                                 *)
LEMMA NewestIsVersion ==
    ASSUME TypeOK
    PROVE  /\ snapshots # <<>> => Newest \in Versions
           /\ \A v \in Versions : v \in Nat
           /\ version \in Versions
           /\ \A w \in Workers : copy[w] \in Versions
<1>1. /\ version \in Versions
      /\ \A w \in Workers : copy[w] \in Versions
      /\ snapshots \in Seq(Versions)
  BY DEF TypeOK
<1>2. \A v \in Versions : v \in Nat
  BY BoundsAssumption DEF Versions
<1>3. snapshots # <<>> => Newest \in Versions
  BY <1>1, LenProperties, ElementOfSeq, EmptySeq DEF Newest
<1> QED BY <1>1, <1>2, <1>3

(* Rename adds a copy at least as new as the newest file, Prune keeps the   *)
(* newest file, and the other steps leave the files as they are.           *)
LEMMA FileInvStep ==
    ASSUME FlagInv, FileInv, [Next]_vars
    PROVE  FileInv'
<1> USE DEF Go, flags, work, disk
<1>0. /\ TypeOK /\ OneOwner
      /\ NewestIsPast /\ CopyIsPast /\ CopyIsNewer /\ CopyIsNewest /\ PrintIsOlder /\ RecordIsOlder
      /\ Workers \subseteq Threads
      /\ snapshots # <<>> => Newest \in Versions
      /\ \A v \in Versions : v \in Nat
      /\ version \in Versions
      /\ \A w \in Workers : copy[w] \in Versions
  BY NewestIsVersion DEF FlagInv, FileInv, Threads
<1>1. ASSUME NEW t \in Importers, Commit(t) PROVE FileInv'
  <2>1. NewestIsPast'
    BY <1>0, <1>1 DEF Commit, TypeOK, NewestIsPast, Newest
  <2>2. CopyIsPast'
    BY <1>0, <1>1 DEF Commit, TypeOK, CopyIsPast
  <2>3. CopyIsNewer'
    BY <1>0, <1>1 DEF Commit, TypeOK, CopyIsNewer, Newest
  <2>4. CopyIsNewest'
    BY <1>0, <1>1 DEF Commit, TypeOK, CopyIsNewest, Copied, Newest
  <2>5. PrintIsOlder'
    BY <1>0, <1>1 DEF Commit, TypeOK, PrintIsOlder, Copied
  <2>6. RecordIsOlder'
    BY <1>0, <1>1 DEF Commit, TypeOK, RecordIsOlder, Newest
  <2> QED BY <2>1, <2>2, <2>3, <2>4, <2>5, <2>6 DEF FileInv
<1>2. ASSUME NEW t \in Importers, CommitUnasked(t) PROVE FileInv'
  <2>1. NewestIsPast'
    BY <1>0, <1>2 DEF CommitUnasked, TypeOK, NewestIsPast, Newest
  <2>2. CopyIsPast'
    BY <1>0, <1>2 DEF CommitUnasked, TypeOK, CopyIsPast
  <2>3. CopyIsNewer'
    BY <1>0, <1>2 DEF CommitUnasked, TypeOK, CopyIsNewer, Newest
  <2>4. CopyIsNewest'
    BY <1>0, <1>2 DEF CommitUnasked, TypeOK, CopyIsNewest, Copied, Newest
  <2>5. PrintIsOlder'
    BY <1>0, <1>2 DEF CommitUnasked, TypeOK, PrintIsOlder, Copied
  <2>6. RecordIsOlder'
    BY <1>0, <1>2 DEF CommitUnasked, TypeOK, RecordIsOlder, Newest
  <2> QED BY <2>1, <2>2, <2>3, <2>4, <2>5, <2>6 DEF FileInv
<1>3. ASSUME NEW t \in Threads, Mark(t) PROVE FileInv'
  BY <1>0, <1>3, RestIsFree DEF Mark, FileInv, TypeOK, NewestIsPast, CopyIsPast, CopyIsNewer, CopyIsNewest, PrintIsOlder, RecordIsOlder, Newest, Copied
<1>4. ASSUME NEW t \in Threads, Claim(t) PROVE FileInv'
  BY <1>0, <1>4, RestIsFree DEF Claim, FileInv, TypeOK, NewestIsPast, CopyIsPast, CopyIsNewer, CopyIsNewest, PrintIsOlder, RecordIsOlder, Newest, Copied
<1>5. ASSUME NEW t \in Threads, Spawn(t) PROVE FileInv'
  BY <1>0, <1>5, RestIsFree DEF Spawn, FileInv, TypeOK, NewestIsPast, CopyIsPast, CopyIsNewer, CopyIsNewest, PrintIsOlder, RecordIsOlder, Newest, Copied
<1>6. ASSUME NEW t \in Threads, SpawnFails(t) PROVE FileInv'
  BY <1>0, <1>6, RestIsFree DEF SpawnFails, FileInv, TypeOK, NewestIsPast, CopyIsPast, CopyIsNewer, CopyIsNewest, PrintIsOlder, RecordIsOlder, Newest, Copied
<1>7. ASSUME NEW t \in Threads, Unclaim(t) PROVE FileInv'
  BY <1>0, <1>7, RestIsFree DEF Unclaim, FileInv, TypeOK, NewestIsPast, CopyIsPast, CopyIsNewer, CopyIsNewest, PrintIsOlder, RecordIsOlder, Newest, Copied
<1>8. ASSUME NEW t \in Threads, Unmark(t) PROVE FileInv'
  BY <1>0, <1>8, RestIsFree DEF Unmark, FileInv, TypeOK, NewestIsPast, CopyIsPast, CopyIsNewer, CopyIsNewest, PrintIsOlder, RecordIsOlder, Newest, Copied
<1>9. ASSUME NEW w \in Workers, TakePending(w) PROVE FileInv'
  BY <1>0, <1>9, RestIsFree DEF TakePending, FileInv, TypeOK, NewestIsPast, CopyIsPast, CopyIsNewer, CopyIsNewest, PrintIsOlder, RecordIsOlder, Newest, Copied
<1>10. ASSUME NEW w \in Workers, ReadFingerprint(w) PROVE FileInv'
  <2>1. NewestIsPast'
    BY <1>0, <1>10 DEF ReadFingerprint, TypeOK, NewestIsPast, Newest
  <2>2. CopyIsPast'
    BY <1>0, <1>10 DEF ReadFingerprint, TypeOK, CopyIsPast
  <2>3. CopyIsNewer'
    BY <1>0, <1>10 DEF ReadFingerprint, TypeOK, CopyIsNewer, Newest
  <2>4. CopyIsNewest'
    BY <1>0, <1>10 DEF ReadFingerprint, TypeOK, CopyIsNewest, Copied, Newest
  <2>5. PrintIsOlder'
    BY <1>0, <1>10 DEF ReadFingerprint, TypeOK, PrintIsOlder, Copied
  <2>6. RecordIsOlder'
    BY <1>0, <1>10 DEF ReadFingerprint, TypeOK, RecordIsOlder, Newest
  <2> QED BY <2>1, <2>2, <2>3, <2>4, <2>5, <2>6 DEF FileInv
<1>11. ASSUME NEW w \in Workers, Vacuum(w) PROVE FileInv'
  <2>1. NewestIsPast'
    BY <1>0, <1>11 DEF Vacuum, TypeOK, NewestIsPast, Newest
  <2>2. CopyIsPast'
    BY <1>0, <1>11 DEF Vacuum, TypeOK, CopyIsPast
  <2>3. CopyIsNewer'
    <3>1. snapshots' = snapshots /\ Newest' = Newest
      BY <1>11 DEF Vacuum, Newest
    <3>2. copy'[w] = version
      BY <1>0, <1>11 DEF Vacuum, TypeOK
    <3>3. \A v \in Workers \ {w} : pc'[v] = pc[v] /\ copy'[v] = copy[v]
      BY <1>0, <1>11 DEF Vacuum, TypeOK
    <3> QED BY <1>0, <3>1, <3>2, <3>3 DEF CopyIsNewer, NewestIsPast
  <2>4. CopyIsNewest'
    BY <1>0, <1>11 DEF Vacuum, TypeOK, CopyIsNewest, Copied, Newest
  <2>5. PrintIsOlder'
    BY <1>0, <1>11 DEF Vacuum, TypeOK, PrintIsOlder, Copied
  <2>6. RecordIsOlder'
    BY <1>0, <1>11 DEF Vacuum, TypeOK, RecordIsOlder, Newest
  <2> QED BY <2>1, <2>2, <2>3, <2>4, <2>5, <2>6 DEF FileInv
<1>12. ASSUME NEW w \in Workers, Rename(w) PROVE FileInv'
  <2>0. /\ snapshots' # <<>>
        /\ Newest' = copy[w]
        /\ version' = version /\ recorded' = recorded /\ copy[w] =< version
    BY <1>0, <1>12, AppendProperties DEF Rename, TypeOK, Newest, CopyIsPast
  <2>9. \A v \in Workers : pc[v] \in {"rename"} \cup Copied => v = w
    BY <1>0, <1>12 DEF Rename, OneOwner, Copied
  <2>1. NewestIsPast'
    BY <2>0 DEF NewestIsPast
  <2>2. CopyIsPast'
    BY <1>0, <1>12, <2>0, <2>9 DEF Rename, TypeOK, CopyIsPast
  <2>3. CopyIsNewer'
    BY <1>0, <1>12, <2>0, <2>9 DEF Rename, TypeOK, CopyIsNewer
  <2>4. CopyIsNewest'
    BY <1>0, <1>12, <2>0, <2>9 DEF Rename, TypeOK, CopyIsNewest, Copied
  <2>5. PrintIsOlder'
    BY <1>0, <1>12, <2>0, <2>9 DEF Rename, TypeOK, PrintIsOlder, Copied
  <2>6. RecordIsOlder'
    <3> SUFFICES ASSUME recorded # NoRecord
                 PROVE  recorded \in Versions /\ recorded =< copy[w]
      BY <2>0 DEF RecordIsOlder
    <3>1. recorded \in Versions /\ recorded =< Newest
      BY <1>0 DEF RecordIsOlder
    <3>2. snapshots # <<>> /\ Newest =< copy[w]
      BY <1>0, <1>12 DEF RecordIsOlder, CopyIsNewer, Rename
    <3> QED BY <1>0, <3>1, <3>2
  <2> QED BY <2>1, <2>2, <2>3, <2>4, <2>5, <2>6 DEF FileInv
<1>13. ASSUME NEW w \in Workers, Prune(w) PROVE FileInv'
  <2>0. snapshots # <<>> => /\ snapshots' # <<>>
                            /\ Newest' = Newest
    BY <1>0, <1>13, PruneKeepsNewest DEF TypeOK, Newest
  <2>9. /\ \A v \in Workers : pc[v] \in {"rename"} \cup Copied => v = w
         /\ snapshots # <<>> /\ Newest = copy[w]
    BY <1>0, <1>13 DEF Prune, OneOwner, Copied, CopyIsNewest
  <2>1. NewestIsPast'
    BY <1>0, <1>13, <2>0, <2>9 DEF Prune, NewestIsPast
  <2>2. CopyIsPast'
    BY <1>0, <1>13, <2>0, <2>9 DEF Prune, TypeOK, CopyIsPast
  <2>3. CopyIsNewer'
    BY <1>0, <1>13, <2>0, <2>9 DEF Prune, TypeOK, CopyIsNewer
  <2>4. CopyIsNewest'
    BY <1>0, <1>13, <2>0, <2>9 DEF Prune, TypeOK, CopyIsNewest, Copied
  <2>5. PrintIsOlder'
    BY <1>0, <1>13, <2>0, <2>9 DEF Prune, TypeOK, PrintIsOlder, Copied
  <2>6. RecordIsOlder'
    BY <1>0, <1>13, <2>0, <2>9 DEF Prune, TypeOK, RecordIsOlder
  <2> QED BY <2>1, <2>2, <2>3, <2>4, <2>5, <2>6 DEF FileInv
<1>14. ASSUME NEW w \in Workers, Record(w) PROVE FileInv'
  <2>0. /\ snapshots # <<>> /\ Newest = copy[w]
        /\ print[w] \in Versions /\ print[w] =< copy[w]
    BY <1>0, <1>14 DEF Record, CopyIsNewest, PrintIsOlder, Copied
  <2>1. NewestIsPast'
    BY <1>0, <1>14 DEF Record, TypeOK, NewestIsPast, Newest
  <2>2. CopyIsPast'
    BY <1>0, <1>14 DEF Record, TypeOK, CopyIsPast
  <2>3. CopyIsNewer'
    BY <1>0, <1>14 DEF Record, TypeOK, CopyIsNewer, Newest
  <2>4. CopyIsNewest'
    BY <1>0, <1>14 DEF Record, TypeOK, CopyIsNewest, Copied, Newest
  <2>5. PrintIsOlder'
    BY <1>0, <1>14 DEF Record, TypeOK, PrintIsOlder, Copied
  <2>6. RecordIsOlder'
    BY <1>0, <1>14, <2>0 DEF Record, TypeOK, RecordIsOlder, Newest
  <2> QED BY <2>1, <2>2, <2>3, <2>4, <2>5, <2>6 DEF FileInv
<1>15. ASSUME NEW w \in Workers, PassFails(w) PROVE FileInv'
  BY <1>0, <1>15, RestIsFree DEF PassFails, FileInv, TypeOK, NewestIsPast, CopyIsPast, CopyIsNewer, CopyIsNewest, PrintIsOlder, RecordIsOlder, Newest, Copied
<1>16. ASSUME NEW w \in Workers, Stop(w) PROVE FileInv'
  BY <1>0, <1>16, RestIsFree DEF Stop, FileInv, TypeOK, NewestIsPast, CopyIsPast, CopyIsNewer, CopyIsNewest, PrintIsOlder, RecordIsOlder, Newest, Copied
<1>17. ASSUME NEW w \in Workers, Recheck(w) PROVE FileInv'
  BY <1>0, <1>17, RestIsFree DEF Recheck, FileInv, TypeOK, NewestIsPast, CopyIsPast, CopyIsNewer, CopyIsNewest, PrintIsOlder, RecordIsOlder, Newest, Copied
<1>18. ASSUME Crash PROVE FileInv'
  <2>0. \A w \in Workers : pc'[w] \in {"idle", "off"}
    BY <1>0, <1>18, RestIsFree DEF Crash
  <2> QED BY <1>0, <1>18, <2>0 DEF Crash, FileInv, TypeOK, NewestIsPast, CopyIsPast, CopyIsNewer, CopyIsNewest, PrintIsOlder, RecordIsOlder, Newest, Copied
<1>19. ASSUME UNCHANGED vars PROVE FileInv'
  BY <1>0, <1>19 DEF vars, FileInv, NewestIsPast, CopyIsPast, CopyIsNewer, CopyIsNewest, PrintIsOlder, RecordIsOlder, Newest
<1> QED BY <1>1, <1>2, <1>3, <1>4, <1>5, <1>6, <1>7, <1>8, <1>9, <1>10, <1>11, <1>12, <1>13, <1>14, <1>15, <1>16, <1>17, <1>18, <1>19
  DEF Next, ThreadStep, CallerStep, WorkerStep, vars

LEMMA FileInvariant == Spec => [](FlagInv /\ FileInv)
<1>1. Init => FlagInv /\ FileInv
  BY FlagInvInit, FileInvInit
<1>2. FlagInv /\ FileInv /\ [Next]_vars => FlagInv' /\ FileInv'
  BY FlagInvStep, FileInvStep
<1> QED BY <1>1, <1>2, PTL DEF Spec

(* No step, a crash included, leaves the folder without a snapshot it had, *)
(* or with an older one as its newest.                                     *)
THEOREM RecoveryNeverGoesBack == Spec => SnapshotsGrowNewer
<1> DEFINE Grows == snapshots # <<>> =>
                       /\ snapshots' # <<>>
                       /\ snapshots'[Len(snapshots')] >= snapshots[Len(snapshots)]
<1>1. ASSUME FlagInv, FileInv, [Next]_vars PROVE [Grows]_vars
  <2> SUFFICES ASSUME snapshots # <<>> PROVE snapshots' # <<>> /\ Newest' >= Newest
    BY DEF Newest
  <2>0. Newest \in Nat /\ TypeOK /\ \A w \in Workers : copy[w] \in Nat
    BY NewestIsVersion, <1>1 DEF FlagInv
  <2>1. CASE snapshots' = snapshots
    BY <2>0, <2>1 DEF Newest
  <2>2. ASSUME NEW w \in Workers, Rename(w) PROVE snapshots' # <<>> /\ Newest' >= Newest
    <3>1. snapshots' # <<>> /\ Newest' = copy[w]
      BY <2>0, <2>2, AppendProperties DEF Rename, TypeOK, Newest
    <3>2. Newest =< copy[w]
      BY <1>1, <2>2 DEF FileInv, CopyIsNewer, Rename, Go
    <3> QED BY <2>0, <3>1, <3>2
  <2>3. ASSUME NEW w \in Workers, Prune(w) PROVE snapshots' # <<>> /\ Newest' >= Newest
    <3>1. snapshots' # <<>> /\ Newest' = Newest
      BY <2>0, <2>3, PruneKeepsNewest DEF TypeOK, Newest
    <3> QED BY <2>0, <3>1
  <2> QED BY <1>1, <2>1, <2>2, <2>3
    DEF Next, ThreadStep, CallerStep, WorkerStep, Commit, CommitUnasked, Mark, Claim, Spawn,
        SpawnFails, Unclaim, Unmark, TakePending, ReadFingerprint, Vacuum, Record, PassFails,
        Stop, Recheck, Crash, vars, flags, work, disk
<1> QED BY <1>1, FileInvariant, PTL DEF Spec, SnapshotsGrowNewer

-----------------------------------------------------------------------------
(* The newest snapshot, whatever catalogs return.                          *)

(* A pass that nothing has overtaken has read the fingerprint of the       *)
(* present version, and without one the record is of the present catalog.  *)
PassIsCurrent ==
    \A w \in Workers : pc[w] \in Passing => Dirty \/ print[w] = version
RestIsCurrent ==
    ~Dirty =>
        \/ \E w \in Workers : pc[w] \in Passing
        \/ /\ snapshots # <<>> /\ recorded # NoRecord
           /\ Fingerprint[recorded] = Fingerprint[version]

CatalogInv == PassIsCurrent /\ RestIsCurrent

(* Most steps lead to a Dirty state, or leave the pass, its fingerprint    *)
(* and the files as they were.  Only ReadFingerprint and Record decide.    *)
LEMMA CatalogInvStep ==
    ASSUME FlagInv, FileInv, CatalogInv, [Next]_vars
    PROVE  CatalogInv'
<1> USE DEF Go, flags, work, disk
<1>0. /\ TypeOK /\ OneOwner /\ PassIsCurrent /\ RestIsCurrent
      /\ Threads = Importers \cup Workers
      /\ snapshots # <<>> => Newest \in Versions
      /\ \A v \in Versions : v \in Nat
      /\ version \in Versions
      /\ \A w \in Workers : copy[w] \in Versions
  BY NewestIsVersion DEF FlagInv, CatalogInv, Threads
<1>1. ASSUME Dirty' PROVE CatalogInv'
  BY <1>1 DEF CatalogInv, PassIsCurrent, RestIsCurrent
<1>2. ASSUME NEW t \in Importers, Commit(t) PROVE CatalogInv'
  BY <1>0, <1>1, <1>2 DEF Commit, TypeOK, Dirty
<1>3. ASSUME NEW t \in Importers, CommitUnasked(t) PROVE CatalogInv'
  BY <1>0, <1>1, <1>3 DEF CommitUnasked, TypeOK, Dirty
<1>4. ASSUME NEW t \in Threads, Mark(t) PROVE CatalogInv'
  BY <1>0, <1>1, <1>4 DEF Mark, TypeOK, Dirty
<1>5. ASSUME NEW t \in Threads, Claim(t) PROVE CatalogInv'
  <2>0. Rest(t) \in {"idle", "off"}
    BY RestIsFree
  <2>1. ~Dirty' => ~Dirty
    BY <1>0, <1>5, <2>0 DEF Claim, TypeOK, Dirty
  <2>2. \A u \in Workers : pc[u] \in Passing <=> pc'[u] \in Passing
    BY <1>0, <1>5, <2>0 DEF Claim, TypeOK, Passing
  <2>3. version' = version /\ print' = print /\ recorded' = recorded /\ Newest' = Newest /\ snapshots' = snapshots
    BY <1>5 DEF Claim, Newest
  <2> QED BY <1>0, <2>1, <2>2, <2>3 DEF CatalogInv, PassIsCurrent, RestIsCurrent
<1>6. ASSUME NEW t \in Threads, Spawn(t) PROVE CatalogInv'
  <2>0. Rest(t) \in {"idle", "off"}
    BY RestIsFree
  <2>1. ~Dirty' => ~Dirty
    BY <1>0, <1>6, <2>0 DEF Spawn, TypeOK, Dirty
  <2>2. \A u \in Workers : pc[u] \in Passing <=> pc'[u] \in Passing
    BY <1>0, <1>6, <2>0 DEF Spawn, TypeOK, Passing
  <2>3. version' = version /\ print' = print /\ recorded' = recorded /\ Newest' = Newest /\ snapshots' = snapshots
    BY <1>6 DEF Spawn, Newest
  <2> QED BY <1>0, <2>1, <2>2, <2>3 DEF CatalogInv, PassIsCurrent, RestIsCurrent
<1>7. ASSUME NEW t \in Threads, SpawnFails(t) PROVE CatalogInv'
  <2>1. ~Dirty' => ~Dirty
    BY <1>0, <1>7 DEF SpawnFails, TypeOK, Dirty
  <2>2. \A u \in Workers : pc[u] \in Passing <=> pc'[u] \in Passing
    BY <1>0, <1>7 DEF SpawnFails, TypeOK, Passing
  <2>3. version' = version /\ print' = print /\ recorded' = recorded /\ Newest' = Newest /\ snapshots' = snapshots
    BY <1>7 DEF SpawnFails, Newest
  <2> QED BY <1>0, <2>1, <2>2, <2>3 DEF CatalogInv, PassIsCurrent, RestIsCurrent
<1>8. ASSUME NEW t \in Threads, Unclaim(t) PROVE CatalogInv'
  <2>1. ~Dirty' => ~Dirty
    BY <1>0, <1>8 DEF Unclaim, TypeOK, Dirty
  <2>2. \A u \in Workers : pc[u] \in Passing <=> pc'[u] \in Passing
    BY <1>0, <1>8 DEF Unclaim, TypeOK, Passing
  <2>3. version' = version /\ print' = print /\ recorded' = recorded /\ Newest' = Newest /\ snapshots' = snapshots
    BY <1>8 DEF Unclaim, Newest
  <2> QED BY <1>0, <2>1, <2>2, <2>3 DEF CatalogInv, PassIsCurrent, RestIsCurrent
<1>9. ASSUME NEW t \in Threads, Unmark(t) PROVE CatalogInv'
  BY <1>0, <1>1, <1>9 DEF Unmark, TypeOK, Dirty
<1>10. ASSUME NEW w \in Workers, TakePending(w) PROVE CatalogInv'
  <2>1. CASE pending
    BY <1>0, <1>1, <1>10, <2>1 DEF TakePending, TypeOK, Dirty
  <2>2. CASE ~pending
    <3>1. ~Dirty' => ~Dirty
      BY <1>0, <1>10, <2>2 DEF TakePending, TypeOK, Dirty
    <3>2. \A u \in Workers : pc[u] \in Passing <=> pc'[u] \in Passing
      BY <1>0, <1>10, <2>2 DEF TakePending, TypeOK, Passing
    <3>3. version' = version /\ print' = print /\ recorded' = recorded /\ Newest' = Newest /\ snapshots' = snapshots
      BY <1>10 DEF TakePending, Newest
    <3> QED BY <1>0, <3>1, <3>2, <3>3 DEF CatalogInv, PassIsCurrent, RestIsCurrent
  <2> QED BY <2>1, <2>2
<1>11. ASSUME NEW w \in Workers, ReadFingerprint(w) PROVE CatalogInv'
  <2> DEFINE unchanged == /\ snapshots # <<>> /\ recorded # NoRecord
                          /\ Fingerprint[recorded] = Fingerprint[version]
  <2>1. /\ print'[w] = version
        /\ version' = version /\ recorded' = recorded /\ snapshots' = snapshots
    BY <1>0, <1>11 DEF ReadFingerprint, TypeOK
  <2>2. \A u \in Workers : pc'[u] \in Passing => u = w
    BY <1>0, <1>11 DEF ReadFingerprint, TypeOK, OneOwner, Passing
  <2>3. PassIsCurrent'
    BY <2>1, <2>2 DEF PassIsCurrent
  <2>4. CASE unchanged
    BY <2>1, <2>3, <2>4 DEF CatalogInv, RestIsCurrent
  <2>5. CASE ~unchanged
    <3>1. pc'[w] \in Passing
      BY <1>0, <1>11, <2>5 DEF ReadFingerprint, TypeOK, Passing
    <3> QED BY <2>3, <3>1 DEF CatalogInv, RestIsCurrent
  <2> QED BY <2>4, <2>5
<1>12. ASSUME NEW w \in Workers, Vacuum(w) PROVE CatalogInv'
  <2>1. ~Dirty' => ~Dirty
    BY <1>0, <1>12 DEF Vacuum, TypeOK, Dirty
  <2>2. /\ pc'[w] \in Passing
        /\ \A u \in Workers : pc[u] \in Passing <=> pc'[u] \in Passing
    BY <1>0, <1>12 DEF Vacuum, TypeOK, Passing
  <2>3. version' = version /\ print' = print
    BY <1>12 DEF Vacuum
  <2> QED BY <1>0, <2>1, <2>2, <2>3 DEF CatalogInv, PassIsCurrent, RestIsCurrent
<1>13. ASSUME NEW w \in Workers, Rename(w) PROVE CatalogInv'
  <2>1. ~Dirty' => ~Dirty
    BY <1>0, <1>13 DEF Rename, TypeOK, Dirty
  <2>2. /\ pc'[w] \in Passing
        /\ \A u \in Workers : pc[u] \in Passing <=> pc'[u] \in Passing
    BY <1>0, <1>13 DEF Rename, TypeOK, Passing
  <2>3. version' = version /\ print' = print
    BY <1>13 DEF Rename
  <2> QED BY <1>0, <2>1, <2>2, <2>3 DEF CatalogInv, PassIsCurrent, RestIsCurrent
<1>14. ASSUME NEW w \in Workers, Prune(w) PROVE CatalogInv'
  <2>1. ~Dirty' => ~Dirty
    BY <1>0, <1>14 DEF Prune, TypeOK, Dirty
  <2>2. /\ pc'[w] \in Passing
        /\ \A u \in Workers : pc[u] \in Passing <=> pc'[u] \in Passing
    BY <1>0, <1>14 DEF Prune, TypeOK, Passing
  <2>3. version' = version /\ print' = print
    BY <1>14 DEF Prune
  <2> QED BY <1>0, <2>1, <2>2, <2>3 DEF CatalogInv, PassIsCurrent, RestIsCurrent
<1>15. ASSUME NEW w \in Workers, Record(w) PROVE CatalogInv'
  <2>1. ~Dirty' => ~Dirty
    BY <1>0, <1>15 DEF Record, TypeOK, Dirty
  <2>2. \A u \in Workers : pc'[u] \notin Passing
    BY <1>0, <1>15 DEF Record, TypeOK, OneOwner, Passing
  <2>3. recorded' = print[w] /\ version' = version /\ Newest' = Newest /\ snapshots' = snapshots
    BY <1>15 DEF Record, Newest
  <2>4. snapshots # <<>>
    BY <1>15 DEF Record, FileInv, CopyIsNewest, Copied
  <2>5. ~Dirty => print[w] = version
    BY <1>0, <1>15 DEF Record, PassIsCurrent, Passing
  <2>6. version # NoRecord
    BY <1>0, FingerprintAssumption
  <2> QED BY <2>1, <2>2, <2>3, <2>4, <2>5, <2>6 DEF CatalogInv, PassIsCurrent, RestIsCurrent
<1>16. ASSUME NEW w \in Workers, PassFails(w) PROVE CatalogInv'
  BY <1>0, <1>1, <1>16 DEF PassFails, TypeOK, Dirty
<1>17. ASSUME NEW w \in Workers, Stop(w) PROVE CatalogInv'
  <2>1. ~Dirty' => ~Dirty
    BY <1>0, <1>17 DEF Stop, TypeOK, Dirty
  <2>2. \A u \in Workers : pc[u] \in Passing <=> pc'[u] \in Passing
    BY <1>0, <1>17 DEF Stop, TypeOK, Passing
  <2>3. version' = version /\ print' = print /\ recorded' = recorded /\ Newest' = Newest /\ snapshots' = snapshots
    BY <1>17 DEF Stop, Newest
  <2> QED BY <1>0, <2>1, <2>2, <2>3 DEF CatalogInv, PassIsCurrent, RestIsCurrent
<1>18. ASSUME NEW w \in Workers, Recheck(w) PROVE CatalogInv'
  <2>1. ~Dirty' => ~Dirty
    BY <1>0, <1>18 DEF Recheck, TypeOK, Dirty
  <2>2. \A u \in Workers : pc[u] \in Passing <=> pc'[u] \in Passing
    BY <1>0, <1>18 DEF Recheck, TypeOK, Passing
  <2>3. version' = version /\ print' = print /\ recorded' = recorded /\ Newest' = Newest /\ snapshots' = snapshots
    BY <1>18 DEF Recheck, Newest
  <2> QED BY <1>0, <2>1, <2>2, <2>3 DEF CatalogInv, PassIsCurrent, RestIsCurrent
<1>19. ASSUME Crash PROVE CatalogInv'
  BY <1>1, <1>19 DEF Crash, Dirty
<1>20. ASSUME UNCHANGED vars PROVE CatalogInv'
  BY <1>0, <1>20 DEF vars, CatalogInv, PassIsCurrent, RestIsCurrent, Dirty, Newest
<1> QED BY <1>2, <1>3, <1>4, <1>5, <1>6, <1>7, <1>8, <1>9, <1>10, <1>11, <1>12, <1>13, <1>14, <1>15, <1>16, <1>17, <1>18, <1>19, <1>20
  DEF Next, ThreadStep, CallerStep, WorkerStep, vars

(* When all threads rest and no snapshot was given up, the newest one is   *)
(* of the present catalog, for every Fingerprint: it is read before the    *)
(* copy, and only vouches for a copy at least as new.  If that copy is     *)
(* newer, the catalog has returned to what it was before the copy.         *)
THEOREM QuietSnapshot == Spec => []QuietSnapshotIsCurrent
<1>1. Init => CatalogInv
  <2> SUFFICES ASSUME Init PROVE CatalogInv
    OBVIOUS
  <2>1. Dirty
    BY DEF Init, Dirty
  <2> QED BY <2>1 DEF CatalogInv, PassIsCurrent, RestIsCurrent
<1>2. FlagInv /\ FileInv /\ CatalogInv /\ [Next]_vars => CatalogInv'
  BY CatalogInvStep
<1>3. FlagInv /\ FileInv /\ CatalogInv => QuietSnapshotIsCurrent
  <2> SUFFICES ASSUME FlagInv, FileInv, CatalogInv, Quiet, ~excused
               PROVE  /\ snapshots # <<>>
                      /\ Fingerprint[Newest] = Fingerprint[version] \/ CatalogReturned
    BY DEF QuietSnapshotIsCurrent
  <2>1. \A t \in Threads : pc[t] \in {"idle", "off"}
    BY RestIsFree DEF Quiet
  <2>2. ~Dirty /\ \A w \in Workers : pc[w] \notin Passing
    BY <2>1 DEF Dirty, Passing, Quiet, Threads
  <2>3. snapshots # <<>> /\ recorded # NoRecord /\ Fingerprint[recorded] = Fingerprint[version]
    BY <2>2 DEF CatalogInv, RestIsCurrent
  <2>4. recorded \in Nat /\ Newest \in Nat /\ recorded =< Newest
    BY <2>3, NewestIsVersion DEF FlagInv, FileInv, RecordIsOlder
  <2>5. CASE recorded = Newest
    BY <2>3, <2>5
  <2>6. CASE recorded < Newest
    BY <2>3, <2>6 DEF CatalogReturned
  <2> QED BY <2>3, <2>4, <2>5, <2>6
<1> QED BY <1>1, <1>2, <1>3, FileInvariant, PTL DEF Spec

-----------------------------------------------------------------------------
(* A pending request is taken up.  The provers know nothing of ENABLED;    *)
(* that no thread is stuck, ThreadsCanStep, is taken as a hypothesis.      *)

(* What a thread does while a request stays pending.                       *)
Fresh == {"spawn", "unclaim", "unmark", "loop"}
Goes(t) ==
    \/ pc'[t] = pc[t]
    \/ pc[t] \in {"idle", "off"}
    \/ pc[t] = "recheck" /\ pc'[t] = "mark"
    \/ pc[t] = "mark" /\ pc'[t] = "claim"
    \/ pc[t] = "claim" /\ (running \/ pc'[t] = "spawn")
    \/ pc[t] = "spawn" /\ (pc'[t] = "unclaim" \/ \E w \in Workers : pc'[w] = "loop")
    \/ pc[t] = "unclaim" /\ pc'[t] = "unmark"
    \/ pc[t] = "fingerprint" /\ pc'[t] \in {"vacuum", "loop"}
    \/ pc[t] = "vacuum" /\ pc'[t] \in {"rename", "loop"}
    \/ pc[t] = "rename" /\ pc'[t] \in {"prune", "loop"}
    \/ pc[t] = "prune" /\ pc'[t] \in {"record", "loop"}
    \/ pc[t] = "record" /\ pc'[t] = "loop"
    \/ pc[t] = "stop" /\ pc'[t] = "recheck" /\ ~running'

LEMMA CallerGoes ==
    ASSUME FlagInv, pending, pending', NEW u \in Threads, CallerStep(u), NEW t \in Threads
    PROVE  Goes(t)
<1> USE DEF Go, flags, work, disk
<1>0. TypeOK
  BY DEF FlagInv
<1>1. CASE Mark(u)
  BY <1>0, <1>1 DEF Mark, TypeOK, Goes
<1>2. CASE Claim(u)
  BY <1>0, <1>2 DEF Claim, TypeOK, Goes
<1>3. CASE Spawn(u)
  BY <1>0, <1>3 DEF Spawn, TypeOK, Goes, Threads
<1>4. CASE SpawnFails(u) \/ Unclaim(u)
  BY <1>0, <1>4 DEF SpawnFails, Unclaim, TypeOK, Goes
<1>5. CASE Unmark(u)
  BY <1>5 DEF Unmark
<1> QED BY <1>1, <1>2, <1>3, <1>4, <1>5 DEF CallerStep

LEMMA WorkerGoes ==
    ASSUME FlagInv, pending, pending', NEW u \in Workers, WorkerStep(u), NEW t \in Threads
    PROVE  Goes(t)
<1> USE DEF Go, flags, work, disk
<1>0. TypeOK /\ u \in Threads
  BY DEF FlagInv, Threads
<1>1. CASE TakePending(u)
  BY <1>1 DEF TakePending
<1>2. CASE ReadFingerprint(u)
  BY <1>0, <1>2 DEF ReadFingerprint, TypeOK, Goes
<1>3. CASE Vacuum(u) \/ Rename(u) \/ Prune(u) \/ Record(u)
  BY <1>0, <1>3 DEF Vacuum, Rename, Prune, Record, TypeOK, Goes
<1>4. CASE PassFails(u)
  BY <1>0, <1>4 DEF PassFails, TypeOK, Goes
<1>5. CASE Stop(u) \/ Recheck(u)
  BY <1>0, <1>5 DEF Stop, Recheck, TypeOK, Goes
<1> QED BY <1>1, <1>2, <1>3, <1>4, <1>5 DEF WorkerStep

LEMMA EveryoneGoes ==
    ASSUME FlagInv, pending, [Next]_vars, NEW t \in Threads
    PROVE  ~pending' \/ Goes(t)
<1> USE DEF Go, flags, work, disk
<1>1. ASSUME NEW u \in Importers, Commit(u), pending' PROVE Goes(t)
  BY <1>1 DEF FlagInv, TypeOK, Commit, Goes, Threads
<1>2. ASSUME NEW u \in Importers, CommitUnasked(u) PROVE Goes(t)
  BY <1>2 DEF CommitUnasked, Goes
<1>3. CASE Crash
  BY <1>3 DEF Crash
<1>4. CASE UNCHANGED vars
  BY <1>4 DEF vars, Goes
<1> QED BY <1>1, <1>2, <1>3, <1>4, CallerGoes, WorkerGoes DEF Next, ThreadStep

(* Nobody but a claimant sets RUNNING.                                     *)
LEMMA RunningIsClaimed ==
    ASSUME FlagInv, ~running, running', [Next]_vars
    PROVE  \E t \in Threads : pc'[t] = "spawn"
<1> USE DEF Go, flags, work, disk
<1>1. ASSUME NEW u \in Threads, CallerStep(u) PROVE pc'[u] = "spawn"
  <2>1. Claim(u)
    BY <1>1 DEF CallerStep, Mark, Spawn, SpawnFails, Unclaim, Unmark
  <2> QED BY <2>1 DEF Claim, FlagInv, TypeOK
<1>2. ASSUME NEW u \in Workers, WorkerStep(u) PROVE FALSE
  BY <1>2 DEF WorkerStep, TakePending, ReadFingerprint, Vacuum, Rename, Prune, Record, PassFails, Stop,
         Recheck
<1> QED BY <1>1, <1>2 DEF Next, ThreadStep, Commit, CommitUnasked, Crash, vars

(* The fairness and the hypothesis, thread by thread.                      *)
Live == FairSpec /\ []ThreadsCanStep

LEMMA CallerIsLive ==
    ASSUME NEW t \in Threads
    PROVE  Live => CallerIsFair(t) /\ []CallerCanStep(t)
<1>1. Fairness => CallerIsFair(t)
  BY DEF Fairness
<1>2. ThreadsCanStep => CallerCanStep(t)
  BY DEF ThreadsCanStep
<1> QED BY <1>1, <1>2, PTL DEF Live, FairSpec

LEMMA WorkerIsLive ==
    ASSUME NEW w \in Workers
    PROVE  Live => WorkerIsFair(w) /\ []WorkerCanStep(w)
<1>1. Fairness => WorkerIsFair(w)
  BY DEF Fairness
<1>2. ThreadsCanStep => WorkerCanStep(w)
  BY DEF ThreadsCanStep
<1> QED BY <1>1, <1>2, PTL DEF Live, FairSpec

LEMMA LiveInvariant == Live => [][Next]_vars /\ []FlagInv
BY FlagInvariant, PTL DEF Live, FairSpec, Spec

(* A worker that looks for a request finds it.                             *)
LEMMA LoopTakes ==
    ASSUME NEW w \in Workers
    PROVE  Live => (pending /\ pc[w] = "loop" ~> ~pending)
<1> DEFINE P == pending /\ pc[w] = "loop"
<1>1. FlagInv /\ P /\ [Next]_vars => P' \/ ~pending'
  BY EveryoneGoes DEF Goes, Threads
<1>2. P /\ <<WorkerStep(w)>>_vars => ~pending'
  BY DEF WorkerStep, TakePending, ReadFingerprint, Vacuum, Rename, Prune, Record, PassFails, Stop, Recheck, Go
<1>3. P /\ WorkerCanStep(w) => ENABLED <<WorkerStep(w)>>_vars
  BY DEF WorkerCanStep
<1> QED BY <1>1, <1>2, <1>3, WorkerIsLive, LiveInvariant, PTL DEF WorkerIsFair

(* A thread that could start no worker drops the request.                  *)
LEMMA UnmarkDrops ==
    ASSUME NEW t \in Threads
    PROVE  Live => (pending /\ pc[t] \in {"unclaim", "unmark"} ~> ~pending)
<1> DEFINE P == pending /\ pc[t] = "unclaim"
           Q == pending /\ pc[t] = "unmark"
<1>1. FlagInv /\ P /\ [Next]_vars => P' \/ Q' \/ ~pending'
  BY EveryoneGoes DEF Goes
<1>2. FlagInv /\ P /\ <<CallerStep(t)>>_vars => Q' \/ ~pending'
  BY DEF FlagInv, TypeOK, CallerStep, Mark, Claim, Spawn, SpawnFails, Unclaim, Unmark, Go
<1>3. FlagInv /\ Q /\ [Next]_vars => Q' \/ ~pending'
  BY EveryoneGoes DEF Goes
<1>4. Q /\ <<CallerStep(t)>>_vars => ~pending'
  BY DEF CallerStep, Mark, Claim, Spawn, SpawnFails, Unclaim, Unmark, Go
<1>5. (P \/ Q) /\ CallerCanStep(t) => ENABLED <<CallerStep(t)>>_vars
  BY DEF CallerCanStep, Calling
<1>6. pending /\ pc[t] \in {"unclaim", "unmark"} => P \/ Q
  OBVIOUS
<1> QED BY <1>1, <1>2, <1>3, <1>4, <1>5, <1>6, CallerIsLive, LiveInvariant, PTL DEF CallerIsFair

(* A claimant that found RUNNING clear starts a worker, or gives up.       *)
LEMMA SpawnLeads ==
    ASSUME NEW t \in Threads
    PROVE  Live => (pending /\ pc[t] = "spawn" ~> ~pending)
<1> DEFINE P == pending /\ pc[t] = "spawn"
           Q == pending /\ pc[t] \in {"unclaim", "unmark"}
           L(w) == pending /\ pc[w] = "loop"
           R == \E w \in Workers : L(w)
<1>1. FlagInv /\ P /\ [Next]_vars => P' \/ Q' \/ R' \/ ~pending'
  BY EveryoneGoes DEF Goes
<1>2. FlagInv /\ P /\ <<CallerStep(t)>>_vars => Q' \/ R' \/ ~pending'
  BY DEF FlagInv, TypeOK, CallerStep, Mark, Claim, Spawn, SpawnFails, Unclaim, Unmark, Go, Threads, flags
<1>3. P /\ CallerCanStep(t) => ENABLED <<CallerStep(t)>>_vars
  BY DEF CallerCanStep, Calling
<1>4. Live => \A w \in Workers : [](L(w) => <>~pending)
  <2>1. ASSUME NEW w \in Workers PROVE Live => [](L(w) => <>~pending)
    BY LoopTakes, PTL
  <2> QED BY <2>1
<1>5. (\A w \in Workers : [](L(w) => <>~pending)) => [](\A w \in Workers : (L(w) => <>~pending))
  OBVIOUS
<1>6. (\A w \in Workers : (L(w) => <>~pending)) => (R => <>~pending)
  OBVIOUS
<1>7. Live => (R ~> ~pending)
  BY <1>4, <1>5, <1>6, PTL
<1>8. Live => (Q ~> ~pending)
  BY UnmarkDrops
<1> QED BY <1>1, <1>2, <1>3, <1>7, <1>8, CallerIsLive, LiveInvariant, PTL DEF CallerIsFair

(* RUNNING is with a thread that has not looked for requests yet, or given *)
(* up by one that will drop the request.                                   *)
Starting(t) == pending /\ pc[t] \in {"spawn", "unclaim", "unmark"}
Looking(w) == pending /\ pc[w] = "loop"
FreshOwner == (\E t \in Threads : Starting(t)) \/ (\E w \in Workers : Looking(w))

LEMMA FreshTakes == Live => (FreshOwner ~> ~pending)
<1>1. Live => \A t \in Threads : [](Starting(t) => <>~pending)
  <2>1. ASSUME NEW t \in Threads PROVE Live => [](Starting(t) => <>~pending)
    <3>1. Starting(t) => (pending /\ pc[t] = "spawn") \/ (pending /\ pc[t] \in {"unclaim", "unmark"})
      BY DEF Starting
    <3> QED BY <3>1, SpawnLeads, UnmarkDrops, PTL
  <2> QED BY <2>1
<1>2. Live => \A w \in Workers : [](Looking(w) => <>~pending)
  <2>1. ASSUME NEW w \in Workers PROVE Live => [](Looking(w) => <>~pending)
    BY LoopTakes, PTL DEF Looking
  <2> QED BY <2>1
<1>3. (\A t \in Threads : [](Starting(t) => <>~pending)) => [](\A t \in Threads : (Starting(t) => <>~pending))
  OBVIOUS
<1>4. (\A w \in Workers : [](Looking(w) => <>~pending)) => [](\A w \in Workers : (Looking(w) => <>~pending))
  OBVIOUS
<1>5. /\ \A t \in Threads : (Starting(t) => <>~pending)
      /\ \A w \in Workers : (Looking(w) => <>~pending)
      => (FreshOwner => <>~pending)
  BY DEF FreshOwner
<1> QED BY <1>1, <1>2, <1>3, <1>4, <1>5, PTL

\* RUNNING is clear, and a thread is on its way to claim it.
Claiming(t) == pending /\ ~running /\ pc[t] \in {"mark", "claim"}
Rechecking(w) == pending /\ ~running /\ pc[w] = "recheck"

LEMMA ClearStays ==
    ASSUME FlagInv, pending, ~running, [Next]_vars
    PROVE  ~running' \/ FreshOwner' \/ ~pending'
BY RunningIsClaimed DEF FreshOwner, Starting

LEMMA ClaimingLeads ==
    ASSUME NEW t \in Threads
    PROVE  Live => (Claiming(t) ~> ~pending)
<1> DEFINE M == pending /\ ~running /\ pc[t] = "mark"
           C == pending /\ ~running /\ pc[t] = "claim"
<1>1. FlagInv /\ M /\ [Next]_vars => M' \/ C' \/ FreshOwner' \/ ~pending'
  BY ClearStays, EveryoneGoes DEF Goes
<1>2. FlagInv /\ C /\ [Next]_vars => C' \/ FreshOwner' \/ ~pending'
  BY ClearStays, EveryoneGoes DEF Goes, FreshOwner, Starting
<1>3. FlagInv /\ (M \/ C) /\ <<CallerStep(t)>>_vars => pc'[t] # pc[t]
  BY RestIsFree DEF FlagInv, TypeOK, CallerStep, Mark, Claim, Spawn, SpawnFails, Unclaim, Unmark, Go
<1>4. FlagInv /\ M /\ [Next]_vars /\ <<CallerStep(t)>>_vars => C' \/ FreshOwner' \/ ~pending'
  BY <1>1, <1>3
<1>5. FlagInv /\ C /\ [Next]_vars /\ <<CallerStep(t)>>_vars => FreshOwner' \/ ~pending'
  BY <1>2, <1>3
<1>6. (M \/ C) /\ CallerCanStep(t) => ENABLED <<CallerStep(t)>>_vars
  BY DEF CallerCanStep, Calling
<1>7. Live => (M ~> C \/ FreshOwner \/ ~pending)
  BY <1>1, <1>4, <1>6, CallerIsLive, LiveInvariant, PTL DEF CallerIsFair
<1>8. Live => (C ~> FreshOwner \/ ~pending)
  BY <1>2, <1>5, <1>6, CallerIsLive, LiveInvariant, PTL DEF CallerIsFair
<1>9. Claiming(t) => M \/ C
  BY DEF Claiming
<1> QED BY <1>7, <1>8, <1>9, FreshTakes, PTL

Claimant == \E t \in Threads : Claiming(t)
LEMMA ClaimantLeads == Live => (Claimant ~> ~pending)
<1>1. Live => \A t \in Threads : [](Claiming(t) => <>~pending)
  <2>1. ASSUME NEW t \in Threads PROVE Live => [](Claiming(t) => <>~pending)
    BY ClaimingLeads, PTL
  <2> QED BY <2>1
<1>2. (\A t \in Threads : [](Claiming(t) => <>~pending)) => [](\A t \in Threads : (Claiming(t) => <>~pending))
  OBVIOUS
<1>3. (\A t \in Threads : (Claiming(t) => <>~pending)) => (Claimant => <>~pending)
  BY DEF Claimant
<1> QED BY <1>1, <1>2, <1>3, PTL

LEMMA RecheckingLeads ==
    ASSUME NEW w \in Workers
    PROVE  Live => (Rechecking(w) ~> ~pending)
<1>0. w \in Threads
  BY DEF Threads
<1>1. FlagInv /\ Rechecking(w) /\ [Next]_vars => Rechecking(w)' \/ Claimant' \/ FreshOwner' \/ ~pending'
  BY <1>0, ClearStays, EveryoneGoes DEF Goes, Rechecking, Claimant, Claiming
<1>2. FlagInv /\ Rechecking(w) /\ <<WorkerStep(w)>>_vars => ~Rechecking(w)'
  BY <1>0 DEF FlagInv, TypeOK, WorkerStep, TakePending, ReadFingerprint, Vacuum, Rename, Prune, Record, PassFails,
              Stop, Recheck, Go, Rechecking
<1>3. Rechecking(w) /\ WorkerCanStep(w) => ENABLED <<WorkerStep(w)>>_vars
  BY DEF WorkerCanStep, Rechecking
<1> QED BY <1>1, <1>2, <1>3, ClaimantLeads, FreshTakes, WorkerIsLive, LiveInvariant, PTL DEF WorkerIsFair

(* RUNNING is with a worker at a pass it began before the request, or that *)
(* is about to stop: it comes back to look, or clears RUNNING and then     *)
(* looks once more.                                                        *)
Busy(w) == pending /\ pc[w] \in Passing \cup {"fingerprint", "stop"}

LEMMA BusyLeads ==
    ASSUME NEW w \in Workers
    PROVE  Live => (Busy(w) ~> ~pending)
<1> DEFINE At(label) == pending /\ pc[w] = label
<1>0. w \in Threads
  BY DEF Threads
<1>1. /\ FlagInv /\ At("fingerprint") /\ [Next]_vars => At("fingerprint")' \/ At("vacuum")' \/ FreshOwner' \/ ~pending'
      /\ FlagInv /\ At("vacuum") /\ [Next]_vars => At("vacuum")' \/ At("rename")' \/ FreshOwner' \/ ~pending'
      /\ FlagInv /\ At("rename") /\ [Next]_vars => At("rename")' \/ At("prune")' \/ FreshOwner' \/ ~pending'
      /\ FlagInv /\ At("prune") /\ [Next]_vars => At("prune")' \/ At("record")' \/ FreshOwner' \/ ~pending'
      /\ FlagInv /\ At("record") /\ [Next]_vars => At("record")' \/ FreshOwner' \/ ~pending'
  BY <1>0, EveryoneGoes DEF Goes, FreshOwner, Looking
<1>2. FlagInv /\ At("stop") /\ [Next]_vars => At("stop")' \/ Rechecking(w)' \/ ~pending'
  BY <1>0, EveryoneGoes DEF Goes, Rechecking
<1>3. FlagInv /\ Busy(w) /\ <<WorkerStep(w)>>_vars => pc'[w] # pc[w]
  BY <1>0 DEF FlagInv, TypeOK, WorkerStep, TakePending, ReadFingerprint, Vacuum, Rename, Prune, Record, PassFails,
              Stop, Recheck, Go, Busy, Passing
<1>4. Busy(w) <=> \/ At("fingerprint") \/ At("vacuum") \/ At("rename") \/ At("prune") \/ At("record") \/ At("stop")
  BY DEF Busy, Passing
<1>5. /\ At("fingerprint") /\ pc'[w] # pc[w] => ~At("fingerprint")'
      /\ At("vacuum") /\ pc'[w] # pc[w] => ~At("vacuum")'
      /\ At("rename") /\ pc'[w] # pc[w] => ~At("rename")'
      /\ At("prune") /\ pc'[w] # pc[w] => ~At("prune")'
      /\ At("record") /\ pc'[w] # pc[w] => ~At("record")'
      /\ At("stop") /\ pc'[w] # pc[w] => ~At("stop")'
  OBVIOUS
<1>6. Busy(w) /\ WorkerCanStep(w) => ENABLED <<WorkerStep(w)>>_vars
  BY DEF WorkerCanStep, Busy, Passing
<1>7. Live => (At("record") ~> FreshOwner \/ ~pending)
  BY <1>1, <1>3, <1>4, <1>5, <1>6, WorkerIsLive, LiveInvariant, PTL DEF WorkerIsFair
<1>8. Live => (At("prune") ~> At("record") \/ FreshOwner \/ ~pending)
  BY <1>1, <1>3, <1>4, <1>5, <1>6, WorkerIsLive, LiveInvariant, PTL DEF WorkerIsFair
<1>9. Live => (At("rename") ~> At("prune") \/ FreshOwner \/ ~pending)
  BY <1>1, <1>3, <1>4, <1>5, <1>6, WorkerIsLive, LiveInvariant, PTL DEF WorkerIsFair
<1>10. Live => (At("vacuum") ~> At("rename") \/ FreshOwner \/ ~pending)
  BY <1>1, <1>3, <1>4, <1>5, <1>6, WorkerIsLive, LiveInvariant, PTL DEF WorkerIsFair
<1>11. Live => (At("fingerprint") ~> At("vacuum") \/ FreshOwner \/ ~pending)
  BY <1>1, <1>3, <1>4, <1>5, <1>6, WorkerIsLive, LiveInvariant, PTL DEF WorkerIsFair
<1>12. Live => (At("stop") ~> Rechecking(w) \/ ~pending)
  BY <1>2, <1>3, <1>4, <1>5, <1>6, WorkerIsLive, LiveInvariant, PTL DEF WorkerIsFair
<1> QED BY <1>4, <1>7, <1>8, <1>9, <1>10, <1>11, <1>12, RecheckingLeads, FreshTakes, PTL

(* No request stays pending for ever, for any number of importing threads  *)
(* and workers, whatever fails: RUNNING is never left set by nobody        *)
(* (snapshot_after_import).                                                *)
THEOREM RequestsAreTaken == FairSpec /\ []ThreadsCanStep => PendingIsTaken
<1>1. Live => \A w \in Workers : [](Busy(w) \/ Rechecking(w) => <>~pending)
  <2>1. ASSUME NEW w \in Workers PROVE Live => [](Busy(w) \/ Rechecking(w) => <>~pending)
    BY BusyLeads, RecheckingLeads, PTL
  <2> QED BY <2>1
<1>2. (\A w \in Workers : [](Busy(w) \/ Rechecking(w) => <>~pending))
         => [](\A w \in Workers : (Busy(w) \/ Rechecking(w) => <>~pending))
  OBVIOUS
<1> DEFINE Old == \E w \in Workers : Busy(w) \/ Rechecking(w)
<1>3. (\A w \in Workers : (Busy(w) \/ Rechecking(w) => <>~pending)) => (Old => <>~pending)
  OBVIOUS
<1>4. FlagInv /\ pending => FreshOwner \/ Claimant \/ Old
  <2> SUFFICES ASSUME FlagInv, pending
               PROVE  FreshOwner \/ Claimant \/ Old
    OBVIOUS
  <2>1. PICK t \in Threads : pc[t] \in {"mark", "claim", "unmark", "recheck"} \cup Owning
                            /\ (running => pc[t] \in Owning)
    BY DEF FlagInv, PendingIsNoticed, RunningOwned
  <2>2. pc[t] \in Copying \cup {"recheck"} => t \in Workers
    BY DEF FlagInv, TypeOK, Threads
  <2> QED BY <2>1, <2>2 DEF FreshOwner, Starting, Looking, Claimant, Claiming, Rechecking, Busy, Passing
<1> QED BY <1>1, <1>2, <1>3, <1>4, FreshTakes, ClaimantLeads, LiveInvariant, PTL DEF Live, PendingIsTaken
=============================================================================
