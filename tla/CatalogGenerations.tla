------------------------- MODULE CatalogGenerations -------------------------
(***************************************************************************)
(* The catalog generations on disk (crates/backend/src/library/state.rs,   *)
(* persist_in_background, persist_cache_to and load_persisted_cache_from). *)
(*                                                                         *)
(* A catalog that is published to be kept is handed to a task of its own.  *)
(* The task sleeps, so that a newer publication can take its place, looks  *)
(* at the request counter, waits for the lock, looks again, and writes a   *)
(* file whose name carries the time.  A start loads the newest file that   *)
(* can be read.  Catalogs are known by the number of their request; the    *)
(* counter starts over with the process, but is only ever compared between *)
(* requests of one process, and so the numbers here go on.                 *)
(***************************************************************************)
EXTENDS Naturals, Sequences, FiniteSets

CONSTANTS
    MaxRequests,    \* how many catalogs are published at most
    MaxDamage       \* how many files the disk damages at most

ASSUME BoundsAssumption == MaxRequests \in Nat /\ MaxDamage \in Nat

Kept == 2
Requests == 1 .. MaxRequests
Nobody == 0

VARIABLES
    request,        \* CACHE_PERSIST_REQUEST
    task,           \* where the task of each request is
    lock,           \* the request that holds CACHE_PERSIST_LOCK
    generations,    \* the files, oldest name first
    written,        \* how many files have been written
    damaged,        \* how many the disk has damaged
    lost            \* was the file of the last request given up?

files == <<generations, written, damaged>>
vars == <<request, task, lock, files, lost>>

InFlight == {"sleeping", "queued", "writing", "renaming", "pruning"}
Locked == {"writing", "renaming", "pruning"}

Typed ==
    /\ request \in 0 .. MaxRequests
    /\ task \in [Requests -> InFlight \cup {"none", "over"}]
    /\ lock \in Requests \cup {Nobody}
    /\ generations \in Seq([catalog : Requests, readable : BOOLEAN])
    /\ written \in Nat
    /\ damaged \in 0 .. MaxDamage
    /\ lost \in BOOLEAN

(* The lock is the one of the task that works under it.                    *)
LockIsWriters == \A n \in Requests : task[n] \in Locked => lock = n

TypeOK == Typed /\ LockIsWriters

Init ==
    /\ request = 0
    /\ task = [n \in Requests |-> "none"]
    /\ lock = Nobody
    /\ generations = <<>>
    /\ written = 0
    /\ damaged = 0
    /\ lost = FALSE

Go(n, from, to) == task[n] = from /\ task' = [task EXCEPT ![n] = to]

-----------------------------------------------------------------------------
(* set_ready_and_persist, by any publisher: a scan, a removal, an edit, a   *)
(* stream, or a start that found no file to load.                          *)
Request ==
    /\ request < MaxRequests
    /\ request' = request + 1
    /\ Go(request', "none", "sleeping")
    /\ lost' = FALSE
    /\ UNCHANGED <<lock, files>>

(* A faulty number: the counter is looked at as it was before the request. *)
WakeShort(n) ==
    /\ Go(n, "sleeping", IF request + 1 = n THEN "queued" ELSE "over")
    /\ UNCHANGED <<request, lock, files, lost>>

(* "Coalesce publications": the sleep is over.                             *)
Wake(n) ==
    /\ Go(n, "sleeping", IF request = n THEN "queued" ELSE "over")
    /\ UNCHANGED <<request, lock, files, lost>>

(* Faulty entries: no second look at the counter; a lock that stays taken  *)
(* by a request that has been overtaken.                                   *)
EnterBlindly(n) ==
    /\ lock = Nobody
    /\ Go(n, "queued", "writing")
    /\ lock' = n
    /\ UNCHANGED <<request, files, lost>>

EnterForGood(n) ==
    /\ lock = Nobody
    /\ Go(n, "queued", IF request = n THEN "writing" ELSE "over")
    /\ lock' = n
    /\ UNCHANGED <<request, files, lost>>

(* The lock, and the second look at the counter under it.                  *)
Enter(n) ==
    /\ lock = Nobody
    /\ \/ request = n /\ Go(n, "queued", "writing") /\ lock' = n
       \/ request # n /\ Go(n, "queued", "over") /\ UNCHANGED lock
    /\ UNCHANGED <<request, files, lost>>

Write(n) ==
    /\ Go(n, "writing", "renaming")
    /\ UNCHANGED <<request, lock, files, lost>>

Rename(n) ==
    /\ Go(n, "renaming", "pruning")
    /\ generations' = Append(generations, [catalog |-> n, readable |-> TRUE])
    /\ written' = written + 1
    /\ UNCHANGED <<request, lock, damaged, lost>>

(* Writing or renaming fails: the temporary file goes, no generation comes. *)
Fail(n) ==
    /\ task[n] \in {"writing", "renaming"}
    /\ Go(n, task[n], "over")
    /\ lock' = Nobody
    /\ lost' = (lost \/ n = request)
    /\ UNCHANGED <<request, files>>

Newest(kept) ==
    IF Len(generations) > kept
    THEN SubSeq(generations, Len(generations) - kept + 1, Len(generations))
    ELSE generations

(* A faulty rotation: no fallback is kept.                                 *)
PruneAll(n) ==
    /\ Go(n, "pruning", "over")
    /\ lock' = Nobody
    /\ generations' = Newest(1)
    /\ UNCHANGED <<request, written, damaged, lost>>

(* A file that cannot be removed stays for the next time.                  *)
Prune(n) ==
    /\ Go(n, "pruning", "over")
    /\ lock' = Nobody
    /\ \E kept \in {Kept, Len(generations)} : generations' = Newest(kept)
    /\ UNCHANGED <<request, written, damaged, lost>>

(* The process stops and starts again: tasks and lock are gone.            *)
Crash ==
    /\ task' = [n \in Requests |-> IF task[n] = "none" THEN "none" ELSE "over"]
    /\ lock' = Nobody
    /\ lost' = (lost \/ \E n \in Requests : n = request /\ task[n] \in InFlight \ {"pruning"})
    /\ UNCHANGED <<request, files>>

(* The disk damages a file.                                                *)
Damage(i) ==
    /\ damaged < MaxDamage
    /\ generations[i].readable
    /\ generations' = [generations EXCEPT ![i].readable = FALSE]
    /\ damaged' = damaged + 1
    /\ UNCHANGED <<request, task, lock, written, lost>>

TaskStep(n) ==
    Wake(n) \/ Enter(n) \/ Write(n) \/ Rename(n) \/ Fail(n) \/ Prune(n)

Next ==
    \/ Request \/ Crash
    \/ \E n \in Requests : TaskStep(n)
    \/ \E i \in DOMAIN generations : Damage(i)

Spec == Init /\ [][Next]_vars

(* The runtime wakes and runs every task.                                  *)
TaskIsFair(n) == WF_vars(TaskStep(n))
FairSpec == Spec /\ \A n \in Requests : TaskIsFair(n)

-----------------------------------------------------------------------------
(* The newest file is of the newest catalog among the files: a task that   *)
(* was overtaken while it slept or waited never writes over a later one.   *)
GenerationsInOrder ==
    \A i, j \in DOMAIN generations :
        i < j => generations[i].catalog < generations[j].catalog

(* When no task is left, the newest file is of the last catalog that was    *)
(* published to be kept, unless writing it was given up: coalescing drops  *)
(* older publications, never the last one.                                 *)
QuietNewestIsLastRequest ==
    (\A n \in Requests : task[n] \notin InFlight) /\ request > 0 /\ ~lost =>
        /\ generations # <<>>
        /\ generations[Len(generations)].catalog = request

(* "Retain one fallback generation": once two were written, one damaged    *)
(* file does not leave a start without a catalog.                          *)
StartFindsCatalog ==
    written >= 2 /\ damaged <= 1 =>
        \E i \in DOMAIN generations : generations[i].readable

(* A task is never stuck where its code does not wait: only the lock, held *)
(* by another, keeps a queued task from going on, overtaken or not.        *)
TaskCanStep(n) ==
    task[n] \in InFlight \ {"queued"} \/ (task[n] = "queued" /\ lock = Nobody) =>
        ENABLED <<TaskStep(n)>>_vars
TasksCanStep == \A n \in Requests : TaskCanStep(n)

(* No request waits for ever, however they overtake each other.            *)
EveryRequestSettles ==
    \A n \in Requests : task[n] = "sleeping" ~> task[n] = "over"
=============================================================================
