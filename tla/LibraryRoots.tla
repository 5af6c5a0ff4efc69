---------------------------- MODULE LibraryRoots ----------------------------
(***************************************************************************)
(* The folders of the library (crates/backend/src/api/library.rs).  They   *)
(* are kept three times: in libraries.json, as rows of the music database, *)
(* and in Core's registry.  Indexing a folder, refreshing all of them and  *)
(* removing one change the three one after the other, with the scan lease  *)
(* held; a crash may come between any two steps, and between the renames   *)
(* that replace the file.                                                  *)
(***************************************************************************)
EXTENDS Naturals, FiniteSets

CONSTANTS
    Roots,      \* the folders
    Tasks,      \* the requests that arrive
    NoTask,     \* nobody holds the scan lease
    MaxRemovals, \* how many of the requests are removals, at most
    MayDamage   \* may libraries.json be damaged from outside?

ASSUME NoTaskAssumption == NoTask \notin Tasks
ASSUME RemovalsAssumption == MaxRemovals \in Nat
ASSUME MayDamageAssumption == MayDamage \in BOOLEAN

VARIABLES
    config,     \* libraries.json
    backup,     \* libraries.json.bak
    indexed,    \* the rows of library_root
    registered, \* the music folders in Core's registry
    lease,      \* who holds the scan lease
    pc,         \* where each request is
    kind,       \* what it is
    root,       \* the folder it works on
    seen,       \* the folders it has read, of which a refresh drops those it is through with
    list,       \* the list it writes
    removed     \* folders whose removal was reported, not indexed since

files == <<config, backup>>
stores == <<indexed, registered>>
mine == <<kind, root, seen, list>>
vars == <<files, stores, lease, pc, mine, removed>>

Absent == [is |-> "absent", paths |-> {}]
Damaged == [is |-> "damaged", paths |-> {}]
Listing(paths) == [is |-> "list", paths |-> paths]
Files == {Absent, Damaged} \cup [is : {"list"}, paths : SUBSET Roots]

Writing == {"temp", "aside", "replace", "clean"}
Leased == {"save", "register", "commit", "read", "next", "delete", "unregister"} \cup Writing
Labels == {"new", "waiting", "look", "try", "done"} \cup Leased

TypeOK ==
    /\ config \in Files /\ backup \in Files
    /\ indexed \subseteq Roots /\ registered \subseteq Roots /\ removed \subseteq Roots
    /\ lease \in Tasks \cup {NoTask}
    /\ pc \in [Tasks -> Labels]
    /\ kind \in [Tasks -> {"index", "refresh", "remove"}]
    /\ root \in [Tasks -> Roots]
    /\ seen \in [Tasks -> SUBSET Roots]
    /\ list \in [Tasks -> SUBSET Roots]
    /\ \A t \in Tasks : pc[t] \in Leased <=> lease = t

Init ==
    /\ config = Absent /\ backup = Absent
    /\ indexed = {} /\ registered = {} /\ removed = {}
    /\ lease = NoTask
    /\ pc = [t \in Tasks |-> "new"]
    /\ kind \in [Tasks -> {"index", "refresh", "remove"}]
    /\ Cardinality({t \in Tasks : kind[t] = "remove"}) =< MaxRemovals
    /\ root \in [Tasks -> Roots]
    /\ seen = [t \in Tasks |-> {}]
    /\ list = [t \in Tasks |-> {}]

(* read_library_paths: a file that is absent, damaged or empty gives way to *)
(* the database; so does one that cannot be read, and a database that      *)
(* cannot be read has no folders.                                          *)
Configured == {IF config.paths # {} THEN config.paths ELSE indexed, indexed, {}}

At(t, label) == pc[t] = label
Goto(t, label) == pc' = [pc EXCEPT ![t] = label]

(* A faulty end: the lease is not given back.                              *)
FinishHolding(t) == Goto(t, "done") /\ UNCHANGED lease
Finish(t) == Goto(t, "done") /\ lease' = NoTask
Acquire(t) == lease = NoTask /\ lease' = t

-----------------------------------------------------------------------------
(* A request arrives.  Indexing waits for the lease, unless a later one    *)
(* takes its place; a refresh only tries it, and a removal reads the       *)
(* folders before it tries.                                                *)

Arrive(t) ==
    /\ At(t, "new")
    /\ Goto(t, IF kind[t] = "remove" THEN "look" ELSE "waiting")
    /\ UNCHANGED <<files, stores, lease, mine, removed>>

BeginIndex(t) ==
    /\ At(t, "waiting") /\ kind[t] = "index"
    /\ \/ Acquire(t) /\ Goto(t, "save") /\ removed' = removed \ {root[t]}
       \/ Goto(t, "done") /\ UNCHANGED <<lease, removed>>
    /\ UNCHANGED <<files, stores, mine>>

(* A faulty refresh: it reads the folders while it waits, as a removal does. *)
ReadEarly(t) ==
    /\ At(t, "waiting") /\ kind[t] = "refresh"
    /\ \/ /\ seen[t] = {}
          /\ \E paths \in Configured : seen' = [seen EXCEPT ![t] = paths]
          /\ UNCHANGED <<lease, pc>>
       \/ seen[t] # {} /\ Acquire(t) /\ Goto(t, "next") /\ UNCHANGED seen
    /\ UNCHANGED <<files, stores, kind, root, list, removed>>

BeginRefresh(t) ==
    /\ At(t, "waiting") /\ kind[t] = "refresh"
    /\ \/ Acquire(t) /\ Goto(t, "read")
       \/ lease # NoTask /\ Goto(t, "done") /\ UNCHANGED lease
    /\ UNCHANGED <<files, stores, mine, removed>>

Look(t) ==
    /\ At(t, "look")
    /\ \E paths \in Configured :
          /\ seen' = [seen EXCEPT ![t] = paths]
          /\ Goto(t, IF root[t] \in paths THEN "try" ELSE "done")
    /\ UNCHANGED <<files, stores, lease, kind, root, list, removed>>

BeginRemove(t) ==
    /\ At(t, "try")
    /\ \/ Acquire(t) /\ Goto(t, "delete")
       \/ lease # NoTask /\ Goto(t, "done") /\ UNCHANGED lease
    /\ UNCHANGED <<files, stores, mine, removed>>

-----------------------------------------------------------------------------
(* write_library_paths, and where a request goes on after it; a removal is *)
(* only reported when the list was written.                                *)

AfterWrite(t) ==
    CASE kind[t] = "index" -> Goto(t, "register") /\ UNCHANGED lease
      [] kind[t] = "refresh" -> Goto(t, "next") /\ UNCHANGED lease
      [] kind[t] = "remove" -> Finish(t)

(* save_library_path.  The list may name the folder already, or not be     *)
(* readable; its failures are logged and the scan goes on.  An indexing's  *)
(* instant preview may fail before it, or find itself replaced.            *)
Save(t) ==
    /\ At(t, "save")
    /\ \/ AfterWrite(t) /\ UNCHANGED list
       \/ /\ config.is # "damaged"
          /\ root[t] \notin config.paths
          /\ list' = [list EXCEPT ![t] = config.paths \cup {root[t]}]
          /\ Goto(t, "temp")
          /\ UNCHANGED lease
       \/ kind[t] = "index" /\ Finish(t) /\ UNCHANGED list
    /\ UNCHANGED <<files, stores, kind, root, seen, removed>>

WriteTemp(t) ==
    /\ At(t, "temp")
    /\ \/ Goto(t, "aside") /\ UNCHANGED lease
       \/ AfterWrite(t)
    /\ UNCHANGED <<files, stores, mine, removed>>

SetAside(t) ==
    /\ At(t, "aside")
    /\ \/ config = Absent /\ Goto(t, "replace") /\ UNCHANGED <<files, lease>>
       \/ /\ config # Absent
          /\ backup' = config /\ config' = Absent
          /\ Goto(t, "replace")
          /\ UNCHANGED lease
       \/ config # Absent /\ backup' = Absent /\ UNCHANGED config /\ AfterWrite(t)
    /\ UNCHANGED <<stores, mine, removed>>

(* A rename that fails puts the old file back, if that can be done.        *)
Replace(t) ==
    /\ At(t, "replace")
    /\ \/ config' = Listing(list[t]) /\ Goto(t, "clean") /\ UNCHANGED <<backup, lease>>
       \/ /\ \/ UNCHANGED files
             \/ backup # Absent /\ config' = backup /\ backup' = Absent
          /\ AfterWrite(t)
    /\ UNCHANGED <<stores, mine, removed>>

Clean(t) ==
    /\ At(t, "clean")
    /\ backup' \in {Absent, backup}
    /\ AfterWrite(t)
    /\ removed' = IF kind[t] = "remove" THEN removed \cup {root[t]} ELSE removed
    /\ UNCHANGED <<config, stores, mine>>

-----------------------------------------------------------------------------
(* index_library_to_database_phase: the folder is registered with Core     *)
(* inside the transaction that adds its row.  Both phases of a scan do the *)
(* same.  A folder that fails is skipped by a refresh.                     *)

Skip(t) ==
    \/ kind[t] = "index" /\ Finish(t)
    \/ kind[t] # "index" /\ Goto(t, "next") /\ UNCHANGED lease

Register(t) ==
    /\ At(t, "register")
    /\ \/ registered' = registered \cup {root[t]} /\ Goto(t, "commit") /\ UNCHANGED lease
       \/ UNCHANGED registered /\ Skip(t)
    /\ UNCHANGED <<files, indexed, mine, removed>>

(* The commit may fail, and so may reading the catalog back after it.      *)
Commit(t) ==
    /\ At(t, "commit")
    /\ \/ /\ kind[t] # "index"
          /\ indexed' = indexed \cup {root[t]}
          /\ Goto(t, "save")
          /\ UNCHANGED lease
       \/ indexed' \in {indexed, indexed \cup {root[t]}} /\ Skip(t)
    /\ UNCHANGED <<files, registered, mine, removed>>

(* refresh_libraries_with.                                                 *)
Read(t) ==
    /\ At(t, "read")
    /\ \E paths \in Configured : seen' = [seen EXCEPT ![t] = paths]
    /\ Goto(t, "next")
    /\ UNCHANGED <<files, stores, lease, kind, root, list, removed>>

NextRoot(t) ==
    /\ At(t, "next")
    /\ \/ \E r \in seen[t] :
            /\ root' = [root EXCEPT ![t] = r]
            /\ seen' = [seen EXCEPT ![t] = @ \ {r}]
            /\ Goto(t, "register")
            /\ UNCHANGED lease
       \/ Finish(t) /\ UNCHANGED <<root, seen>>
    /\ UNCHANGED <<files, stores, kind, list, removed>>

-----------------------------------------------------------------------------
(* remove_library_root.                                                    *)

(* A faulty removal: Core forgets the folder first.                        *)
DeleteLast(t) ==
    /\ At(t, "delete")
    /\ registered' = registered \ {root[t]}
    /\ Goto(t, "unregister")
    /\ UNCHANGED <<files, indexed, lease, mine, removed>>

Delete(t) ==
    /\ At(t, "delete")
    /\ \/ /\ root[t] \in indexed
          /\ indexed' = indexed \ {root[t]}
          /\ Goto(t, "unregister")
          /\ UNCHANGED lease
       \/ UNCHANGED indexed /\ Finish(t)
    /\ UNCHANGED <<files, registered, mine, removed>>

(* Core's failure is only a warning.                                       *)
Unregister(t) ==
    /\ At(t, "unregister")
    /\ registered' \in {registered, registered \ {root[t]}}
    /\ list' = [list EXCEPT ![t] = seen[t] \ {root[t]}]
    /\ Goto(t, "temp")
    /\ UNCHANGED <<files, indexed, lease, kind, root, seen, removed>>

-----------------------------------------------------------------------------
(* The process stops and starts again.                                     *)
Crash ==
    /\ pc' = [t \in Tasks |-> IF pc[t] = "new" THEN "new" ELSE "done"]
    /\ lease' = NoTask
    /\ UNCHANGED <<files, stores, mine, removed>>

Damage ==
    /\ MayDamage
    /\ config.is = "list"
    /\ config' = Damaged
    /\ UNCHANGED <<backup, stores, lease, pc, mine, removed>>

Step(t) ==
    \/ Arrive(t) \/ BeginIndex(t) \/ BeginRefresh(t) \/ Look(t) \/ BeginRemove(t)
    \/ Save(t) \/ WriteTemp(t) \/ SetAside(t) \/ Replace(t) \/ Clean(t)
    \/ Register(t) \/ Commit(t) \/ Read(t) \/ NextRoot(t) \/ Delete(t) \/ Unregister(t)

Next == (\E t \in Tasks : Step(t)) \/ Crash \/ Damage

Spec == Init /\ [][Next]_vars

-----------------------------------------------------------------------------
(* Every folder with rows in the database is known to Core, at every step  *)
(* of an indexing or a removal and after a crash in the middle of one.     *)
IndexedIsRegistered == indexed \subseteq registered

(* A folder whose removal was reported does not come back, neither to the  *)
(* database nor to libraries.json, until it is indexed again: no refresh   *)
(* works from a list it read before the removal, and no file that was set  *)
(* aside is put back.  It holds of one removal at a time: of two, each has *)
(* read the folders before it takes the lease, and the second writes the   *)
(* first one's folder back.                                                *)
RemovedStaysRemoved == removed \cap (indexed \cup config.paths) = {}
=============================================================================
