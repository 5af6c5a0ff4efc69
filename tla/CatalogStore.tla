----------------------------- MODULE CatalogStore -----------------------------
(***************************************************************************)
(* Where the catalog is kept and how it gets there.  The database has it;  *)
(* the LIBRARY cell of crates/backend/src/library/storage.rs has a copy    *)
(* that is filled by whoever finds it empty, outside its lock; the         *)
(* lifecycle serves a LibraryCache built from the cell; and a file has the *)
(* last one that was persisted, which the next start serves.  It is        *)
(* written in the background, some time after it was asked for, unless     *)
(* somebody has asked again or the process dies.  Scans, metadata edits,   *)
(* removals and streams all read, write and clear them.                    *)
(*                                                                         *)
(* A catalog is known by how many of the database's changes it shows and   *)
(* whether it also has songs of a preview.  One scan holds the lease at a  *)
(* time (ScanSlot).  Of the persist requests only the newest and the one   *)
(* that is being written are told apart, and the file is not damaged:      *)
(* CatalogGenerations has all of them, and damage.                         *)
(***************************************************************************)
EXTENDS Naturals, Sequences, FiniteSets

CONSTANTS
    Tasks,          \* tasks that may be under way at the same time
    MaxTasks,       \* how many tasks are begun at most
    MaxChanges,     \* how many changes the database takes at most
    MaxBatches,     \* how many progress batches an indexing sends at most
    MaxStarts,      \* how often the process is started again at most
    NoCatalog       \* no catalog

ASSUME StoreConstants ==
    /\ MaxTasks \in Nat /\ MaxChanges \in Nat \ {0} /\ MaxBatches \in Nat /\ MaxStarts \in Nat
    /\ NoCatalog \notin [upTo : Nat, preview : BOOLEAN]

VARIABLES
    db,             \* the database: its changes, and is it without a folder?
    cell,           \* storage.rs LIBRARY
    served,         \* LibraryLifecycle.cache
    saved,          \* the newest generation
    asked,          \* what the newest request is to save, until it is written
    writing,        \* what is being written
    task,           \* what each task is doing
    publisher,      \* the publisher of each indexing
    begun, starts,
    (* History: has something been left as the code leaves it when tasks    *)
    (* overlap, fail or die?  Was something published that was not saved?   *)
    disturbed, unsaved

file == <<saved, asked, writing>>
places == <<db, cell, served, file>>
history == <<disturbed, unsaved>>
vars == <<places, task, publisher, begun, starts, history>>

Catalogs == [upTo : 0 .. MaxChanges, preview : BOOLEAN]
Content == IF db.empty THEN NoCatalog ELSE [upTo |-> db.changes, preview |-> FALSE]

(* What each task does, one step after the other.                          *)
Indexed == <<"commit", "export", "store">>
Publish == <<"fetch", "serve">>
PublishAndSave == <<"fetch", "save", "serve">>
Program ==
    [start  |-> <<"restore", "serve">>,
     load   |-> PublishAndSave,
     edit   |-> <<"fetch", "commit", "clear">> \o PublishAndSave \o <<"fetch">>,
     stream |-> PublishAndSave,
     auto   |-> Indexed \o Publish,
     scan   |-> Indexed \o Publish \o Indexed \o PublishAndSave,
     remove |-> <<"commit", "clear">> \o PublishAndSave,
     clear  |-> <<"empty", "clear", "unserve">>,
     index  |-> <<"seed", "preview">> \o Publish \o <<"spawn">> \o Indexed \o <<"join", "clear">>
                    \o Publish \o Indexed \o PublishAndSave]
Kinds == DOMAIN Program
Leased == Kinds \ {"edit", "stream"}
Spawned == 6        \* where an indexing has a publisher,
Joined == 9         \* up to where it waits for it,
Drained == 12       \* and where it serves what it has read back

NoTask == [kind |-> "none", n |-> 1, loaded |-> FALSE, held |-> NoCatalog, alone |-> TRUE]
Active == {t \in Tasks : task[t].kind # "none"}
Rest == [at |-> "rest", loaded |-> FALSE, held |-> NoCatalog, sent |-> 0, aborted |-> FALSE]
AtWork(t) == publisher[t].at # "rest"
Nobody == Active = {} /\ \A t \in Tasks : ~AtWork(t)
Step(t) == IF task[t].kind = "none" THEN "none" ELSE Program[task[t].kind][task[t].n]

TypeOK ==
    /\ db \in [changes : 1 .. MaxChanges, empty : BOOLEAN]
    /\ {cell, served, saved, asked, writing} \subseteq Catalogs \cup {NoCatalog}
    /\ task \in [Tasks -> [kind : Kinds \cup {"none"}, n : 1 .. 18, loaded : BOOLEAN,
                           held : Catalogs \cup {NoCatalog}, alone : BOOLEAN]]
    /\ publisher \in [Tasks -> [at : {"rest", "wait", "seed", "store", "fetch", "serve"},
                                loaded : BOOLEAN, held : Catalogs \cup {NoCatalog},
                                sent : 0 .. MaxBatches, aborted : BOOLEAN]]
    /\ begun \in 0 .. MaxTasks /\ starts \in 0 .. MaxStarts
    /\ disturbed \in BOOLEAN /\ unsaved \in BOOLEAN
    (* The slot is given to one task.  A publisher works for an indexing    *)
    (* that will wait for it, or it has been told to stop.                  *)
    /\ Cardinality({t \in Active : task[t].kind \in Leased}) <= 1
    /\ \A t \in Tasks : AtWork(t) /\ ~publisher[t].aborted =>
          task[t].kind = "index" /\ task[t].n \in Spawned .. Joined

Init ==
    /\ db \in [changes : {1}, empty : BOOLEAN]
    /\ cell = NoCatalog /\ served = NoCatalog
    /\ saved = NoCatalog /\ asked = NoCatalog /\ writing = NoCatalog
    /\ task = [t \in Tasks |-> NoTask] /\ publisher = [t \in Tasks |-> Rest]
    /\ begun = 0 /\ starts = 0
    /\ disturbed = TRUE /\ unsaved = TRUE

-----------------------------------------------------------------------------
(* A request comes in, or the server starts.                               *)
Startable(kind) ==
    CASE kind \in {"start", "load"} -> FALSE
      [] kind \in Leased \ {"start", "load"} -> \A t \in Active : task[t].kind \notin Leased
      [] kind = "edit" -> TRUE
      [] kind = "stream" -> served # NoCatalog

Begun(t, kind) ==
    task' = [u \in Tasks |->
        IF u = t THEN [NoTask EXCEPT !.kind = kind, !.alone = Nobody]
        ELSE [task[u] EXCEPT !.alone = @ /\ u \notin Active]]

(* A name is used again when its publisher has ended, too.                 *)
Begin(t, kind) ==
    /\ t \notin Active /\ ~AtWork(t)
    /\ begun < MaxTasks /\ begun' = begun + 1
    /\ Startable(kind)
    /\ kind \in {"auto", "scan", "remove", "clear"} => ~db.empty
    /\ Begun(t, kind)
    /\ UNCHANGED <<places, publisher, starts, history>>

(* The process dies and starts again, and what was not yet written is      *)
(* lost: initialize_library takes the file if there is one.                *)
Settled == asked = NoCatalog /\ writing = NoCatalog
Restart == \E t \in Tasks :
    /\ starts < MaxStarts /\ starts' = starts + 1
    /\ cell' = NoCatalog /\ served' = NoCatalog
    /\ asked' = NoCatalog /\ writing' = NoCatalog
    /\ publisher' = [u \in Tasks |-> Rest]
    /\ task' = [u \in Tasks |-> IF u = t
                THEN [NoTask EXCEPT !.kind = IF saved = NoCatalog THEN "load" ELSE "start"]
                ELSE NoTask]
    /\ disturbed' = (disturbed \/ unsaved \/ ~Settled \/ Active # {})
    /\ UNCHANGED <<db, saved, begun, unsaved>>

(* The step of t is done and it holds a catalog; after the last one the    *)
(* task ends.  Reading the database back makes good what was disturbed.    *)
Done(t, held) ==
    IF task[t].n < Len(Program[task[t].kind])
    THEN /\ task' = [task EXCEPT ![t].n = @ + 1, ![t].loaded = FALSE, ![t].held = held]
         /\ UNCHANGED disturbed
    ELSE /\ task' = [task EXCEPT ![t] = NoTask]
         /\ disturbed' = IF task[t].alone /\ task[t].kind \notin {"start", "stream"} THEN FALSE
                         ELSE disturbed \/ ~task[t].alone

Keeping(t) == Done(t, task[t].held)
Others == UNCHANGED <<publisher, begun, starts>>

(* A scan or a request fails, or is told to stop: it leaves what it has    *)
(* done, and its publisher is aborted, which only asks it to stop.  An     *)
(* indexing that waits for its publisher does nothing else.                *)
\* The publisher is not told.
GiveUpAlone(t) ==
    /\ t \in Active /\ task[t].kind # "start" /\ Step(t) # "join"
    /\ task' = [task EXCEPT ![t] = NoTask]
    /\ disturbed' = (disturbed \/ task[t].n > 1 \/ task[t].kind = "load" \/ ~task[t].alone)
    /\ UNCHANGED <<places, publisher, begun, starts, unsaved>>

GiveUp(t) ==
    /\ t \in Active /\ task[t].kind # "start" /\ Step(t) # "join"
    /\ task' = [task EXCEPT ![t] = NoTask]
    /\ publisher' = [publisher EXCEPT ![t].aborted = AtWork(t)]
    /\ disturbed' = (disturbed \/ task[t].n > 1 \/ task[t].kind = "load" \/ ~task[t].alone)
    /\ UNCHANGED <<places, begun, starts, unsaved>>

-----------------------------------------------------------------------------
(* fetch_library: the cell is read, and what is not there is loaded and    *)
(* then put there.  Without a folder there is nothing to load: only the    *)
(* preview of an indexing goes on.                                         *)
Find(t) ==
    /\ Step(t) \in {"fetch", "seed"}
    /\ ~task[t].loaded
    /\ \/ /\ cell # NoCatalog
          /\ Done(t, cell)
       \/ /\ cell = NoCatalog /\ Content # NoCatalog
          /\ task' = [task EXCEPT ![t].loaded = TRUE, ![t].held = Content]
          /\ UNCHANGED disturbed
       \/ /\ cell = NoCatalog /\ Content = NoCatalog
          /\ IF Step(t) = "seed" THEN Done(t, NoCatalog)
             ELSE task' = [task EXCEPT ![t] = NoTask] /\ disturbed' = (task[t].kind # "load")
    /\ UNCHANGED <<places, unsaved>> /\ Others

PutLoaded(t) ==
    /\ Step(t) \in {"fetch", "seed"}
    /\ task[t].loaded
    /\ cell' = task[t].held
    /\ Keeping(t)
    /\ UNCHANGED <<db, served, file, unsaved>> /\ Others

(* refresh_cache.                                                          *)
Clear(t) ==
    /\ Step(t) = "clear"
    /\ cell' = NoCatalog
    /\ Keeping(t)
    /\ UNCHANGED <<db, served, file, unsaved>> /\ Others

(* An edit, a scan or a removal commits; it may have changed nothing.      *)
Commit(t) ==
    /\ Step(t) = "commit"
    /\ \E n \in {db.changes, db.changes + 1} \cap 1 .. MaxChanges :
        db' = [changes |-> n, empty |-> db.empty /\ task[t].kind # "index"]
    /\ Keeping(t)
    /\ UNCHANGED <<cell, served, file, unsaved>> /\ Others

(* The last folder is removed.                                             *)
Empty(t) ==
    /\ Step(t) = "empty"
    /\ db' = [db EXCEPT !.empty = TRUE]
    /\ Keeping(t)
    /\ UNCHANGED <<cell, served, file, unsaved>> /\ Others

(* A refresh that could not read some folder serves what it has unsaved.   *)
SkipSave(t) ==
    /\ Step(t) = "save" /\ task[t].kind = "scan"
    /\ Keeping(t)
    /\ UNCHANGED <<places, unsaved>> /\ Others

(* A scan exports what it has committed, and stores that.                  *)
Export(t) ==
    /\ Step(t) = "export"
    /\ Done(t, Content)
    /\ UNCHANGED <<places, unsaved>> /\ Others

Store(t) ==
    /\ Step(t) = "store"
    /\ cell' = task[t].held
    /\ Keeping(t)
    /\ UNCHANGED <<db, served, file, unsaved>> /\ Others

Mixed(seed) == [upTo |-> IF seed = NoCatalog THEN 0 ELSE seed.upTo, preview |-> TRUE]

Preview(t) ==
    /\ Step(t) = "preview"
    /\ cell' = Mixed(task[t].held)
    /\ Keeping(t)
    /\ UNCHANGED <<db, served, file, unsaved>> /\ Others

(* What the file will have when nothing fails: the newest request is       *)
(* written in the end, an overtaken one is not.                            *)
Wanted ==
    IF asked # NoCatalog THEN asked
    ELSE IF writing # NoCatalog THEN writing
    ELSE saved

(* set_ready_and_persist asks for the file before it publishes.            *)
Save(t) ==
    /\ Step(t) = "save"
    /\ asked' = task[t].held /\ unsaved' = FALSE
    /\ Keeping(t)
    /\ UNCHANGED <<db, cell, served, saved, writing>> /\ Others

Serve(t) ==
    /\ Step(t) = "serve"
    /\ served' = task[t].held
    /\ unsaved' = (unsaved \/ task[t].held # Wanted)
    /\ Keeping(t)
    /\ UNCHANGED <<db, cell, file>> /\ Others

(* set_no_library leaves the file.                                         *)
Unserve(t) ==
    /\ Step(t) = "unserve"
    /\ served' = NoCatalog /\ unsaved' = TRUE
    /\ Keeping(t)
    /\ UNCHANGED <<db, cell, file>> /\ Others

Restore(t) ==
    /\ Step(t) = "restore"
    /\ Done(t, saved)
    /\ UNCHANGED <<places, unsaved>> /\ Others

-----------------------------------------------------------------------------
(* The background task of a persist request: its sleep and its wait for    *)
(* the lock end with a second look at the counter, and then it writes.     *)
Background == UNCHANGED <<db, cell, served, task, publisher, begun, starts, disturbed>>

BeginWrite ==
    /\ asked # NoCatalog /\ writing = NoCatalog
    /\ writing' = asked /\ asked' = NoCatalog
    /\ UNCHANGED <<saved, unsaved>> /\ Background

EndWrite ==
    /\ writing # NoCatalog
    /\ saved' = writing /\ writing' = NoCatalog
    /\ UNCHANGED <<asked, unsaved>> /\ Background

(* A write that fails is not tried again.                                  *)
FailWrite ==
    /\ writing # NoCatalog
    /\ writing' = NoCatalog
    /\ unsaved' = (unsaved \/ asked = NoCatalog)
    /\ UNCHANGED <<saved, asked>> /\ Background

-----------------------------------------------------------------------------
(* The publisher of an indexing: each batch that has albums with artwork   *)
(* is mixed with what the cell has, and served; the indexing waits for it  *)
(* before it reads back.                                                   *)
SpawnPublisher(t) ==
    /\ Step(t) = "spawn"
    /\ publisher' = [publisher EXCEPT ![t] = [Rest EXCEPT !.at = "wait"]]
    /\ Keeping(t)
    /\ UNCHANGED <<places, begun, starts, unsaved>>

Becomes(t, next) == publisher' = [publisher EXCEPT ![t] = next]
Publisher == UNCHANGED <<task, begun, starts, history>>

Receive(t) ==
    /\ publisher[t].at = "wait" /\ publisher[t].sent < MaxBatches
    /\ Becomes(t, [publisher[t] EXCEPT !.at = "seed", !.sent = @ + 1])
    /\ UNCHANGED places /\ Publisher

PublisherFind(t) ==
    /\ publisher[t].at \in {"seed", "fetch"} /\ ~publisher[t].loaded
    /\ LET next == IF publisher[t].at = "seed" THEN "store" ELSE "serve" IN
       Becomes(t,
            IF cell # NoCatalog THEN [publisher[t] EXCEPT !.at = next, !.held = cell]
            ELSE IF Content # NoCatalog THEN [publisher[t] EXCEPT !.loaded = TRUE, !.held = Content]
            ELSE IF publisher[t].at = "seed" THEN [publisher[t] EXCEPT !.at = next, !.held = NoCatalog]
            ELSE [publisher[t] EXCEPT !.at = "wait", !.held = NoCatalog])
    /\ UNCHANGED places /\ Publisher

PublisherPut(t) ==
    /\ publisher[t].loaded
    /\ cell' = publisher[t].held
    /\ Becomes(t, [publisher[t] EXCEPT !.at = IF @ = "seed" THEN "store" ELSE "serve", !.loaded = FALSE])
    /\ UNCHANGED <<db, served, file>> /\ Publisher

PublisherStore(t) ==
    /\ publisher[t].at = "store"
    /\ \/ /\ cell' = Mixed(publisher[t].held)
          /\ Becomes(t, [publisher[t] EXCEPT !.at = "fetch"])
       \/ /\ Becomes(t, [publisher[t] EXCEPT !.at = "wait", !.held = NoCatalog])
          /\ UNCHANGED cell
    /\ UNCHANGED <<db, served, file>> /\ Publisher

PublisherServe(t) ==
    /\ publisher[t].at = "serve"
    /\ served' = publisher[t].held
    /\ Becomes(t, [publisher[t] EXCEPT !.at = "wait", !.held = NoCatalog])
    /\ UNCHANGED <<db, cell, file>> /\ Publisher

(* A publisher that was told to stop does so where it next waits; until    *)
(* then it goes on.                                                        *)
Killed(t) ==
    /\ publisher[t].aborted
    /\ Becomes(t, Rest)
    /\ UNCHANGED places /\ Publisher

\* The indexing does not wait for its publisher.
JoinNothing(t) ==
    /\ Step(t) = "join"
    /\ Keeping(t)
    /\ UNCHANGED <<places, unsaved>> /\ Others

(* Its channel is closed and what was in it has been published.            *)
Join(t) ==
    /\ Step(t) = "join"
    /\ publisher[t].at = "wait"
    /\ Becomes(t, Rest)
    /\ Keeping(t)
    /\ UNCHANGED <<places, begun, starts, unsaved>>

-----------------------------------------------------------------------------
TaskStep(t) ==
    \/ Find(t) \/ PutLoaded(t) \/ Clear(t) \/ Commit(t) \/ Empty(t) \/ Export(t) \/ Store(t)
    \/ Preview(t) \/ Save(t) \/ SkipSave(t) \/ Serve(t) \/ Unserve(t) \/ Restore(t) \/ SpawnPublisher(t) \/ Join(t)
    \/ GiveUp(t)

PublisherStep(t) ==
    \/ Receive(t) \/ PublisherFind(t) \/ PublisherPut(t) \/ PublisherStore(t) \/ PublisherServe(t)
    \/ Killed(t)

FileStep == BeginWrite \/ EndWrite \/ FailWrite

Next ==
    \/ \E t \in Tasks : TaskStep(t) \/ PublisherStep(t) \/ \E kind \in Kinds : Begin(t, kind)
    \/ FileStep \/ Restart

Spec == Init /\ [][Next]_vars

-----------------------------------------------------------------------------
(* When no task is under way, and since the last one that read the         *)
(* database back and ran by itself none has overlapped another or the      *)
(* publisher of a failed one, failed or died, the catalog that is served   *)
(* and the cell show the database; and so does the file, once it is        *)
(* written, if the last publication was to be saved and was: no task       *)
(* leaves a preview, a batch or an old copy behind (storage.rs, state.rs). *)
RestShowsDatabase ==
    Active = {} /\ ~disturbed =>
        /\ served = Content
        /\ cell \in {NoCatalog, Content}
        /\ ~unsaved /\ Settled => saved = Content

(* What an indexing reads back once its publisher has drained is what it   *)
(* committed, whatever the batches left in the cell (run_index_scan:       *)
(* "Re-read SQLite after draining a partial-publication race").            *)
DrainedIsWhole ==
    \A t \in Active :
        task[t].kind = "index" /\ task[t].n = Drained /\ task[t].alone => task[t].held = Content

(* A catalog that is taken for the whole one shows the database: at rest,  *)
(* and where an indexing has read it back.                                 *)
WholeCatalogShowsDatabase == RestShowsDatabase /\ DrainedIsWhole
===============================================================================
