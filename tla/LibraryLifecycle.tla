-------------------------- MODULE LibraryLifecycle --------------------------
(***************************************************************************)
(* The library lifecycle of the server: the visible catalog, its revision  *)
(* and its readiness (crates/backend/src/library/state.rs), and the tasks  *)
(* that publish them - folder indexing, refresh, automatic refresh, folder *)
(* removal, streams of songs not found (crates/backend/src/api/library.rs) *)
(* and metadata edits (api/metadata.rs), the local index of the command    *)
(* line and the desktop (app.rs), and the load at startup (startup.rs) -   *)
(* with the web client that polls them.                                    *)
(*                                                                         *)
(* Catalog, revision and readiness are three cells with a lock each, so a  *)
(* setter is several steps: `job` holds what is left of the setter a task  *)
(* is inside of, and a task goes on when its job is done.  Work on the     *)
(* disk and the database is one step with every outcome the code handles.  *)
(***************************************************************************)
EXTENDS ScanSlot, Integers

CONSTANTS
    Kinds,      \* the kinds of request that arrive
    MaxBatches  \* the most progress batches one folder scan sends

Unleased == {"edit", "stream"}
AllKinds == {"index", "refresh", "auto", "remove", "local"} \cup Unleased

ASSUME KindsAssumption == Kinds \subseteq AllKinds
ASSUME MaxBatchesAssumption == MaxBatches \in Nat

VARIABLES
    kind,       \* what each request asks for
    pc,         \* where its task is
    job,        \* the setter each task is inside of
    publisher,  \* where the progress publisher of a folder scan is
    sent,       \* the batches its indexer has sent
    buffered,   \* the scans whose progress channel holds a batch
    aborted,    \* the scans that have aborted their publisher
    indexed,    \* is there a library in the database?
    cache,      \* the visible catalog
    revision,   \* catalog_revision
    readiness,  \* the readiness that clients are told
    client      \* a web client: the revision it saw, the catalog it shows

taskVars == <<kind, pc, job, publisher, sent, buffered, aborted,
              indexed>>
cells == <<cache, revision, readiness>>
vars == <<slotVars, taskVars, cells, client>>

-----------------------------------------------------------------------------
(* A catalog is known by the request that built it and by how far that     *)
(* request had come.                                                       *)
Stages == {"preview", "batch", "available", "final"}
NoCatalog == [by |-> NoScan, stage |-> "none"]
Built(s, stage) == [by |-> s, stage |-> stage]
Catalogs == [by : Scans, stage : Stages] \cup {NoCatalog}

States == {"NoLibraryIndexed", "Indexing", "Ready", "Failed"}
Enrichments == {"Pending", "Running", "Complete", "Failed"}
Readiness == [state : States, enrichment : Enrichments]

(* The requests that wait for the slot and the ones that only try it; an   *)
(* edit and a stream take no lease at all.                                 *)
Replacing == {"index", "local"}
Trying == {"refresh", "auto", "remove"}

(* Every request has a main task, a folder scan also a publisher.          *)
Tasks == Scans \X {"scan", "publisher"}
Main(s) == <<s, "scan">>
Progress(s) == <<s, "publisher">>

JobSteps == {"none", "check", "copy", "cache", "revision", "readiness", "enrichment"}
Jobs == [step : JobSteps, catalog : Catalogs, state : States, enrichment : Enrichments]
Job(step, catalog, state, enrichment) ==
    [step |-> step, catalog |-> catalog, state |-> state, enrichment |-> enrichment]
NoJob == Job("none", NoCatalog, "Ready", "Pending")

(* set_indexing; set_available; set_ready and its variants; set_no_library; *)
(* set_failed; set_scan_failed; set_enrichment_failed.                     *)
Indexing == Job("readiness", NoCatalog, "Indexing", "Pending")
Available(catalog) == Job("cache", catalog, "Ready", "Running")
Complete(catalog) == Job("cache", catalog, "Ready", "Complete")
NoLibrary == Job("cache", NoCatalog, "NoLibraryIndexed", "Pending")
Failed == Job("cache", NoCatalog, "Failed", "Pending")
ScanFailed == Job("check", NoCatalog, "Ready", "Pending")
EnrichmentFailed == Job("enrichment", NoCatalog, "Ready", "Failed")

Labels == {"new", "waiting", "begin", "load", "preview", "spawn", "phase", "drain",
           "enrich", "scan", "rescan", "autoScan", "removing", "available",
           "localEnrich", "edit", "stream", "rebuild", "leaving", "ending", "done"}
PublisherLabels == {"off", "receive", "prepare", "ended"}
NoRevision == -1

TypeOK ==
    /\ SlotTypeOK
    /\ kind \in [Scans -> AllKinds \cup {"none", "startup"}]
    /\ pc \in [Scans -> Labels]
    /\ job \in [Tasks -> Jobs]
    /\ publisher \in [Scans -> PublisherLabels]
    /\ sent \in [Scans -> 0 .. MaxBatches]
    /\ buffered \subseteq Scans
    /\ aborted \subseteq Scans
    /\ indexed \in BOOLEAN
    /\ cache \in Catalogs
    /\ revision \in Nat
    /\ readiness \in Readiness
    /\ client \in [seen : Nat \cup {NoRevision}, fetch : {"none", "asked", "answered"},
                   answer : Catalogs, shown : Catalogs]

Init ==
    /\ SlotInit
    /\ kind = [s \in Scans |-> IF s = Startup THEN "startup" ELSE "none"]
    /\ pc = [s \in Scans |-> IF s = Startup THEN "load" ELSE "new"]
    /\ job = [t \in Tasks |-> NoJob]
    /\ publisher = [s \in Scans |-> "off"]
    /\ sent = [s \in Scans |-> 0]
    /\ buffered = {}
    /\ aborted = {}
    /\ indexed \in BOOLEAN
    /\ cache = NoCatalog
    /\ revision = 0
    /\ readiness = [state |-> "Indexing", enrichment |-> "Pending"]
    /\ client = [seen |-> NoRevision, fetch |-> "none",
                 answer |-> NoCatalog, shown |-> NoCatalog]

-----------------------------------------------------------------------------
(* The setters, one step per lock they take.                               *)

JobAt(t, step) == job[t].step = step
Continue(t, j) == job' = [job EXCEPT ![t] = j]
NextStep(t, step) == Continue(t, [job[t] EXCEPT !.step = step])

(* Faulty setters: a failure that always keeps the catalog, one that       *)
(* always takes it away, a publication without its revision, and a failure *)
(* that keeps the enrichment.                                              *)
CheckCacheKeeping(t) ==
    /\ JobAt(t, "check")
    /\ NextStep(t, "copy")
    /\ UNCHANGED cells

CheckCacheTaking(t) ==
    /\ JobAt(t, "check")
    /\ Continue(t, Failed)
    /\ UNCHANGED cells

WriteCacheUnannounced(t) ==
    /\ JobAt(t, "cache")
    /\ cache' = job[t].catalog
    /\ NextStep(t, "readiness")
    /\ UNCHANGED <<revision, readiness>>

WriteEnrichmentKept(t) ==
    /\ JobAt(t, "enrichment")
    /\ readiness' = [readiness EXCEPT !.state = "Ready"]
    /\ Continue(t, NoJob)
    /\ UNCHANGED <<cache, revision>>

(* set_scan_failed: is there a catalog to go on serving?                   *)
CheckCache(t) ==
    /\ JobAt(t, "check")
    /\ \/ cache # NoCatalog /\ NextStep(t, "copy")
       \/ cache = NoCatalog /\ Continue(t, Failed)
    /\ UNCHANGED cells

CopyEnrichment(t) ==
    /\ JobAt(t, "copy")
    /\ Continue(t, [job[t] EXCEPT !.step = "readiness", !.enrichment = readiness.enrichment])
    /\ UNCHANGED cells

WriteCache(t) ==
    /\ JobAt(t, "cache")
    /\ cache' = job[t].catalog
    /\ NextStep(t, "revision")
    /\ UNCHANGED <<revision, readiness>>

BumpRevision(t) ==
    /\ JobAt(t, "revision")
    /\ revision' = revision + 1
    /\ NextStep(t, "readiness")
    /\ UNCHANGED <<cache, readiness>>

WriteReadiness(t) ==
    /\ JobAt(t, "readiness")
    /\ readiness' = [state |-> job[t].state, enrichment |-> job[t].enrichment]
    /\ Continue(t, NoJob)
    /\ UNCHANGED <<cache, revision>>

WriteEnrichment(t) ==
    /\ JobAt(t, "enrichment")
    /\ readiness' = [state |-> "Ready", enrichment |-> "Failed"]
    /\ Continue(t, NoJob)
    /\ UNCHANGED <<cache, revision>>

JobStep(t) ==
    /\ \/ CheckCache(t) \/ CopyEnrichment(t) \/ WriteCache(t)
       \/ BumpRevision(t) \/ WriteReadiness(t) \/ WriteEnrichment(t)
    /\ UNCHANGED <<slotVars, kind, pc, publisher, sent, buffered, aborted, indexed, client>>

-----------------------------------------------------------------------------
(* A request arrives and gets its lease.                                   *)

Idle(s) == JobAt(Main(s), "none")
At(s, label) == pc[s] = label /\ Idle(s)
Goto(s, label) == pc' = [pc EXCEPT ![s] = label]
Start(s, j, label) == Continue(Main(s), j) /\ Goto(s, label)

(* Indexing a folder commits its rows or not; a failure may come after the *)
(* commit, when the catalog is read back.                                  *)
Committed == indexed' = TRUE
CommittedOrNot == indexed' \in {indexed, TRUE}

(* The first thing a task does once it has said that it is indexing.       *)
FirstWork == [index |-> "preview", refresh |-> "scan", auto |-> "autoScan",
              local |-> "available"]

Request(s, k) ==
    /\ pc[s] = "new"
    /\ kind' = [kind EXCEPT ![s] = k]
    /\ \/ k \in Replacing /\ Select(s) /\ Goto(s, "waiting")
       \/ k \in Trying /\ TryBegin(s) /\ Goto(s, "waiting")
       \/ k \in Trying /\ Refuse(s) /\ Goto(s, "done")
       \/ k \in Unleased /\ Goto(s, k) /\ UNCHANGED slotVars
    /\ UNCHANGED <<job, publisher, sent, buffered, aborted, indexed, cells, client>>

Acquire(s) ==
    /\ pc[s] = "waiting"
    /\ \/ Enqueue(s) /\ UNCHANGED pc
       \/ Install(s) /\ Goto(s, "begin")
       \/ Admit(s) /\ Goto(s, "begin")
       \/ StandDown(s) /\ Goto(s, "done")
    /\ UNCHANGED <<kind, job, publisher, sent, buffered, aborted, indexed, cells, client>>

(* Every scan but a removal announces itself before it works.              *)
Begin(s) ==
    /\ At(s, "begin")
    /\ \/ /\ kind[s] = "remove"
          /\ Goto(s, "removing")
          /\ UNCHANGED job
       \/ /\ kind[s] # "remove"
          /\ Start(s, Indexing, FirstWork[kind[s]])
    /\ UNCHANGED <<slotVars, indexed>>

(* The handler returns with its lease, or has dropped the lease already    *)
(* and only finishes its last setter.                                      *)
Return(s) ==
    /\ \/ At(s, "leaving") /\ Leave(s)
       \/ At(s, "ending") /\ UNCHANGED slotVars
    /\ Goto(s, "done")
    /\ UNCHANGED <<job, indexed>>

(* A faulty failure: it writes nothing.                                    *)
FailSilently(s) == Leave(s) /\ Goto(s, "done") /\ UNCHANGED job

(* `?` leaves the block that owns the lease: the lease is dropped first,   *)
(* and only then does the failure get written.                             *)
FailWithoutLease(s) == Leave(s) /\ Start(s, ScanFailed, "ending")

(* "library_scan_replaced": nothing is written.                            *)
Replaced(s) == s \in cancelled /\ Leave(s) /\ Goto(s, "done") /\ UNCHANGED job

-----------------------------------------------------------------------------
(* startup.rs, with the lease server.rs took for it.                       *)

Load(s) ==
    /\ At(s, "load")
    /\ \/ \E j \in {Complete(Built(s, "final")), Failed} : Start(s, j, "leaving")
       \/ ~indexed /\ Start(s, NoLibrary, "leaving")
    /\ UNCHANGED <<slotVars, indexed>>

-----------------------------------------------------------------------------
(* run_index_scan.                                                         *)

Preview(s) ==
    /\ At(s, "preview")
    /\ \/ FailWithoutLease(s)
       \/ Replaced(s)
       \/ /\ s \notin cancelled
          /\ Start(s, Available(Built(s, "preview")), "spawn")
          /\ UNCHANGED slotVars
    /\ UNCHANGED indexed

(* The handler answers; the rest of the scan and its publisher go on in    *)
(* the background with the lease.                                          *)
Spawn(s) ==
    /\ At(s, "spawn")
    /\ Goto(s, "phase")
    /\ publisher' = [publisher EXCEPT ![s] = "receive"]
    /\ UNCHANGED <<slotVars, kind, job, sent, buffered, aborted, indexed, cells, client>>

(* The indexer offers a batch of albums; a full channel loses it.          *)
Send(s) ==
    /\ pc[s] = "phase"
    /\ sent[s] < MaxBatches
    /\ s \notin buffered
    /\ sent' = [sent EXCEPT ![s] = @ + 1]
    /\ buffered' = buffered \cup {s}
    /\ UNCHANGED <<slotVars, kind, pc, job, publisher, aborted, indexed, cells, client>>

(* The indexer has committed, or has failed and rolled back.               *)
EndPhase(s) ==
    /\ At(s, "phase")
    /\ \/ Committed /\ Goto(s, "drain") /\ UNCHANGED <<job, aborted>>
       \/ /\ CommittedOrNot
          /\ aborted' = aborted \cup {s}
          /\ IF s \in cancelled
             THEN Goto(s, "leaving") /\ UNCHANGED job
             ELSE Start(s, EnrichmentFailed, "leaving")
    /\ UNCHANGED <<slotVars, kind, publisher, sent, buffered, cells, client>>

(* A faulty drain: it does not wait for the publisher.                     *)
DrainEarly(s) ==
    /\ At(s, "drain")
    /\ \/ s \in cancelled /\ Goto(s, "leaving") /\ UNCHANGED job
       \/ s \notin cancelled /\ Start(s, Available(Built(s, "available")), "enrich")
       \/ Start(s, EnrichmentFailed, "leaving")
    /\ UNCHANGED <<slotVars, indexed>>

(* The publisher has ended: read the database again and publish it all.    *)
Drain(s) ==
    /\ At(s, "drain")
    /\ publisher[s] = "ended"
    /\ \/ s \in cancelled /\ Goto(s, "leaving") /\ UNCHANGED job
       \/ s \notin cancelled /\ Start(s, Available(Built(s, "available")), "enrich")
       \/ Start(s, EnrichmentFailed, "leaving")
    /\ UNCHANGED <<slotVars, indexed>>

Enrich(s) ==
    /\ At(s, "enrich")
    /\ \/ s \in cancelled /\ Goto(s, "leaving") /\ UNCHANGED job
       \/ s \notin cancelled /\ Start(s, Complete(Built(s, "final")), "leaving")
       \/ Start(s, EnrichmentFailed, "leaving")
    /\ UNCHANGED <<slotVars, indexed>>

IndexScan(s) == Preview(s) \/ Drain(s) \/ Enrich(s)

-----------------------------------------------------------------------------
(* The publisher of run_index_scan, a task of its own.                     *)

PublisherAt(s, label) == publisher[s] = label /\ JobAt(Progress(s), "none")
PublisherGoto(s, label) == publisher' = [publisher EXCEPT ![s] = label]

Receive(s) ==
    /\ PublisherAt(s, "receive")
    /\ s \in buffered
    /\ buffered' = buffered \ {s}
    /\ PublisherGoto(s, IF s \in cancelled THEN "ended" ELSE "prepare")
    /\ UNCHANGED job

(* Artwork and search index are built; a batch without artwork, or one     *)
(* whose build fails, is skipped.                                          *)
Prepare(s) ==
    /\ PublisherAt(s, "prepare")
    /\ PublisherGoto(s, "receive")
    /\ \/ UNCHANGED job
       \/ Continue(Progress(s), Available(Built(s, "batch")))
    /\ UNCHANGED buffered

(* The sender is gone with the indexer, and the channel is empty.          *)
ChannelClosed(s) ==
    /\ PublisherAt(s, "receive")
    /\ s \notin buffered
    /\ pc[s] \notin {"spawn", "phase"}
    /\ PublisherGoto(s, "ended")
    /\ UNCHANGED <<job, buffered>>

(* abort() only asks: the task goes on until it next waits, which it may   *)
(* do for the lock of a cell but not between the cache and its revision.   *)
Killed(s) ==
    /\ s \in aborted
    /\ publisher[s] # "ended"
    /\ ~JobAt(Progress(s), "revision")
    /\ PublisherGoto(s, "ended")
    /\ Continue(Progress(s), NoJob)
    /\ buffered' = buffered \ {s}

PublisherStep(s) ==
    /\ Receive(s) \/ Prepare(s) \/ ChannelClosed(s) \/ Killed(s)
    /\ UNCHANGED <<slotVars, kind, pc, sent, aborted, indexed, cells, client>>

-----------------------------------------------------------------------------
(* run_refresh_scan: the second pass keeps the lease in a local of the     *)
(* block, so it too is dropped before a failure is written.                *)

RefreshScan(s) ==
    /\ At(s, "scan")
    /\ \/ CommittedOrNot /\ FailWithoutLease(s)
       \/ Committed /\ Replaced(s)
       \/ /\ s \notin cancelled
          /\ Committed
          /\ Start(s, Available(Built(s, "available")), "rescan")
          /\ UNCHANGED slotVars

RefreshAgain(s) ==
    /\ At(s, "rescan")
    /\ \/ CommittedOrNot /\ FailWithoutLease(s)
       \/ /\ Committed
          /\ Start(s, Complete(Built(s, "final")), "leaving")
          /\ UNCHANGED slotVars

(* run_automatic_refresh_scan: the lease is a local of the function, held  *)
(* to its end; a cancelled refresh writes no failure.                      *)
AutomaticRefresh(s) ==
    /\ At(s, "autoScan")
    /\ \/ Committed /\ Start(s, Complete(Built(s, "final")), "leaving")
       \/ /\ CommittedOrNot
          /\ IF s \in cancelled
             THEN Goto(s, "leaving") /\ UNCHANGED job
             ELSE Start(s, ScanFailed, "leaving")
    /\ UNCHANGED slotVars

(* remove_library_root: the folder was unknown or its removal failed, it   *)
(* was the last one configured, or the catalog of the others is published. *)
RemoveRoot(s) ==
    /\ At(s, "removing")
    /\ \/ Goto(s, "leaving") /\ UNCHANGED <<job, indexed>>
       \/ /\ indexed
          /\ indexed' \in BOOLEAN
          /\ \/ Goto(s, "leaving") /\ UNCHANGED job
             \/ Start(s, NoLibrary, "leaving")
             \/ Start(s, ScanFailed, "leaving")
             \/ indexed' /\ Start(s, Complete(Built(s, "final")), "leaving")
    /\ UNCHANGED slotVars

(* perform_local_index looks at no token: the indexer it calls fails when  *)
(* it is cancelled, and that failure is written with the lease held.       *)
LocalIndex(s) ==
    /\ At(s, "available")
    /\ \/ CommittedOrNot /\ Start(s, ScanFailed, "leaving")
       \/ Committed /\ Start(s, Available(Built(s, "available")), "localEnrich")
    /\ UNCHANGED slotVars

LocalEnrich(s) ==
    /\ At(s, "localEnrich")
    /\ \E j \in {Complete(Built(s, "final")), EnrichmentFailed} : Start(s, j, "leaving")
    /\ UNCHANGED <<slotVars, indexed>>

(* edit_library_metadata and edit_album_metadata, which take no lease.     *)
EditMetadata(s) ==
    /\ At(s, "edit")
    /\ \/ Goto(s, "done") /\ UNCHANGED job
       \/ indexed /\ Start(s, Complete(Built(s, "final")), "ending")
    /\ UNCHANGED <<slotVars, indexed>>

(* resolve_stream_song_with_refresh: for a song that is not in the visible  *)
(* catalog the handler builds a catalog and publishes it, with no lease.   *)
FindSong(s) ==
    /\ At(s, "stream")
    /\ \/ Goto(s, "done")
       \/ cache # NoCatalog /\ Goto(s, "rebuild")
    /\ UNCHANGED <<slotVars, job, indexed>>

RebuildForSong(s) ==
    /\ At(s, "rebuild")
    /\ \/ Goto(s, "done") /\ UNCHANGED job
       \/ Start(s, Complete(Built(s, "final")), "ending")
    /\ UNCHANGED <<slotVars, indexed>>

Work(s) ==
    /\ \/ Begin(s) \/ Load(s) \/ IndexScan(s) \/ RefreshScan(s) \/ RefreshAgain(s)
       \/ AutomaticRefresh(s) \/ RemoveRoot(s) \/ LocalIndex(s) \/ LocalEnrich(s)
       \/ EditMetadata(s) \/ FindSong(s) \/ RebuildForSong(s) \/ Return(s)
    /\ UNCHANGED <<kind, publisher, sent, buffered, aborted, cells, client>>

-----------------------------------------------------------------------------
(* A web client (apps/web/app/(app)/app-shell.tsx) polls library_readiness *)
(* and fetches the catalog again when its revision changed; an answer to a *)
(* fetch it has given up for a newer one is ignored.                       *)

(* A faulty poll: a fetch that is under way is not started again.          *)
PollCoalesced ==
    /\ client' = [client EXCEPT
           !.seen = revision,
           !.fetch = IF client.seen # revision /\ @ = "none" THEN "asked" ELSE @]
    /\ UNCHANGED <<slotVars, taskVars, cells>>

Poll ==
    /\ client' = [client EXCEPT !.seen = revision,
                                !.fetch = IF client.seen = revision THEN @ ELSE "asked"]
    /\ UNCHANGED <<slotVars, taskVars, cells>>

(* LibraryLifecycle::cache, for the handler that answers the fetch.        *)
Answer ==
    /\ client.fetch = "asked"
    /\ client' = [client EXCEPT !.fetch = "answered", !.answer = cache]
    /\ UNCHANGED <<slotVars, taskVars, cells>>

Show ==
    /\ client.fetch = "answered"
    /\ client' = [client EXCEPT !.fetch = "none", !.shown = client.answer]
    /\ UNCHANGED <<slotVars, taskVars, cells>>

ClientStep == Poll \/ Answer \/ Show

-----------------------------------------------------------------------------
ScanStep(s) == Acquire(s) \/ Work(s) \/ Spawn(s) \/ EndPhase(s)

TaskStep ==
    \E s \in Scans :
        \/ \E k \in Kinds : Request(s, k)
        \/ ScanStep(s) \/ Send(s) \/ PublisherStep(s)
        \/ JobStep(Main(s)) \/ JobStep(Progress(s))

Next == TaskStep \/ ClientStep

Spec == Init /\ [][Next]_vars

(* Tokio runs every task that can go on; the client keeps polling.  Nothing *)
(* is assumed of the arrival of requests or of the batches an indexer sends. *)
ScanIsFair(s) == WF_vars(ScanStep(s)) /\ WF_vars(JobStep(Main(s)))
PublisherIsFair(s) == WF_vars(PublisherStep(s)) /\ WF_vars(JobStep(Progress(s)))
ClientIsFair == WF_vars(Poll) /\ WF_vars(Answer) /\ WF_vars(Show)
Fairness == (\A s \in Scans : ScanIsFair(s) /\ PublisherIsFair(s)) /\ ClientIsFair

FairSpec == Spec /\ Fairness

-----------------------------------------------------------------------------
HoldsLease(s) == pc[s] \notin {"new", "waiting", "edit", "stream", "rebuild", "ending", "done"}

Quiet ==
    /\ \A s \in Scans : pc[s] \in {"new", "done"} /\ publisher[s] \in {"off", "ended"}
    /\ \A t \in Tasks : JobAt(t, "none")

(* Two scans are never at work together, whatever mixture of requests the  *)
(* server, the refresh loop and the startup make: each holds its lease from *)
(* the first step of its work to the last.                                 *)
OneScanAtWork ==
    \A s, t \in Scans : HoldsLease(s) /\ HoldsLease(t) => s = t

(* A client that has seen the current revision and waits for no answer     *)
(* shows the visible catalog, unless a setter is between the catalog and   *)
(* its revision at that moment: polling the revision alone misses nothing. *)
ClientShowsCurrentCatalog ==
    /\ client.seen = revision
    /\ client.fetch = "none"
    /\ \A t \in Tasks : ~JobAt(t, "revision")
    => client.shown = cache

(* When nothing is running, clients are not told that the library is being *)
(* indexed: every way out of a scan, replaced scans included, leaves some  *)
(* task behind that writes the readiness after it.                         *)
QuietNeverIndexing == Quiet => readiness.state # "Indexing"

(* A folder scan never replaces its finished catalog by one of its partial *)
(* ones: the publisher is drained before the scan reads the database again. *)
NoPartialAfterWhole ==
    [][\A s \in Scans, whole \in {"available", "final"} :
          cache = Built(s, whole) => cache' # Built(s, "batch")]_vars

(* A scan that fails goes on serving the catalog there is: the visible     *)
(* catalog is only ever taken away by the removal of the last folder.      *)
FailedScanKeepsCatalog ==
    [][cache # NoCatalog /\ cache' = NoCatalog =>
          \E s \in Scans : kind[s] = "remove" /\ pc[s] = "leaving"]_vars

(* With nothing in flight, "ready" means that there is a catalog to serve. *)
QuietReadyIsServed == Quiet /\ readiness.state = "Ready" => cache # NoCatalog

(* With nothing in flight, clients are not told that enrichment still runs, *)
(* which is what makes them poll at their slow rate.                       *)
QuietEnrichmentSettled == Quiet => readiness.enrichment # "Running"

(* Nothing is stuck where its code does not wait: a scan goes on in every   *)
(* state but while it waits for the slot or for its publisher, a setter and *)
(* a publisher go on to their end, and the client is answered.             *)
ScanCanStep(s) ==
    /\ \/ Idle(s) /\ pc[s] \notin {"new", "waiting", "drain", "done"}
       \/ At(s, "drain") /\ publisher[s] = "ended"
       \/ pc[s] = "waiting" /\ (phase[s] \in {"install", "enqueue"} \/ holder = s)
       => ENABLED <<ScanStep(s)>>_vars
    /\ ~JobAt(Main(s), "none") => ENABLED <<JobStep(Main(s))>>_vars
    /\ ~JobAt(Progress(s), "none") => ENABLED <<JobStep(Progress(s))>>_vars
    /\ \/ PublisherAt(s, "prepare")
       \/ PublisherAt(s, "receive") /\ (s \in buffered \/ pc[s] \notin {"spawn", "phase"})
       => ENABLED <<PublisherStep(s)>>_vars
ClientCanStep ==
    /\ client.seen # revision => ENABLED <<Poll>>_vars
    /\ client.fetch = "asked" => ENABLED <<Answer>>_vars
    /\ client.fetch = "answered" => ENABLED <<Show>>_vars
NothingIsStuck == (\A s \in Scans : ScanCanStep(s)) /\ ClientCanStep

(* Every scan that arrives comes to an end: the slot starves nobody and no *)
(* failure leaves it locked.                                               *)
EveryScanEnds == \A s \in Scans : pc[s] # "new" ~> pc[s] = "done"

(* The client ends up showing the catalog the server ends up with.         *)
ClientSettles == <>[](client.shown = cache)
=============================================================================
