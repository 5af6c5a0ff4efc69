# TLA+ models of ParsonLabs Music

Specifications, model-checking configurations and proofs for the server of this
repository (`src/crates/backend`) and the clients that share a protocol with it:
how the music library is indexed, published, kept on disk, restored and
recovered, how clients stay signed in, and how a receiver is followed, while
requests, background tasks, crashes and failures interleave. Paths below are relative to `src/`; `state.rs` stands for
`crates/backend/src/library/state.rs`, `library.rs` for
`crates/backend/src/api/library.rs`, other files in full where they are named
first. `PROJECT.json` maps every definition to the lines it models.

1. [The system](#1-the-system)
2. [Modules](#2-modules)
3. [Runs](#3-runs)
4. [Fairness](#4-fairness)
5. [Proofs](#5-proofs)
6. [What the code does not keep](#6-what-the-code-does-not-keep)
7. [Not modelled](#7-not-modelled)
8. [Plan](#8-plan)

To check a run: `tlc -config <run>.cfg <module>.tla` with the module of the table
in section 3; to check the proofs: `tlapm` on each module whose name ends in `Proofs`.

## 1. The system

One process (Actix on Tokio, SQLite through Diesel) serves a music library to
web, desktop and mobile clients. The parts with logic of their own:

| Part | State | Operations | Hard behaviour | Correct when |
|---|---|---|---|---|
| **Scan slot** `state.rs:48-70, 496-530` | an async mutex (`scan_slot`), the cancellation token of the newest scan | `try_begin_scan`, `begin_replacing_scan`, dropping a `ScanLease` | the two ways in touch mutex and token in opposite orders | one scan at a time; the newest selection is not cancelled and is reached |
| **Library lifecycle** `state.rs:430-680` | visible catalog, `catalog_revision`, readiness: a lock each | `set_indexing`, `set_available`, `set_ready*`, `set_no_library`, `set_failed`, `set_scan_failed`, `set_enrichment_failed` | setters are several steps and are called by many tasks, some without the lease | clients converge on the visible catalog and are not told something false |
| **Publishers** `library.rs`, `api/metadata.rs`, `startup.rs`, `server.rs`, `app.rs` | a task per request, with a publisher task per folder scan | index, refresh, automatic refresh, remove, edit, stream of an unknown song, local index, startup load | lease lifetimes, progress channel, abort, error exits | the lease covers the writes; a failure keeps what is served |
| **Catalog generations** `state.rs:202-370` | numbered cache files, request counter, lock | persist, coalesce, rotate, load at start | overtaking tasks, crash, damaged file | the newest file is of the newest catalog; one damaged file is survived |
| **Recovery snapshots** `persistence/connection.rs:150-350` | RUNNING and PENDING flags, snapshot files, recorded fingerprint | request after an import, fingerprint, VACUUM INTO, rename, prune, record | flag handshake between threads, imports during a pass | one copier; no request lost; rotation keeps the newest |
| **Library roots** `library.rs`, `product.rs` | `libraries.json` and its backup, root rows, Core's registry | index, refresh all, remove, read and write the list | three stores, crash between two of them, stale reads before the lease | the stores agree; what is removed stays removed |
| **Library memory** `library/storage.rs`, `api/metadata.rs`, `library.rs` | the `LIBRARY` cell, between database, served catalog and file | `fetch_library`, `refresh_cache`, `store_library`, and every task that calls them | a load outside the lock that is stored later; previews and batches in the same cell | at rest all four places show the database |
| Indexer, discovery `library/indexer.rs`, `library/discovery.rs` | staged rows, file states, change journal, back-off | walk, parse, commit, verify; automatic refresh loop | bounded channels, discarded overflow, growing interval | ends or fails; changes are found |
| **Restore and reset** `settings.rs`, `api/data.rs` | staged archive, markers, rollbacks, databases with their logs | stage, request a reset, apply at start, prune | crash at any point, a second run on half-replaced files, two uploads | all old or all new; the rollback holds the old |
| **Sessions and pairing** `api/auth.rs`, `api/user.rs`, SDK `core/http.ts` | a row per refresh token, which is used once; the password's version; pairing codes | login, refresh, logout, change the password, approve a device | lost answers, tabs that refresh at once, checks in one transaction and writes in a later one | one session for a sign-in; an old password buys nothing |
| **Cast sessions** `api/cast.rs`, `use-cast-output*.ts` | rows with status, revision and command numbers, a broadcast channel, device and page | create, command, report, stop, follow events | a channel that overflows, late reports, reads that overlap | a stopped session stays stopped; the page comes to show the current one |
| Playback queues `api/playback.rs`; backups `api/data.rs` | a queue with a revision; a directory of backups | write, read; make, list, prune | | |
| Playlists, users, setup; lyrics, images; search, normalisation, recommendation; Core; desktop, mobile and Windows hosts; web player | rows, memory caches, pure functions, user interface | | little beyond one transaction each | |

How they interact. A request handler or the refresh loop takes the **scan slot**,
announces itself to the **lifecycle** and lets the **indexer** write the database;
what it reads back is built into a catalog (**library memory**), published by a
setter, and handed to the **generations** to be saved. An import that commits
asks the **snapshot worker** for a copy. Removal and indexing change the
**roots** in three stores. At start the newest readable generation, or else the
database, is loaded with the slot taken. Web clients poll readiness and fetch the
catalog when its revision changes. A **restore** or reset is staged while the server
runs and done by the next start before it opens a database, so that it meets
none of the others. **Sessions** and **cast sessions** are rows, which the clients
that hold them come to know by answers and events. Nothing else connects these
parts: the generations, the snapshots and the roots never look at each other's
state, which is why they are modules of their own here; the one place where
what is served, kept and saved meets the database is the library memory.

The hazards of this code, each at its line and with the properties that are
about it, are listed in `PROJECT.json`; those without a property say why.

## 2. Modules

| Module | Models | State corresponds to |
|---|---|---|
| `ScanSlot` | the slot, as a component used by others | `holder`, `queue`: the fair mutex; `active`: the `Option<CancellationToken>`; `cancelled`: tokens that were cancelled; `selected`: requests that replace |
| `LibraryLifecycle` | setters, every task that publishes, the polling client; extends `ScanSlot` | `cache`, `revision`, `readiness`: the three cells; `job`: the setter a task is inside of; `pc`: the handler; `publisher`, `sent`, `buffered`, `aborted`: the progress channel and its task; `indexed`: are there library rows; `client`: the shell of the web application |
| `CatalogGenerations` | persisting catalogs | `request`: `CACHE_PERSIST_REQUEST`; `lock`: `CACHE_PERSIST_LOCK`; `generations`: files by name |
| `SnapshotWorker` | recovery snapshots | `running`, `pending`: the two atomics; `snapshots`, `recorded`: files; `version`: what the database holds |
| `LibraryRoots` | the folders in their three stores | `config`, `backup`: `libraries.json` and `.bak`; `indexed`: rows; `registered`: Core; `lease`: the slot |
| `CatalogStore` | where a catalog is kept, and every task that moves it | `db`: how many changes the database has taken; `cell`: `LIBRARY`; `served`: what `LibraryLifecycle` calls `cache`; `saved`: what `CatalogGenerations` leaves as newest; `asked`, `writing`: the persist request and the write under way; `task`: how far each has come and what it holds; `publisher`: the publisher of each indexing and its batches |
| `RestartPromise` | what a restore promises, without files | `serving`, `next`, `pending`: the data that are open, the data the next complete start opens, is there something to do; `excepted`: what a start could not do and went on |
| `StagedRestore` | staging, starting, restoring and resetting, one file operation at a time; implements `RestartPromise` | `live`, `wal`: the data folder; `incoming`, `stage`, `ready`: `Restore/`; `reset`: `Reset/READY`; `rollbacks`: `Recovery/before-restore-*`; `at`, `k`: where the process is; `upload`: the handlers |
| `Sessions` | the sessions of one account and the clients that hold them | `version`: `token_version`; `rows`, `carries`, `old`: `refresh_session` and what the tokens say; `jar`: each client's cookies; `req`: requests under way; `pairing`: `PAIRING_REQUESTS` |
| `CastSession` | the cast sessions of one user, a device, a page and the channel between | `row`: `cast_session`; `holds`, `created`, `poll`: the device; `events`, `lagged`: the page's broadcast receiver; `socket`, `messages`, `fetch`, `shown`: the page |
| `MC...` | model values, symmetry and kinds for TLC | |
| `...Proofs` | theorems about the module they extend; those of `ScanSlot` are in `LibraryLifecycleProofs` | |

**ScanSlot** is both a component and the abstract specification of it. A request
is in a `phase`: out, about to install its token, about to enqueue, queued,
leased, left. `TryBegin` takes a free mutex and `Install` then overwrites the
token; `Select` cancels and replaces the token and `Enqueue` then waits;
`Admit` and `StandDown` are the look at the own token after the wait; `Leave`
drops the lease and hands the mutex to the first in the queue (Tokio's mutex is
fair).

**LibraryLifecycle** models a setter as the list of locks it takes. `job` holds
what is left: looking at the cache, copying the enrichment, writing the catalog,
raising the revision, writing readiness. The step that starts a setter belongs to
a handler, and the handler goes on when its job is done. Work on disk and
database is one step with every outcome the handler distinguishes: published,
cancelled, failed before or after its commit. A catalog is known by who built it
and how far that request had come (`preview`, `batch`, `available`, `final`), which
is all the properties tell apart. `Drain` waits for the publisher to end;
`Killed` is the abort, which takes effect only where the task can be cancelled.
The client reads the revision, and a new one abandons the fetch under way.

**CatalogGenerations** numbers requests as the counter does. `Wake` and `Enter` are
the two looks at the counter, before and after the lock; `Write`, `Rename`,
`Prune` and `Fail` the file operations, with failures; `Damage` is the disk's.

**SnapshotWorker** has one step for each atomic operation of
`snapshot_after_import` and one for each file operation of
`create_verified_snapshot`. `Fingerprint` maps database versions to what the
fingerprint sees of them. Rotation keeps `Generations` files and may fail to
remove one. `excused` records that a snapshot was given up: a copy failed, a
thread could not be started, the process crashed, or an import that failed had
changed the database without asking for a copy. Two versions may have the same
fingerprint, and in the instance a catalog returns to what it was;
`CatalogReturned` is the one state in which the record then vouches for a copy
that shows something else (section 6).

**LibraryRoots** writes `libraries.json` in the steps the code takes: temporary file,
old file aside, new file in place, old file removed, each of which can fail.
`Configured` is the set of what `read_library_paths` can return, its fallback to
the database included. `Save`, `Register`, `Commit` and `Delete`, `Unregister`,
write are the order of an indexing and of a removal.

**CatalogStore** gives each kind of task its program, the order of its looks at the
cell, its writes and its publications; `Find` and `PutLoaded` are the two halves of
`fetch_library`, between which anything may happen. A catalog is a number of
changes, and whether songs of a preview are in it. The lease excludes scans, as
`ScanSlot` shows. `Save` only asks for the file: `BeginWrite` and `EndWrite` are the
task that sleeps, takes the newest request and writes it, beside every other step.
`FailWrite` is the write that ends in a warning, and `Restart` loses what was asked for
and not written. `GiveUp` asks the publisher to stop, as `abort` does; until `Killed`
it goes on storing and serving its batch, beside later tasks. `disturbed` says that
tasks have overlapped, failed or died since one of them last read the database back
alone; `unsaved`, that something was published and the write of it is not to be
expected.

**StagedRestore** says of a file whose data it holds: an archive's, this server's,
nobody's, or half of something. Removing a tree removes its entries in any order, and
`Crash` may leave half a copy. `Unpack` writes into the directory that every upload
shares; `Clear` empties it, or fails to, and the code goes on either way. `DropLog` may
fail as quietly. `disturbed` and `logsLeft` record the two, so that the properties
say what holds when the removals succeed and the model what happens when they
do not. A database that was not closed leaves its log (`wal`), and a log beside a
database of another origin would be applied to it. `RestartPromise` has the same
server with a single variable for what the next start opens; the mapping computes it
from the markers and the staged archive (`NextStart`), so that every file operation
of a start has to be a stutter, except the last one and a log that stays behind, which the
promise excepts by name.

**Sessions** has one step for each database block of a handler, because its future can
be dropped between two, and one for the arrival of the answer. What a session
descends from, a password or an approved code, is history. A client with script
contexts may have a refresh per context; a client without has one.
`crossed` says that requests of a client overlapped or an answer of it was lost since
it last signed in.

**CastSession** lets a read of the device overlap another one, as its interval does.
A row's change and its event are one step, or the event is never sent (the handler is
dropped between). `Forward` takes an event from the page's receiver or learns that
it has lagged; both are a message. `missed` says that a change took place of which no
message reaches the page, and that it has not asked since. `QuietPageIsCurrent`, which is
proved and not listed with a run, is the safety half of `PageCatchesUp`.

Definitions in the modules named as *faulty* (`FinishHolding`, `EnterBlindly`,
`PruneNewest`, ...) are not part of the specifications: each is a plausible bug
put in place of the definition after it, which the properties must notice.

## 3. Runs

| Run | Module | Instance | States (about) | Shows |
|---|---|---|---|---|
| `lifecycle_server` | `MCLibraryLifecycle` | startup and 2 requests of any kind, 1 progress batch | 2.0 million | `OneScanAtWork`, `NewestTokenLives`, `ClientShowsCurrentCatalog`, `QuietNeverIndexing`, `NoPartialAfterWhole` |
| `lifecycle_leased` | `MCLibraryLifecycle` | startup and 2 of local index, automatic refresh, removal | 86 thousand | `QuietReadyIsServed`, `QuietEnrichmentSettled`, `FailedScanKeepsCatalog`, `EveryScanEnds`, `ClientSettles` |
| `lifecycle_failure_unleased` | `MCLibraryLifecycle` | startup and 2 folder scans | stops at the violation | `FailedScanKeepsCatalog` does not hold of folder scans |
| `slot_replacement_order` | `MCScanSlot` | startup and 3 requests | stops at the violation | `ObsoleteSelectionCancelled` does not hold |
| `catalog_generations` | `CatalogGenerations` | 6 publications, 2 damaged files, any number of crashes | 56 thousand | `GenerationsInOrder`, `QuietNewestIsLastRequest`, `StartFindsCatalog`, `EveryRequestSettles` |
| `snapshot_worker` | `MCSnapshotWorker` | 2 importers, 2 workers, 3 changes of a catalog that returns, 2 files kept | 960 thousand | `OneSnapshotWriter`, `PendingIsNoticed`, `QuietSnapshotIsCurrent`, `SnapshotsGrowNewer`, `PendingIsTaken` |
| `library_roots` | `MCLibraryRoots` | 2 folders, 4 requests, at most 1 removal, a damaged file | 450 thousand | `IndexedIsRegistered`, `RemovedStaysRemoved` |
| `removed_root_returns` | `MCLibraryRoots` | the same with 2 removals and no damage | stops at the violation | `RemovedStaysRemoved` does not hold of two removals |
| `catalog_store` | `MCCatalogStore` | 2 tasks at a time of 3, 3 changes, 1 batch, 1 restart | 6.65 million | `WholeCatalogShowsDatabase` |
| `staged_restore` | `MCStagedRestore` | 2 uploads of 2 archives, 3 starts, any number of crashes and failed removals, resets | 6.3 million | `RestartKeepsPromise` (the refinement), `PendingIsWhole`, `ReplacedIsKept`, `OpensNoForeignLog` |
| `sessions` | `MCSessions` | a browser with tabs and a device, 2 requests at a time, 3 sessions, 2 passwords, 1 code | 3.05 million | `OneSessionPerSignIn`, `OldPasswordIsCutOff`, `ClientIsAsTold` |
| `cast_session` | `CastSession` | 1 device, 1 read at a time, 2 sessions, 3 changes, a channel of 1 | 1.14 million | `StoppedStaysStopped`, `PageCatchesUp` |

`library_roots`, `staged_restore`, `sessions` and `catalog_store` also check their
module's type invariant; that of the other modules is a theorem. That the lifecycle
implements the scan slot is a theorem too (`ImplementsSlot`), and so is the invariant
of the slot; a run would only repeat what the shape of the actions gives. Why the bounds are enough:

- *Lifecycle.* Two requests beside the startup are a holder, a request that
  replaces or refuses it, and one more. Every pair of kinds meets, both with the
  startup still loading and after it. One batch is enough for a batch that comes
  late, is lost in a full channel, or is still held when the scan ends; a second
  one only repeats that. The requests' names are symmetric; the startup's is not.
  Deadlock is checked: the client polls for ever.
- *Leased.* `lifecycle_server` has folder scans, refreshes, edits and streams,
  of which the properties of this run do not all hold (section 6, and the hazards
  of `abort` and of unleased publishers). The leased kinds are those whose last
  setter is done before the lease is dropped. It uses no symmetry, because it
  checks liveness.
- *Slot.* The counterexample needs a refresh and two selections; a fourth is the
  startup. Its safety properties are proved for every number of requests.
- *Generations.* Two files are kept, so that rotation takes place from the third
  write on; six publications let three overtake each other, a rotation and a
  crash follow, and two damages are one more than the code promises to survive.
- *Snapshots.* Two workers are the one that ends and the one that starts; two
  importers the one that claims and the one that finds the claim. Three changes
  over two kept files make rotation drop one (the code keeps three unless it is
  configured otherwise; the theorems are for any number). The third version has the
  content of the first, so that a catalog can return during a pass.
- *Roots.* Two folders tell the removed one from the others. Four requests are
  two indexings, a refresh and a removal, in any order. Requests end and
  nothing follows, so deadlock is not checked here, nor in the other runs with a
  bounded number of publications, changes, tasks or starts (`catalog_generations`,
  `snapshot_worker`, `catalog_store`, `staged_restore`).
- *Catalog store.* Two tasks are the smallest overlap, and a third one shows what an
  overlap has left for others. Three changes are those of an indexing, or of an edit
  between two others. One batch can be stored before or after the
  indexing's own read, or by a publisher that was told to stop. One restart serves the
  file once, written or not. The tasks' names are symmetric.
- *Restore.* Two uploads are one that disturbs another, or a second archive over a
  staged one. Three starts are two that die and one that comes through. Two
  rollbacks are kept (three in the code), so that a third attempt prunes one. One
  archive lacks a folder, and both folders behave alike; files inside a folder are
  one copy. The uploads' names are symmetric.
- *Sessions.* Two requests at a time are two tabs, or a refresh and a logout, or a
  sign-in and a change of the password. Three sessions are a sign-in and two
  rotations. Deadlock is checked: a request can always be sent.
- *Cast.* Two sessions are the current one and the one before. Three changes let
  a command, a report and a stop follow each other, and over a channel of one they make
  it overflow; other users' events do so too. The code's channel is larger,
  and overflows alike. Liveness forbids a larger instance in reasonable time.
  Two reads at a time are allowed by the module but not in this instance.

Every cap is a constant: `MaxBatches`, `MaxRequests`, `MaxDamage`, `MaxVersions`,
`Generations`, `MaxRemovals`, `MaxTasks`, `MaxChanges`, `MaxStarts`, `MaxUploads`,
`Kept`, `MaxSession`, `MaxVersion`, `MaxPairing`, `MaxSessions`, `MaxForeign`,
`EventBuffer`, and the sizes of `Scans`, `Roots`, `Tasks`, `Importers`, `Workers`,
`Uploads`, `Requests` and `Polls`.

## 4. Fairness

Safety is checked of `Spec`, which lets any task stop anywhere. For liveness:

- `LibraryLifecycle!Fairness`: weak fairness of the steps of each request's task
  and its setter (`ScanIsFair`), of its publisher and that one's setter
  (`PublisherIsFair`), and of the client's polls and answers (`ClientIsFair`). Tokio runs a
  task that can go on, the async mutex is first-in first-out (the model's queue
  is), and the shell polls on a timer. Nothing is assumed of arrivals, nor that
  an indexer sends batches. `Work` steps always have an outcome, because the
  code's database and file operations return or fail.
- `SnapshotWorker!Fairness`: weak fairness of each thread's steps: the operating
  system schedules threads. Imports, failures and crashes are not fair.
- `CatalogGenerations!FairSpec`: weak fairness of each request's task. The lock is
  passed on in an arbitrary order, which suffices because a task that
  is entered leaves for good.

- `CastSession!Fairness`: weak fairness of the socket's loop that takes events
  (`Forward`), of the server's answer to the page's request (`Find`, `ReadCurrent`), of
  the page's handling of answers and messages (`Show`, `Message`), of a
  handshake that was begun (`Open`) and of the page's timer, which asks every 30
  seconds while there is no connection (`Refetch`). Devices, users and broken connections are not fair.

`LibraryRoots`, `StagedRestore`, `Sessions` and `CatalogStore` state no liveness: a
request or a start may fail, die or be given up at each step, and nothing
retries it by itself.

## 5. Proofs

All theorems are about `Spec` (or `SlotSpec`) with the constants arbitrary: any
set of requests, threads, folders, any number of publications or versions. Every
safety property that a passing run checks, the refinement included, is stated by a
theorem, and so is every liveness property, from the hypotheses named below. The
assumptions are the named ASSUMEs of the modules: bounds are numbers, and
markers such as "nobody" and "no catalog" are not one of the things they stand beside.
Of the safety theorems, hypotheses beyond that are in two places, and written out:
`LeasedReadyIsServed`, `LeasedEnrichmentSettles` and `LeasedFailureKeepsCatalog` are about
requests that hold their lease to the end, and `RemovedIsGone` about one removal, because
the code does not keep the properties otherwise (section 6). Every inductive invariant was checked by TLC on the instance of
a run before it was proved.

**ScanSlot** (in `LibraryLifecycleProofs`). `SlotInvariant` proves the inductive `SlotInv`. `LeaseExclusion` alone
is not inductive: handing over must know that the queue holds each waiter once,
holds nobody else, and is empty when there is no holder (`QueueInv`,
`HolderInv`); and tokens need that a token is cancelled only when it is replaced
(`TokenInv`). From it: `SlotTyping`, `SlotExclusive`, `WaitersNotLost`,
`NewestSelectionLives`. The lemma `HandOverQueue` says what passing the mutex on
does to the queue.

**LibraryLifecycle.** `ImplementsSlot` is `Spec => SlotSpec`: every step of the
lifecycle is a step of the slot or leaves it alone. What is proved of
the slot then holds in the lifecycle, and `NewestTokenLivesInService` is just
that. `OneScanAtATime` adds `LeaseInv`, which ties the handlers' places to the
slot's phases: who works between `begin` and `leaving` is in phase `leased`.
`ClientIsCurrent` rests on `ClientInv`: if the client has seen the present
revision, either what it shows or the answer on its way is the visible catalog, or
it will ask again, or some task is between catalog and revision; and the revision
never falls behind what the client saw. The lemmas `WritesAreJobs` and
`...KeepsJobs` reduce the many handlers to one fact, that they write cells only
through jobs. `LifecycleTyping` uses the slot's typing.

`NeverLeftIndexing` needs who will write readiness last. `IndexingInv`: while clients are
told "indexing", somebody owes them more - a handler that has announced itself and not
yet settled, a setter inside its job, or a selection that waits for the slot - and a
holder that was cancelled, and so may leave without a word, was cancelled by a
selection that still waits. The second half is `TokenInv` of the slot at
work. `WholeIsNotUndone` needs `PartialInv`: a batch is in a publisher's hands only while
its channel is being received, and a handler has the whole catalog, in its job or in the
visible cell, only when its publisher has ended or never began. Both are of requests
of any kinds.

The last three theorems assume `Kinds \subseteq HeldToTheEnd`: local indexes, automatic
refreshes and removals, beside the startup. `LeasedInv` says of each place of the holder
which setter was its last and what it left (`LeasedAt`, `LastSetter`), that what was
published is served (`Published`), and that without a holder everything is
`Settled`; setters write only under the lease, so that the holder is the only one
to be followed. The other kinds publish after their lease or without one, and break
these properties.

**SnapshotWorker.** `FlagInv` says that RUNNING is set exactly while one thread is
in the region it guards (`OneOwner`, `OwnerRuns`, `RunningOwned`) and that a
pending request is noticed; hence `OneWriter` and `RequestsAreNoticed`. `FileInv`
orders the versions a pass has in hand - recorded, fingerprint, copy, newest file,
database - and gives `RecoveryNeverGoesBack`. `CatalogInv` adds that a thread which
will look at the flags again exists whenever the newest file is not current;
`QuietSnapshot` follows, for any fingerprints: a pass that ends without copying found
the recorded fingerprint to be the catalog's, and then either the newest file is of that
content or the catalog has returned to what was recorded while something else was
copied, which is `CatalogReturned` and nothing wider.

**CatalogGenerations.** `OrderInv`: whoever writes is later than every file
(`WriterIsLater`), because the lock is taken before the second look and later
requests cannot have written in between; hence `FilesInOrder`. `FileInv` adds that
the last request is in flight, saved or given up; hence `LastRequestIsSaved`.
`GenerationsTyping` includes that the writing task has the lock. `FallbackInv` gives
`FallbackIsKept`: after two writes there are two files, because pruning keeps two and
comes after the rename, and of two files at most one is damaged.

**LibraryRoots.** `RegistryInv`: stores change only under the lease, a folder is
registered before its rows are committed, and a folder that is about to be
unregistered has no rows. Hence `RowsAreRegistered` and `RootsTyping`. `RemovedIsGone` is for
one removal among any finite number of requests. `RemovalInv` follows the removed
folder: no other request that has the lease has it in hand (`Unknown`: lists are read
under the lease, except by the removal itself, which is why a second removal is
excluded), and `libraries.json.bak` is put back only when the file is gone, and then does
not name it (`FilesFit`).

**CatalogStore.** `StoreInvariant` proves `StoreInv`, a proof outline of each
kind's program. `Places` lists where in the programs a step occurs; `CellRight` and
`HeldRight` are the places where a task that has run by itself knows the cell to be empty
or current, and where it holds what the database has; `NextPlaces` shows that each step
carries them from one place to the next. A task that met another one knows nothing,
and its end sets `disturbed`. The rest is what tasks know of others. A publisher is at
work between spawn and join, where the indexing relies on neither, or it was told to stop,
and then nobody under way runs by itself (`PublisherInv`): the failure that aborted it has
set `disturbed`, and a task that begins beside it counts as overlapped. Of the file:
unless something was given up (`unsaved`), what is written, being written or asked for last
(`Wanted`) is what the database has (`FileShows`), which each write and each
request carries over. A start on an empty database finds the cell empty, because
only edits may be beside it and they find nothing either (`LoadInv`). Hence
`WholeCatalog` and `StoreTyping`.

**StagedRestore.** `StartInv` says where in its loops a start is and which markers it
has seen. `LogsFit`: a log beside a database of another origin exists only while a
reset or a restore that is still to be done will come to it, or when its removal
failed and it is in `logsLeft`; hence `NoForeignLog`.
`Progress` says what is already replaced at each place, so that `NextStart` is the same
before and after each file operation, crashes included; `PromiseKept` is then the
refinement of `RestartPromise`, step by step: a start stutters until it opens, or
excepts a database whose log it could not remove. `StagingInv`
follows an upload that nothing disturbed - no other upload, no cut, no leftovers
that could not be removed - from entry to entry and gives `PendingWhole`.
`KeptInv` gives `ReplacedKept`: of what the server had open, what the restore has passed is
in the rollback folder of one of the attempts since, and what it has not is
still in place.

**Sessions.** `SessionInv` adds to `OneSessionPerSignIn` where requests are
(`RequestsInPlace`), that all sessions of a sign-in carry the version of the password it
proved (`SessionsAgree`), that a refresh at its second block saw the version its
token carries (`ReadsAgree`), and that a code which is being approved is approved by one
request and has no session yet (`CodesUsedOnce`). Hence `SessionTyping`, `OneSession` and
`OldPasswordCutOff`: rotation happens in the transaction that looks for the row, and a
session is stored with the version that was seen, so that a sign-in which raced a change
of the password is never accepted. `ClientTold` is the long one: `ClientInv`
says that no two clients have tokens of the same origin (`ClientsApart`), that the
answer to a sign-in and the entry of a code are the only traces of their session
(`FirstAnswersWhole`, `PairedWhole`), and, of a client whose requests have not crossed, what
holds at each step of its only request (`Told`).

**CastSession.** `RowInv`: what a device has read of a row is how the row was at that
revision (`ReadsAgree`); a report is taken only of the revision it names, so that no
late one revives a stopped session (`StoppedForGood`). `PageInv` (`HearsOrKnows`): the page
shows the current session, or a message of a change is coming, or it is asking and will be
told the current one, or it has missed a change. Hence `QuietPage`: with nothing on its
way and nothing missed the page is current, which is the safety half of `PageCatchesUp`
and holds for any size of the channel. `CastTyping` includes the channel's bound.

**Liveness.** The provers know nothing of ENABLED. Each liveness theorem is therefore
about the fair specification *and* the invariant that says which actions are enabled
(`NothingIsStuck`, `TasksCanStep`, `ThreadsCanStep` or `PageCanStep`, always). These
follow from the shape of the guards - of the cases at a place one is always open, except where
the code waits - and say nothing of the code by themselves, so that no run lists them; from
there on the fairness rules, the inductive invariants and the temporal steps are all
proved, for any constants. The other thing that cannot be done is an induction
over a temporal formula; where an argument needs one, what it would yield is a hypothesis too.

- `ArrivedScansEnd` (`EveryScanEnds`): every scan that arrives ends. `Rank` numbers
  the places of a handler by how far it has to go; only its own steps change its place
  and each of them lowers the rank (`RankFalls`, `OthersLeaveScan`, `LevelSteps`). What may
  keep a handler is its setter, which goes through its steps (`ScanSetterEnds`); the
  publisher it drains, which has nothing sent to it any more, empties its channel and
  ends (`DrainEnds`); and the slot. The holder of the slot has a place past its wait, or is
  about to have one (`PhaseInv`, `HolderBegins`), so that it leaves (`HolderLeaves`, from
  `PassedScanEnds`); when it does, everybody in the queue moves up by one place
  (`QueueSteps`). That is `WaitersMoveUp`: from the place k + 1 to the place k, for
  every k, place 0 being the slot itself. That one then gets from any place to place 0 is
  an induction over k. `PlaceInduction` states this instance of induction - if everyone
  moves up from every place, everyone gets to place 0 - and is the theorem's second
  hypothesis: a truth of arithmetic which every behaviour satisfies, not a
  restriction. The theorem is of requests of any kinds, where the run has the leased ones.
- `ClientSettlesDown` (`ClientSettles`): once nothing is in flight (`<>[]Quiet`), the client
  sees the last revision, its fetch is answered with the visible catalog and shown, and no
  older answer takes its place (`ClientInv`).
- `RequestsAreTaken` (`PendingIsTaken`): a pending request has a thread that will
  look (`RequestsAreNoticed`), and that thread goes through its places to the one where
  it takes the request. It needs no further hypothesis.
- `RequestsSettle` (`EveryRequestSettles`), if publications stop (`PublicationsStop`): the
  holder of the lock leaves it, everybody but the last publication goes straight
  through, and when the last one is over the lock comes free for good. Without an end to the
  publications a task may be passed over at the lock each time; the model has
  at most `MaxRequests`, so that all its behaviours satisfy the hypothesis, and showing so is an
  induction over their number.
- `PageCatches` (`PageCatchesUp`), if what the server still sends runs out (`NewsRunsOut`):
  from then on a page that does not know is asking, and is told the
  current session (`HearsOrKnows`). That a channel and a socket which receive
  nothing more become empty is an induction over their content.

Left to TLC: on bounded instances the whole of each liveness
property, without any of the hypotheses. The three violations are counterexamples and
nothing to prove.

## 6. What the code does not keep

Three runs end in a violation, each of something the repository says of itself;
the lines are quoted in `PROJECT.json`.

- `ObsoleteSelectionCancelled` (`state.rs:496-530`). A refresh that takes the
  mutex between a selection's token swap and its wait overwrites that token. A
  second selection then cancels the refresh's token and waits behind the first
  selection, which runs uncancelled.
- `FailedScanKeepsCatalog` (`library.rs:429-437`). A folder scan owns its lease
  inside a block whose failure is written after the block, with the lease gone.
  `set_scan_failed` looks for a catalog and clears it later; the next scan can
  publish in between, and its catalog is taken away.
- `RemovedStaysRemoved` (`library.rs:889-928`). A removal reads the configured
  folders before it takes the lease. Two removals at once: the second writes the
  first one's folder back.

`library_roots` and `lifecycle_leased` show that the last two properties hold where
those orders cannot occur.

Other limits are part of the models, and the properties say where they stop.
They are what a reader should know before relying on a property:

*Catalogs* (`disturbed` and `unsaved` in `CatalogStore`). An edit, or a stream of an
unknown song, that overlaps a scan can put an older catalog in the cell, serve it and
save it; it stays until the next reload. An automatic refresh, and the removal of
the last folder, do not save: the older file is served again after a restart.
The load of another task can put an old catalog back after the indexing has
cleared the cell (`library.rs:378` expects to read the database again). An
indexing that fails leaves its preview in the cell, and a stream may publish it; its
publisher, which is only asked to stop (`library.rs:394`), may store and serve one more batch
after the lease is back. The file is written 750 ms after it was asked for, a failed
write is a warning, and a stop in between loses the request (`state.rs:273-305`): the next
start then serves an older catalog.

*Snapshots* (`CatalogReturned` in `SnapshotWorker`). The fingerprint is taken before
the copy. If the catalog changes between the two and later returns to what was
fingerprinted, the import that returned it finds it unchanged and no snapshot of it is
made, although `apps/site/content/docs/data-safety.mdx:41` promises one after every
catalog-changing import.

*Restores* (`disturbed`, `clean`, `tries` and `logsLeft` in `StagedRestore`).
- A `Restore/incoming` that cannot be removed is unpacked into (`api/data.rs:918`): what is
  staged can then have files of an earlier upload.
- A log that cannot be removed is left beside the database that was restored
  (`settings.rs:220-221`), which is then opened with it.
- Two uploads at once unpack into one `Restore/incoming`, and what is staged can be a
  mixture of both.
- A staging that is cut while it replaces an earlier one leaves `READY` beside an
  incomplete archive: the next start is refused each time (`settings.rs:184-189`), or,
  when only folders were removed yet, applies what is left.
- The rollback copies a database without its log: commits that were not checkpointed
  when the server died are not in it.
- With more interrupted attempts than rollbacks are kept, the originals are pruned.

*Sessions* (`crossed` in `Sessions`). A logout while another tab refreshes leaves the
rotated session behind. Of two tabs that refresh at once the loser's
refusal clears the winner's cookies. An answer lost after a rotation has used up
the token. An approval whose handler is dropped between making the session and
handing it out leaves the code taken until it expires, and a row nobody holds. A
sign-in that races a change of the password leaves a row that is never accepted.

*Casting* (`missed` in `CastSession`). The page does not ask again when its
socket comes back or says it is ready, so that a change in the gap of the reconnect
stays unseen until the next event: its timer runs only without a connection, and
the reconnect comes first. An event during the very
first request is lost, because that request is not started again. A session that
has ended, but was not stopped, may report that it plays again, beside a newer one. A
newer command replaces one the device has not carried out. The answer to a late
report makes the device take an old session for its own again
(`use-cast-output.android.ts:202`).

## 7. Not modelled

- *A handler whose future is dropped* because its client went away while it
  waited, except in `Sessions`; panics and join errors.
- *Timers.* Sleeps are steps that may take any time. The back-off of the automatic
  refresh is nothing but its intervals, and its change journal feeds them.
- *Clocks that step back.* Files are appended in the order of their names.
- *The indexer's parse pipeline.* Its channels end when their senders do; its commits,
  exports and batches are steps of the modules that meet them.
- *Integrity checks, migrations and the pool* in `connection.rs`: sequential
  start-up code in front of SQLite.
- *Making, listing and pruning backups* (`data.rs`): the retention plan is a
  function of dates, and the two tasks that may run it at once only remove files. It
  keeps the newest backup of a day, so that the safety copy made before a reset or
  a restore can be the one it removes that same day.
- *Of sessions*: throttling, registration, renewal after a change of name, the cache
  of image requests, the split between access and refresh cookie.
- *Of casting*: expiry after twelve hours, positions, media URLs, history. Playback
  queues: a write is one statement.
- *Playlists, users, setup, lyrics, images*: one transaction or one memory cache each.
- *Data algorithms*: tag inference, normalisation, search, recommendation, the
  indexes of `LibraryCache::build`. They are functions of text and large catalogs;
  nothing in them interleaves.
- *Hosts and user interface*, apart from the shell's polling, the SDK's refresh and
  the two cast hooks.

## 8. Plan

Done: all modules of section 2 with their runs; theorems for every property that a
passing run checks, safety, refinements and liveness.

Next:

1. Discharge the hypotheses of the liveness theorems where a prover can be made to: the
   ENABLED predicates by a proof system that expands them, the inductions over a
   place, a number of publications or a channel's length by one that takes temporal formulas.
2. Further models, if they earn a run: the transcode cache, the retention of backups, the
   playback queue between two players.
