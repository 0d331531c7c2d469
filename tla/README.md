# Rock Band Blitz recompilation: a TLA+ verification of its native services

The program is a static recompilation of a console game. The recompiled guest and the ReXGlue SDK
under it are generated or third-party code. What this repository adds, and what this project is
about, are the native services around the guest in `src/src`: a song store that searches, lists and
downloads packages, a library of packages that the guest must see, settings that live in several
files, a graphics preparation, music for the menu, a watchdog that restarts a hung or crashed load,
and the installer. They run on guest threads (through hooks on file queries and writes), on worker
threads of their own, on the window's thread, and in further processes.

All paths below are relative to the repository's root, which is `src/` here.

## 1. Inventory

| Component (code) | State | Operations | What makes it correct | Module |
| --- | --- | --- | --- | --- |
| **Store download service** (`src/store/store_download_service.cpp`, `store_install.cpp`) | offers, jobs, queue, deletion marks, the active token, cancel/stopping/worker_running flags, the worker's thread object, files in the library folder | register, enqueue, delete, cancel, stop, exit; the worker's take, attempt, retry, install, delete | one worker at a time; no queued job is forgotten; a cancel stops its own job; what is installed is on disk and nobody else's; every accepted job ends | `StoreDownload`, `InstallQueue` |
| **Package transfer** (`store_download.cpp`, `store_transfer_winhttp.cpp`) | one part file, one response | redirects, head checks, chunk writes, length and identity checks, retries | only the whole body is reported as downloaded; a cancel is told as one | `PackageTransfer` |
| **DLC library refresh** (`src/hooks/dlc.cpp`, `dlc_refresh.cpp`, `src/fs/refresh_state.h`) | running and pending flags, the payload, the published list and paths, the publishing flag, the refresh worker and its mutex | begin a scan, publish, ask after an install, defer the discovery panel, drain for a restart | one scan at a time; the panel enumerates its own scan and always resumes; nothing starts behind a restart | `LibraryRefresh` |
| **Store library index** (`src/store/store_library.cpp`) | the index, a revision, building/pending/quit flags | build, request, invalidate, forget a deleted package | an index is of its revision and of the disk, and a request is answered | `StoreLibrary` |
| **Store catalogue** (`store_catalogue.cpp`, `store_settings.cpp`) | the list, its settings generation, pending and quit flags, the caption | refresh, walk the site's pages, land, back off, retry | a list taken for fresh has the current filter; a walk ends | `StoreCatalogue` |
| **Store search** (`store_search.cpp`, `store_search_service.cpp`) | the session's generation, text, answer; one posted job; the modal | type, submit, walk, accept, cancel, leave | what is listed answers the text in the field; the modal closes | `StoreSearch` |
| **Album art** (`album_art_service.cpp`, `album_art.cpp`) | a bounded queue, its marks, published URLs and textures | queue a page's covers, move a selected one to the front, evict, fetch, publish | a mark is exactly a request somebody will serve | `AlbumArt` |
| **Settings service** (`src/settings/service.cpp`, `store.cpp`) and **bridge sink** (`bridge_sink.cpp`) | the document and its base, pending edits, the journal, `settings.toml`, the provider's file, the saved revision | begin, set, cancel, commit, recover, restart | a combined commit is atomic across crashes; edits are not lost; no restart over a half-saved state | `SettingsCommit` |
| **Local save** (`src/hooks/local_save.cpp`, `src/fs/local_save.h`) | the guest's object, the checkpoint file, dirty/writable flags | load, restore after a teardown, checkpoint, retry | progress is not overwritten by an emptier save | `LocalSave` |
| **Song-load monitor** (`src/platform/song_load_monitor.cpp`, `src/loading`) | a shared page of three words, both processes | arm, retire, poll, claim, terminate, replace | only an overdue load is ended; a replacement is owed and alone; a hung load does end | `SongLoadMonitor` |
| **Restart coordinator** (`src/platform/game_restart.cpp`, `src/rb_blitz_app.h`, `src/main.cpp`) | phase, token, child, the parent's pid | request, spawn, close, wait for the parent | one game at a time, one child per boot; the child decides | `GameRestart` |
| **Graphics preparation** (`src/graphics/preparation_loading.cpp`) | the gate, the extraction worker, the renderer's generation | start, publish, begin, retry, ignore, leave, close | one writer of the ledger; a release is current; the gate answers and the close returns | `GraphicsPreparation` |
| **Menu music** (`src/hooks/shell_music.cpp`, `menu_music_queue.h`, `menu_music_session.h`, `menu_music_cache.h`) | a queue of two, a playlist with its windows, mounted packages, the stream | probe, prepare, mount, start, next, previous, evict, close | the song that plays stays mounted; the wait for a song ends | `MenuMusic` |
| **Installer** (`installer/setup.iss`, `installer/src/install.cpp`, `commands.cpp`) | the installed files, a staging folder, the helper processes, the summary file, the record | stage, verify, move, check, record; poll, give up | an install is untouched until its replacement is verified, but for a build the wizard carries itself; a clean run repairs | `Installer` |
| **Page cache, message feed** (`store_page_cache.cpp`, `src/messages`) | a map under one mutex; one immutable snapshot | get, put, begin, end; load, fetch once, publish | see section 6 | - |
| Input, profiles, schema, UI authoring, parsing, assets, diagnostics | data | pure or single-threaded transformations | see section 6 | - |

How they interact: the menu writes paths that `settings_bridge_hooks.cpp` forwards to the download
service and to the bridge sink. A finished download calls the library refresh (through
`Config::refresh`) and invalidates the store index; publishing a refresh sets the package paths the
index is built from and raises the content epoch of the graphics gate. A settings commit raises the
generation the catalogue and the search compare with. A restart asked of the bridge sink drains the
downloads and the refresh worker, starts the child and closes the window; closing the window also
closes the gate and the music. The hooks on the loading screen arm and retire the monitor.

Where two components meet in more than a call, the meeting is modelled on one side: the store's worker
that asks for a scan, the restart's drain and the two lists of a publish in `LibraryRefresh`; the
deletion the worker owes the index in `StoreLibrary`; the outcome alphabet of a transfer in
`StoreDownload`; commits of the settings in `StoreCatalogue` and `StoreSearch`; a new library in
`GraphicsPreparation`.

What is hard here: flags read under one lock and used under none, threads that are joined by
whoever starts the next one, results handed over in two steps, a commit over two files that cannot
be replaced together, lock-free words shared with another process, answers that arrive for a question
nobody asks any more. `PROJECT.json` lists the hazards at their lines.

## 2. The modules

| Module | Models | Notes |
| --- | --- | --- |
| `InstallQueue` | the abstract promise of the download service | a queue of install and delete requests: accepted, replaced, withdrawn or dropped, served one at a time, each touching only its own song's packages |
| `StoreDownload` | the download service | the detailed specification; implements `InstallQueue` |
| `PackageTransfer` | one job's transfer, chunk by chunk | the inside of `StoreDownload`'s transfer step |
| `LibraryRefresh` | the refresh state, scan worker, publishers, discovery panel, store ask, restart drain | every atomic access is a step |
| `StoreLibrary` | the store index and its background builder | revision-fenced single flight |
| `StoreCatalogue`, `StoreSearch`, `AlbumArt` | the catalogue's walk; the search session, its worker and the menu's script; the covers | every locked section is a step |
| `SettingsCommit` | the settings service, its store, the provider's file, the journal and the bridge's restart guard | every file operation is a step and may fail; a crash is possible at any step |
| `Installer` | the wizard and its helper processes | as above, and a helper may be given up on and go on |
| `LocalSave` | the player's progress and its checkpoint | as above, with restores that fail |
| `SongLoadMonitor` | the shared page and both processes | every read, write and compare-exchange is a step |
| `GameRestart` | the handler, the window, the child's bootstrap | pids are reused |
| `GraphicsPreparation` | the gate on the connect screen | guest, extraction worker, renderer, closing thread |
| `MenuMusic` | the menu's library music | guest poll and worker |
| `*_proofs`, `StoreDownload_refines` | - | theorems, one module per component or bundle |
| `MC*` | - | the instances for TLC |

The larger components have an `MC` module of their own. `MCStoreServices`, `MCDurableFiles` and
`MCApplication` each check several small ones in a run: they extend one module and instantiate the
others on variables of their own; a variable `which` picks the one whose steps a behaviour takes, and
the rest keep an initial state. The components share no state there and nothing is claimed about their
interleaving; fairness is stated per component as `OnlyX /\ Step`.

### StoreDownload and PackageTransfer

A guest thread and one worker take the service's mutex; a critical section is one step and what
happens outside it (joining and starting the thread, the cancel flag of `HandleDownloadWrite`, a
transfer, a rename, the retry sleep, the refresh) is a step of its own. `guest.pc` says where
the caller is and `worker.pc` where the worker is. Names follow the code: `Enqueue`, `Cancel`, `DeleteNow`,
`EnsureWorker`/`SpawnWorker`, `StopDownloads`/`StopJoined`, `ExitRaise`/`ExitLock`/`ExitJoined` (the
destructor of the static state), `WorkerTakes`, `JobAttempt`, `CommitInstall`, `DeletePackage`. The
master switch is restart-scoped in the game's schema (`store_settings.h:11-15`), so it is chosen once.
Left out: the receipts file, the byte counters, the error text of a job, and the staged part file, which no
condition of the service reads and which is `PackageTransfer`'s.

`PackageTransfer` opens the transfer step: hops and redirects, the head's checks, the magic held back
until it is complete, chunks with a stream that buffers and a volume that fills, the close, the order of
tests that turns a flag, a dropped connection or a short body into a verdict, the header's identity,
the commit, the retries. The removal of an older part file may fail, as `DiscardStagedFile` ignores its
error, and a job that ends before its first attempt leaves one where it is. Bytes are units; a response
is a length, a count and what the code looks at.

### LibraryRefresh

Guest threads, the scan worker, the store's worker and the restart drain. `refresh_state.h` is two
atomics, so `ScanFinishes` sets pending and clears running in two steps and `RefreshReadyForDiscovery`
is three reads. A scan takes one snapshot of the folder; packages never leave the folder here.
`polling` is the set of guest threads that publish; two properties hold for a single one and say so.

### StoreLibrary

The builder lists the folder, mounts the packages and publishes, without the mutex in between. A package
that does not mount or has no metadata is passed over; `unread` is a history variable with the packages the
published index's build met and could not read. An index is the set of packages it was built from.
`PublisherSets` may publish any list, because which one the refresh publishes is `LibraryRefresh`'s matter.
`absent` is a history variable: packages that were gone when the current revision began.

### StoreCatalogue, StoreSearch and AlbumArt

The catalogue's worker reads the settings and their generation in two steps, walks pages with a pause
between them, and lands each against the generation; the guest refreshes, retries a failure and commits
settings. Offers are lists of the filter they were made with. The search has the menu's script as a
third party (keyboard, modal, poll, list), a worker that takes one posted job, and settings commits
behind it. A text is a value; matching is left out. A double press within 50 ms is not filtered here.
The covers have two callers (the guest and the catalogue's worker), whose look at the textures and whose
queueing are two steps.

### SettingsCommit

One row of `settings.toml`, one of the provider's file, three values. A commit is lock, recovery of an
earlier journal, split, journal, native save, provider save, retire the journal; each is a step and each
file operation may fail; `Ends` is a crash (or an exit) between any two of them. `WriterSaves` is another
process with its own `Store` on the same file. `doc` and `base` are the store's two copies: `MarkChanged`
edits the first and `Load` sets both. A load that cannot use the file leaves both empty, and no caller looks
(`store.cpp:1127-1141`, `service.cpp:541`, `:672`): the rows then have their compiled defaults (`Default`),
and a later save meets a conflict on every row. Save is atomic because the code writes a temporary file and
replaces under the file's lock. Not modelled: the input store's commit, linked plans, the local provider,
migration, `edit_failed_`.

### Installer and LocalSave

A run's build comes in one of two ways. Embedded, as in the released installer: `[Files]` copies it over
the installed one before the stages (`CopiesFile`, `CopyEnds`), and its stage checks it where it is
(`VerifiesInPlace`). Staged, as the updater and an installer that downloads its build do: fetched,
verified in the staging folder and moved. The game and the mod are always staged.

The wizard starts a helper per stage and polls its summary file; after its silence limit it goes on, or
fails, without ending the helper. Helpers given up on (`Abandoned` slots) go on beside the next stage's, with
which they share a staging folder and the summary, and beside the next run's, whose summary is another
file. A file is of the version it belongs to, or torn. The machine may go down between any two file
operations. Downloads, archives and STFS packages are one kind of source. Left out: uninstalling, the two
configured folders, a second wizard beside the first (a run begins when the wizard before is over), and
what becomes of one file that two helpers write at the same moment in a shared staging folder.

`LocalSave` has a guest that clears its object at any time, restores that fail in an allocation, saves
that fail, files that cannot be read, and crashes. A payload is the set of scores and stars it carries
and the rest. A power cut is left out: the code replaces the file without flushing it first
(`local_save.h:117-128`, unlike `atomic_file.h:138-144`), so nothing could be promised.

### SongLoadMonitor and GameRestart

The game's guest thread begins and ends loads, its window thread ends them on close, the process
may exit or crash at any point, and the settings may publish another limit at any point. The monitor
follows `RunMonitor` read by read. The start handshake may fail with the monitor still alive. The
clock cannot fail here (`QueryUnbiasedInterruptTime` returning an error would only disarm a load).

`GameRestart` has the request on the guest's thread, the window's close, the end of the process and the
child's bootstrap (open the parent by pid, compare, wait), where a pid may have gone to a stranger. The
drain before a request is in `LibraryRefresh`.

### GraphicsPreparation

A script query is one step of the guest, cut where it takes the extraction's mutex, waits for a join or
begins a renderer generation. The library may be replaced at any time, the player may leave, retry or
ignore, and the window may close at any time. The renderer's phases before a terminal one are one.

### MenuMusic

The guest's poll is a cycle of steps, each a section under the music's mutex; the worker prepares a
package or reads a batch of the catalogue outside every lock. Simplifications: the playlist's history
beyond the warm window is forgotten; counters of passes and the outcomes of probes are dropped, and so
is the removal of duplicate songs; a device that fails to register is one that failed to prepare; load
and start of a stream are one step; artwork leases are open files. Left out: the player's pause and
resume, the game's own title track (library music switched off), the now-playing card.

## 3. What the runs check

| Run | Properties | States |
| --- | --- | --- |
| `downloads` | `OneWorker`, `QueueWellFormed`, `InstalledIsOnDisk`, `ImplementsInstallQueue`, `QueuedIsServed` | 551 k |
| `refresh` | `ScanIsAlone`, `BarrierHolds`, `ListsAgree`, `EnumeratesOwnScan`, `PanelResumes`, `BarrierReturns` | 261 k |
| `store_services` | `ServicesTypeOK`; index: `IndexIsCurrent`, `RequestedIndexArrives`; catalogue: `CurrentUnlessTorn`, `WalkEnds`; search: `ListedIsAnswer`, `ModalEnds`; transfer: `AcceptedIsTheBody`, `CancelIsHonoured`; covers: `PendingIsOwed` | 218 k |
| `durable_files` | `FilesTypeOK`; settings: `RequestedIsDurable`, `OutcomeMoves`, `EditsNotLost`; installer: `UntouchedUntilVerified`, `CleanRunRepairs`; progress: `ProgressSurvives`, `ScoresAccumulate` | 1.8 M, symmetry |
| `song_load_monitor` | `ReplacementIsOwed`, `ClaimIsOwed`, `StuckLoadRestarts` | 810 k |
| `application` | `ApplicationTypeOK`; restart: `OneGame`, `ChildDecides`; gate: `OneLedgerWriter`, `ReleasedIsCurrent`, `GateAnswers`; music: `StreamIsMounted`, `LibraryPlaysOn` | 135 k |
| `download_cancel_wrong_job` | violation of `CancelHitsItsJob`: a cancel may stop the next job | |
| `refresh_ride` | violation of `InstallIsPublished`: an install that rides a running scan may be in no list | |
| `catalogue_torn` | violation of `CommitInvalidates`: a list of the old filter passes for fresh | |
| `package_partial` | violation of `InstalledIsWhole`: the part file's close is not looked at | |
| `settings_partial_restart` | violation of `PartialBlocksRestart`: a partial save does not block the restart for good | |
| `restart_reused_pid` | violation of `ReusedPidStarts`: the child exits though its parent is gone | |

The properties:

* Downloads. `OneWorker`: the worker is started by whichever caller finds `worker_running` clear, so
  two workers are one reordering away. `QueueWellFormed`: tokens are not queued twice, a deletion mark
  belongs to a queued token, the bound holds (a deletion behind a running install included), and a
  waiting token's offer is not evicted. `InstalledIsOnDisk` relates jobs to files. With `queue` and
  `active` mapped to the abstract queue and server, `ImplementsInstallQueue` says that every step is an
  abstract step or a stutter; `QueuedIsServed` that a queued job is taken, withdrawn or dropped, and
  that a job which began ends.
* Refresh. `ScanIsAlone` (the join on the frame that asks never waits for a scan), `BarrierHolds`
  (after the restart's drain nothing scans or installs), `ListsAgree` and `EnumeratesOwnScan` (with one
  publishing thread), `PanelResumes`, `BarrierReturns`.
* Store services. `IndexIsCurrent` (an index is of the current list and of the disk, but for packages its
  own build could not read), `CurrentUnlessTorn` (a list that passes for fresh has the current filter,
  unless the worker's two reads of the settings were torn apart), `ListedIsAnswer`, `AcceptedIsTheBody`
  (what is committed is what the server sent and what was promised, and the part file holds none of an older
  attempt's bytes), `CancelIsHonoured`, `PendingIsOwed` (a cover is marked pending exactly while somebody
  owes it).
* Durable files. `RequestedIsDurable` (what the program shows as saved is on disk; after a load that failed
  it shows the compiled defaults, all of them), `OutcomeMoves` (seen through the journal as a redo log, the
  two files change together or not at all, and recovery never changes the verdict), `EditsNotLost`;
  `UntouchedUntilVerified` (no file of a component changes before its check passed, but by Setup's own copy
  of an embedded build; beside a helper of an earlier run the check of the game or of the mod, which share a
  staging folder, stands for both), `CleanRunRepairs` (a run in which nothing fails, and beside which no
  helper of an earlier one goes on, leaves every component it installed whole and recorded);
  `ProgressSurvives` (unconditionally), `ScoresAccumulate` (while restores succeed).
* Monitor. `ClaimIsOwed`, `ReplacementIsOwed`, `StuckLoadRestarts`.
* Application. `OneGame`, `ChildDecides`, `OneLedgerWriter`, `ReleasedIsCurrent`, `GateAnswers`,
  `StreamIsMounted`, `LibraryPlaysOn` (two playable songs are enough for the music to start).

The type invariants of `StoreDownload`, `LibraryRefresh` and `SongLoadMonitor` are proved (section 4) and
not run; the others are conjoined in the runs of the bundles.

Each property of a passing run has a mutant in `PROJECT.json`: a plausible bug of the code, written as
a faulty variant beside the definition it replaces, under which TLC finds the property violated.

### Bounds, and why they are enough

* Downloads: two tokens that are charts of one song, so that a cancel, a deletion and a job can be about
  different tokens while their packages compete for the same names; a queue of two, in which requests wait
  behind one another, are withdrawn or replaced from the middle, and meet the limit when a deletion waits
  behind its own install; one retry, so that a
  delay happens; two copies of a name. The menu's calls come from one guest thread at a time, as they do in
  the game; they interleave with the worker at every step, and a stop or an exit may find the worker
  anywhere.
* Refresh: two packages, two guest threads and a `MaxAsks` of three: an ask during a scan, one between
  two publishers and one behind the barrier.
* Index: two packages and three revisions, so that an invalidation falls in every step of a build and
  another behind it.
* Catalogue and search: walks of three and two pages, two filters, one commit (which falls in every
  step), four queries of two texts and one too short: a replaced query, one typed back and one cancelled.
* Transfer: a magic of two units, a ceiling of four, a stream that buffers two, one hop, one retry: the
  magic comes split or whole, a body ends at, before and after its promise.
* Covers: three covers, two places, two callers: an eviction, a full queue and a key in flight meet.
* Settings: three values (the requested one, the old one, which is the default, another writer's), a
  revision limit of two and no bound on crashes: a crash in a recovery of a crash is covered.
* Installer: two files of the build, one of the game, of the mod and of an earlier mod; two runs, the
  second of which meets whatever the first left; one helper given up on beside the one that is polled, in
  the same run or out of the run before. The proofs take any number.
* Progress: two entries and two values of the rest; restarts without bound.
* Monitor: off and two limits, two loads, four clock units: an overdue load, a later one with another
  limit and a stale read of the first fit. The generation is 62 bits wide in the code and cannot wrap.
* Restart: three requests. Gate: one change of the library and two attempts, an old generation beside a
  new one.
* Music: cold, two packages of one song each beside the game's own archive and an empty cache; warm,
  three cached packages of which two may be mounted, so that the mounts run out. The code keeps
  three songs ahead, two behind and eight packages, more than its window needs; the instance keeps the
  smallest numbers with that relation (one ahead, none behind, two mounted). With fewer mounts than the
  window `LibraryPlaysOn` fails.

### Fairness

* Downloads: weak fairness of the worker's steps and of a call already begun: a thread that holds no
  lock for long is scheduled. Guest calls need not happen, and failures of the network may go on for
  ever; the retry limit ends a job, not luck.
* Refresh: weak fairness of the scan worker, the store's worker, the publisher under way and the drain;
  strong fairness of the panel's frame, which polls again each frame. That the menu polls, that
  somebody opens the panel or installs a song is not assumed.
* Store services: weak fairness of each worker, of a publish under way, and of the menu's script behind
  the modal, which the guest runs every frame. Transports answer or time out; nothing says they succeed.
* Monitor: weak fairness of the monitor and of the clock, none of the game.
* Restart: the child runs, a request under way goes on, a closing window ends the process. Gate: the
  guest polls and the workers end; the player need not act. Music: both threads run, the menu polls, open
  files are closed.
* Durable files: safety only.

## 4. What is proved

TLAPS proves the theorems below for all values of the constants. Every safety property that a passing run
checks, invariant or action property, is one of them; the runs show it on a small instance first. The
proofs use `Spec` without fairness and the assumptions the modules name:

* model values differ from what they stand beside (`TokensAssumption`, `PathAssumption`, `IdleAssumption`,
  `ActorsAssumption`, `NullAssumption`, `JournalAssumption`, `NamesAssumption`, `SentinelsAssumption`,
  `NothingAssumption`);
* bounds are numbers, some of them positive (`BoundsAssumption`, `MaxAsksAssumption`, `RevisionAssumption`,
  `MonitorAssumption`, `AsksAssumption`, `BudgetsAssumption`, `SizesAssumption`, `WindowAssumption`);
* the shape of the data: a token names a song (`SongsAssumption`), both settings stores have rows
  (`RowsAssumption`), every native row has a default (`DefaultAssumption`), the cover queue has room for two
  (`CoversAssumption`; 64 in the code), the installer's components share no file (`ComponentsAssumption`),
  packages are numbered from the game's own without a gap, as the indices of a vector are
  (`LibrariesAssumption`).

| Module | Theorems | Inductive invariant and why it is needed |
| --- | --- | --- |
| `StoreDownload_proofs` | `TypeCorrect`, `OneWorkerAlways`, `QueueHasWorkerAlways` | `Inv` adds `SpawnAlone` (a caller about to start the thread found the old one finished), `DelayHasRetry` (the delay is only reached with attempts left), `StopInCall` (stopping is set only while a stop or an exit is under way) |
| | `QueueWellFormedAlways` | `QueueInv` adds `RoomForDeletion`: one place is left for the deletion that follows a running install |
| | `InstalledIsOnDiskAlways` | `DiskInv` adds `CommittedIsFree`: a name chosen for a commit belongs to nobody until it is used |
| `StoreDownload_refines` | `ServiceImplementsInstallQueue` | all of these and `LocalsInv` (what a thread remembers of its token); `Map*` say what an append, a tail or a removal does to the mapped queue, and one lemma per abstract action says which steps implement it |
| `LibraryRefresh_proofs` | `TypeCorrect`, `ScanIsAloneAlways`, `BarrierHoldsAlways` | `OwnerIsInside` (the refresh worker's mutex is held by exactly the actor inside), `Owed` (what was asked is counted), `Barred` (behind the drain nobody may start) |
| | `ListsAgreeAlways` | one publisher: the lists differ only between its two writes |
| | `EnumeratesOwnScanAlways` | the scan a panel began is under way, and then nothing is published before its poll (`OwnIsUnderWay`), or has landed, and then no older payload can be taken (`OwnHasLanded`); a pass that began no scan waits for one (`PassIsWaited`) |
| `StoreServices_proofs` | `IndexIsCurrentAlways` | `BuildIsCurrent`: a build of the current revision has seen the list and disk that the index is compared with, or noted what it could not read |
| | `PendingIsOwedAlways` | `ArtBooks` (the queue and the marks, with their types) and `ArtWorkerHolds` (the worker holds a key exactly in the steps between taking it and erasing its mark) |
| | `AcceptedIsTheBodyAlways` | `XferPhases`, one conjunct per place of the transfer: every unit the server sent is counted or held back for the magic (`Counted`), what was counted is in the stream or on the volume (`Receiving`), and a verdict of success leaves neither a unit held back nor a length unmet (`Accepted`) |
| | `CurrentUnlessTornAlways` | `CatFilters`: a walk whose generation is current reads with the current filter, unless a commit fell between the worker's two reads; `CatList`: a list with the current stamp was landed by such a walk |
| | `ListedIsAnswerAlways` | `Searching` and `PostsOnce` (the session's generation is carried by the posted job or by the worker, never both, with the text in the field), `MatchesAnswer` (what arrived answers that text under the current filter) |
| | `ServicesAreSafe` | the five together, with every part's types |
| `SettingsCommit_proofs` | `TypeCorrect`, `RequestedIsDurableAlways`, `EditsNotLostAlways`, `OutcomeMovesAlways` | `MemoryInv` (between the steps the service's values are the files', off the rows another writer touched, or no row is loaded at all), `JournalInv` (the journal on disk is the operation's own, and a recovery's verdict agrees with what it read), `EditsInv` (each phase of a commit knows which halves are durable) |
| `DurableFiles_proofs` | `ProgressSurvivesAlways`, `ScoresAccumulateAlways` | `SaveInv`: while the hooks may write, `lastSaved` is what the file holds (`LastIsTheFile`), and while restores succeed the object holds every score of it (`ScoresAreHeld`) |
| | `UntouchedAlways` | `OrderInv`: the stages come in order, of two helpers of one run one is the last job's, which has no files, and without a helper of an earlier run every helper is of this one (`WizardOrder`, `OneHelper`); a helper that moves was verified, and moves what its own staging folder holds (`Fitting`), which is then one component's files (`Staged`) |
| | `CleanRunRepairsAlways` | `CleanInv`: without a failure no abandoned helper is left (`Alone`), an embedded build is in place before its check (`Placed`), a verified component is whole in place or on its way (`WholeOrMoving`), and nothing is unaccounted for (`Accounted`, `Recorded`) |
| | `FilesAreSafe` | the three together, with their types |
| `SongLoadMonitor_proofs` | `TypeCorrect`, `ReplacementIsOwedAlways`, `ClaimIsOwedAlways` | `WordIsKnown`, `PageIsDue`, `ReadsAreCurrent` (a monitor whose word still matches has read that load's deadline and limit), `ClaimIsKept` |
| `Application_proofs` | `OneGameAlways` | `SpawnStays` (what the request holds once it has spawned), `PidIsParents` (while the parent lives the pid is its own) |
| | `OneLedgerWriterAlways`, `ReleasedIsCurrentAlways`, `PreparationTypesAlways` | `ExtractionIsOpen` (an extraction runs only in its phase and with the gate open), `ClosedIsQuiet`, with the configuration the owned generation was begun for |
| | `StreamIsMountedAlways` | a step evicts and keeps what the stream and the target pin (`Evicts`), or hands the stream to a mounted package (`Hands`), never both |
| | `MusicTypesAlways` | `Linked`: the song that Next or Previous waits for stays in the playlist until the cursor goes there, because neither planning nor discovery nor a block takes a song out of it (`Grown`); without that `Select` could move the cursor to a place that does not exist |
| | `ApplicationTypesAlways`, `ApplicationIsSafe` | the three parts together, the music for both of its libraries |

Each proof has one step per action, or one lemma per actor where there are many; leaves cite the
definitions they open. The lemmas about the music are about any library: `MCApplication` instantiates
`MenuMusic` with the library as a parameter (`Music(Count, Caches)`) and the proofs quantify over it.
`PlannedGrows` is the one statement about a recursive function, the turns of `PlanAhead`'s loop; its
induction is done by hand, from the least turn that would break it (`Least`).

Model-checked only: the eleven properties under fairness (`CancelIsHonoured`, `QueuedIsServed`,
`BarrierReturns`, `PanelResumes`, `RequestedIndexArrives`, `WalkEnds`, `ModalEnds`, `StuckLoadRestarts`,
`ChildDecides`, `GateAnswers`, `LibraryPlaysOn`), since TLAPS proves neither `ENABLED` nor fairness
arguments here; and the violations of section 5.

## 5. Where the code and its documents disagree

Six runs end in a violation and are listed as findings in `PROJECT.json`. Further disagreements met
while modelling, without a run of their own:

* Store. `StopDownloads` clears the queue and leaves the jobs' states, so a waiting job keeps saying
  queued (`store_download_service.h:84` promises that the queued work is cancelled). The static state's
  destructor raises the cancel flag before it takes the mutex; a worker that takes a job in between
  lowers it again (`store_download_service.cpp:52` and `:335`), so an exit may wait for that transfer.
* Covers. The worker leaves only when its queue is empty (`album_art_service.cpp:318-319`), so an exit
  fetches every queued cover first, up to 64, where the comment at `:366-369` says that one fetch in
  flight delays the exit by at most its timeout.
* Page cache. `PageCache::Put` ends the flight of its key (`store_page_cache.cpp:62`) and the fetch ends
  it again at its scope's end: in between another caller may have begun one, whose mark that removes.
  The catalogue and the search do not ask for the same key today.
* Catalogue. A site that first counts ahead and then lower would have a page fetched twice
  (`rhythmverse_client.cpp:887-893`); a caption may be overtaken by the next (`store_catalogue.cpp:478-480`).
* Refresh. `RefreshReadyForDiscovery` (`dlc.cpp:631`) reads pending and publishing without the payload
  mutex; between another thread's `Take` and its publishing mark it sees neither, against the comment at
  `dlc.cpp:578-580`. It takes two guest threads: `EnumeratesOwnScan` and `ListsAgree` hold for one, and
  say so by `polling = {Panel}`. `RefreshAfterStoreInstall` begins a scan while a result is pending; the
  publisher that takes both in turn hands over a list that was moved from
  (`tests/refresh_state_tests.cpp:80-82` expects a pending result to keep a scan from beginning).
  `g_restarting` (`dlc.cpp:688`) is never lowered after a restart that failed to start its child.
* Settings. A failed save reloads the store and with it the base of the conflict test, so a retry
  overwrites another writer's value unseen (`service.cpp:541`; `docs/settings/contracts.md:529-531`). When
  that reload fails too, every row shows its default until the next load: an edit back to the default counts
  as unchanged and is dropped with the commit that holds it, every other save of a native row is refused as
  a conflict, and the journal of a combined commit that wants what the file already holds passes for one
  whose first half was saved, should the process end there.
* Progress. A restore that fails leaves the guest's object empty; the next score then replaces the
  checkpoint by one that holds only that score, because only an object without any progress is refused
  (`local_save.cpp:153`). That is why `ScoresAccumulate` asks for `holds`. A teardown between a mutation
  and a successful checkpoint restores the older one, and the new score is gone.
* Monitor. A failed `TerminateProcess` leaves the monitor's word claimed: completion no longer retires it,
  later loads are not watched and a crash in the menu is handled as a load crash
  (`tests/song_load_monitor_tests.cpp:58` names "only a fatal process exit during an armed load").
  `ReplacementIsOwed` admits exactly this case.
* Restart. A second request after the child is up is refused, but its close is posted again.
* Gate. While the window closes, a ready query may release on an old snapshot (harmless: the menu is
  going), and a guest between the closing test and Begin can start a renderer generation after the
  close's cancel.
* Music. A catalogue job writes its records outside every lock (`shell_music.cpp:1351-1359`) while the
  guest may publish a probe into the same record (`:568-571`), against `menu_music_queue.h:48-49`
  (`CallbackOwnsCatalogue` is violated with three packages, one ahead, one behind). A song that ends
  while Next or Previous waits for a cold target is not followed by another (`:1714`), against
  `docs/engine/main-menu.md:911-914` (`EndIsFollowed`). A song may follow itself when the one between was
  blocked or failed (`main-menu.md:922-926`).
* Installer. `install.cpp:6-9` promises a replacement as a whole; a component is moved file by file
  (`:384`), and a failure in the middle leaves a mixture for the next run. `MoveTreeInner` tests the error's
  pointer and not the error, so a listing that failed passes. A helper that was given up on can have its
  summary read by the next stage's poll of the same run, and goes on beside a later run in the staging
  folder that run empties and fills (`setup.iss:1046-1082`); the silence limit only counts while there is no
  progress file.

## 6. What is not modelled, and why

* The page cache is a map under one mutex whose operations are single critical sections; the message feed
  a worker that runs once per boot and publishes one immutable snapshot. Neither has a state that two
  steps could tear, apart from the marks described above.
* Records, payloads and parsing (`rhythmverse_client.cpp`, `store_payload.cpp`, `menu_payload.cpp`,
  `ultimate_adapter.cpp`), settings schema and policies, profiles, input routing, DTA and menu authoring
  (`settings_screen.cpp`, `menu_options.cpp`), textures and assets, shader recipes, DLC files and path
  policy: functions of their arguments, most of the implementation's lines. What they compute is data to
  every module here, and the repository's unit tests are the better tool for it.
* Diagnostics: logs and probes nothing depends on. The load guard: its header calls it a historical
  protocol kept for tests.
* The guest and the SDK: generated or third-party; the guest appears as the threads that call the hooks,
  the renderer as the generation it is asked for.
* Inside the modelled components: what section 2 names as left out.
