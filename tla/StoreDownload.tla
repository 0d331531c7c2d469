---------------------------- MODULE StoreDownload ----------------------------
(***************************************************************************)
(* The download service behind the store's guest bridge                    *)
(* (src/src/store/store_download_service.cpp).                             *)
(*                                                                         *)
(* Three actors share the service's State struct:                          *)
(*   - the guest thread, which writes start, again, cancel, delete,        *)
(*     dismiss-warning, refresh and restart requests, one call at a time;  *)
(*   - the worker thread, which EnsureWorker starts and which runs one job *)
(*     at a time until the queue is empty;                                 *)
(*   - the serving thread, which registers catalogue offers.               *)
(* Every section the code runs under State::mutex is one step; whatever it *)
(* does outside the mutex (raising the cancel flag, joining and starting   *)
(* the thread, the transfer, the rename, the removal of a file) is a step  *)
(* of its own.  Init is the state after dlc::Configure, which configures   *)
(* the service once, before the guest exists.                              *)
(*                                                                         *)
(* Abstracted: progress counters, log lines, the error beside a failed or  *)
(* cancelled state (no code path reads it back), and the receipts file,    *)
(* which the program appends to and never reads.  A package is named by    *)
(* its song and the "~n" suffix its file name carries.  The transfer is    *)
(* one step that ends in any outcome TransferPackage can report; its       *)
(* inside (redirects, chunks, checks) and the staged part file, which no   *)
(* condition of this service reads, are PackageTransfer's.                 *)
(***************************************************************************)
EXTENDS Naturals, SequencesExt

CONSTANTS
  Tokens,      \* job tokens the catalogue can hand out
  NoToken,     \* the empty token: no job is active
  Songs,       \* folded (artist, title) pairs
  SongOf,      \* the song an offer is for
  MaxQueued,   \* kMaxQueuedJobs, 8 in the code
  MaxOffers,   \* DownloadConfig::max_offers, 512 in the code
  MaxRetries,  \* RetryPolicy::max_retries, 2 in the code
  MaxCopies,   \* kMaxInstallAttempts, 100 in the code
  NoPath       \* the empty path

ASSUME TokensAssumption  == NoToken \notin Tokens
ASSUME SongsAssumption   == SongOf \in [Tokens -> Songs]
ASSUME BoundsAssumption  == /\ MaxQueued \in Nat \ {0}
                            /\ MaxOffers \in Nat \ {0}
                            /\ MaxRetries \in Nat
                            /\ MaxCopies \in Nat \ {0}

Paths == Songs \X (0 .. MaxCopies - 1)

ASSUME PathAssumption == NoPath \notin Paths

\* The empty token is no request either: the abstract queue's Idle.
ASSUME IdleAssumption ==
  NoToken \notin [token : Tokens, kind : {"install", "delete"}]

JobStates == {"Unknown", "Queued", "Downloading", "Installed", "Failed",
              "Cancelled", "Deleted"}

VARIABLES
  offers,        \* tokens with a registered offer
  jobs,          \* JobState per token; an absent entry reads as Unknown
  installed,     \* the path a committed job installed, or NoPath
  queue,         \* waiting tokens, in order
  deletions,     \* the waiting tokens whose job is a deletion
  removed,       \* songs deleted since the last refresh
  dismissed,     \* warning_dismissed
  active,        \* the token the worker runs
  activeDel,     \* active_deleting
  cancel,        \* the atomic flag the transfer polls
  workerRunning, \* worker_running
  stopping,
  enabled,       \* the store's master switch in the settings snapshot
  library,       \* packages on disk
  worker,        \* the worker thread: program counter and locals
  guest          \* the guest thread: program counter and the call's token

offerVars  == <<offers>>
jobVars    == <<jobs, installed>>
queueVars  == <<queue, deletions>>
warnVars   == <<removed, dismissed>>
activeVars == <<active, activeDel>>
flagVars   == <<cancel, stopping>>
diskVars   == <<library>>

vars == <<offerVars, jobVars, queueVars, warnVars, activeVars, flagVars,
          workerRunning, enabled, diskVars, worker, guest>>

WorkerPcs == {"none", "loop", "job", "attempt", "transfer", "delay", "commit",
              "publish", "finish", "delete", "paths", "forget", "deleted",
              "clear"}

GuestPcs == {"idle", "ensure", "spawn", "raise", "stopJoin", "exitLock",
             "exitJoin", "exited"}

WorkerRecords ==
  [pc : WorkerPcs, token : Tokens \cup {NoToken}, attempt : 0 .. MaxRetries,
   paths : SUBSET Paths, path : Paths \cup {NoPath}]

GuestRecords == [pc : GuestPcs, token : Tokens \cup {NoToken}]

TypeOK ==
  /\ offers \subseteq Tokens
  /\ jobs \in [Tokens -> JobStates]
  /\ installed \in [Tokens -> Paths \cup {NoPath}]
  /\ queue \in Seq(Tokens)
  /\ deletions \subseteq Tokens
  /\ removed \subseteq Songs
  /\ dismissed \in BOOLEAN
  /\ active \in Tokens \cup {NoToken}
  /\ activeDel \in BOOLEAN
  /\ cancel \in BOOLEAN
  /\ workerRunning \in BOOLEAN
  /\ stopping \in BOOLEAN
  /\ enabled \in BOOLEAN
  /\ library \subseteq Paths
  /\ worker \in WorkerRecords
  /\ guest \in GuestRecords

Init ==
  /\ offers = {}
  /\ jobs = [t \in Tokens |-> "Unknown"]
  /\ installed = [t \in Tokens |-> NoPath]
  /\ queue = <<>>
  /\ deletions = {}
  /\ removed = {}
  /\ dismissed = FALSE
  /\ active = NoToken
  /\ activeDel = FALSE
  /\ cancel = FALSE
  /\ workerRunning = FALSE
  /\ stopping = FALSE
  /\ enabled \in BOOLEAN
  /\ library \in SUBSET {p \in Paths : p[2] = 0}
  /\ worker = [pc |-> "none", token |-> NoToken, attempt |-> 0,
               paths |-> {}, path |-> NoPath]
  /\ guest = [pc |-> "idle", token |-> NoToken]

-----------------------------------------------------------------------------
(* Helpers                                                                 *)

Queued == {queue[i] : i \in 1 .. Len(queue)}

\* The job the worker runs counts towards the limit.
InFlight == Len(queue) + (IF active = NoToken THEN 0 ELSE 1)

QueueFull == InFlight >= MaxQueued

SetJob(t, state) == jobs' = [jobs EXCEPT ![t] = state]

\* The entry std::find found is erased.
EraseQueued(t) ==
  \E i \in 1 .. Len(queue) : queue[i] = t /\ queue' = RemoveAt(queue, i)

\* Offers RegisterOffer may not evict: the new one and those a job uses.
HeldOffers(t) == (offers \cup {t}) \cap ({t, active} \cup Queued)

\* CommitStagedInstall's first free name for a song.
AnyCopy(s) == 0 .. MaxCopies - 1  \* faulty variant: no exists() test
FreeCopies(s) == {n \in 0 .. MaxCopies - 1 : <<s, n>> \notin library}
FirstFree(s) == {n \in FreeCopies(s) : \A m \in FreeCopies(s) : n <= m}

\* What RunDelete forgets once a package is gone: every token that points at it.
OnlyOwnToken(p) == {t \in {worker.token} : installed[t] = p}  \* faulty variant
PointingAt(p) == {t \in Tokens : installed[t] = p}

\* The worker's stop condition outside a transfer.
Interrupted == stopping \/ cancel

\* WorkerLoop's condition to end the thread.
NothingOrCancelled == Interrupted \/ queue = <<>>  \* faulty variant
NothingToDo == stopping \/ queue = <<>>

\* std::thread::join returns when the worker's thread has ended.
NoJoin == TRUE  \* faulty variant
WorkerJoined == worker.pc = "none"

\* A withdrawn deletion loses its mark.
KeepMark(t) == deletions  \* faulty variant
DropMark(t) == deletions \ {t}

GuestGoes(pc, t) == guest' = [pc |-> pc, token |-> t]
WorkerGoes(pc) == worker' = [worker EXCEPT !.pc = pc]

-----------------------------------------------------------------------------
(* The guest's calls                                                       *)

\* Enqueue: a start (again = FALSE) or a "Download Again" press.
Enqueue(t, again) ==
  /\ guest.pc = "idle"
  /\ t \in offers
  /\ \/ /\ ~enabled
        /\ SetJob(t, "Cancelled")
        /\ UNCHANGED <<queue, guest>>
     \/ /\ enabled
        /\ t # active
        /\ t \notin Queued
        /\ again \/ jobs[t] # "Installed"
        /\ \/ /\ QueueFull
              /\ SetJob(t, "Failed")
              /\ UNCHANGED <<queue, guest>>
           \/ /\ ~QueueFull
              /\ SetJob(t, "Queued")
              /\ queue' = Append(queue, t)
              /\ GuestGoes("ensure", NoToken)
  /\ UNCHANGED <<offerVars, installed, deletions, warnVars, activeVars,
                 flagVars, workerRunning, enabled, diskVars, worker>>

\* The delete write while the service is idle: the deletion becomes a job.
DeleteNow(t) ==
  /\ guest.pc = "idle"
  /\ enabled /\ t \in offers
  /\ ~workerRunning /\ queue = <<>>
  /\ SetJob(t, "Queued")
  /\ deletions' = deletions \cup {t}
  /\ queue' = Append(queue, t)
  /\ GuestGoes("ensure", NoToken)
  /\ UNCHANGED <<offerVars, installed, warnVars, activeVars, flagVars,
                 workerRunning, enabled, diskVars, worker>>

\* The delete write while the service is busy: it replaces the token's queued
\* transfer, or follows its running one, or is refused.
DeleteBusy(t) ==
  /\ guest.pc = "idle"
  /\ enabled /\ t \in offers
  /\ workerRunning \/ queue # <<>>
  /\ \/ /\ t \in Queued
        /\ deletions' = deletions \cup {t}
        /\ UNCHANGED <<queue, jobs>>
     \/ /\ t \notin Queued
        /\ active = t /\ ~activeDel /\ t \notin deletions
        /\ deletions' = deletions \cup {t}
        /\ queue' = Append(queue, t)
        /\ UNCHANGED jobs
     \/ /\ t \notin Queued /\ active # t
        /\ SetJob(t, "Failed")
        /\ UNCHANGED queueVars
  /\ UNCHANGED <<offerVars, installed, warnVars, activeVars, flagVars,
                 workerRunning, enabled, diskVars, worker, guest>>

\* The delete write for a token with no offer, or with the store off.
DeleteRefused(t) ==
  /\ guest.pc = "idle"
  /\ ~enabled \/ t \notin offers
  /\ SetJob(t, "Failed")
  /\ UNCHANGED <<offerVars, installed, queueVars, warnVars, activeVars,
                 flagVars, workerRunning, enabled, diskVars, worker, guest>>

\* The cancel write.  A queued job leaves the queue under the mutex; for the
\* active job the flag is raised after the mutex is released (GuestRaise).
Cancel(t) ==
  /\ guest.pc = "idle"
  /\ \/ /\ active = t
        /\ GuestGoes("raise", t)
        /\ UNCHANGED <<jobs, queueVars>>
     \/ /\ active # t /\ t \in Queued
        /\ EraseQueued(t)
        /\ deletions' = DropMark(t)
        /\ SetJob(t, "Cancelled")
        /\ UNCHANGED guest
  /\ UNCHANGED <<offerVars, installed, warnVars, activeVars, flagVars,
                 workerRunning, enabled, diskVars, worker>>

GuestRaise ==
  /\ guest.pc = "raise"
  /\ cancel' = TRUE
  /\ GuestGoes("idle", NoToken)
  /\ UNCHANGED <<offerVars, jobVars, queueVars, warnVars, activeVars, stopping,
                 workerRunning, enabled, diskVars, worker>>

DismissWarning ==
  /\ guest.pc = "idle"
  /\ dismissed' = TRUE
  /\ UNCHANGED <<offerVars, jobVars, queueVars, removed, activeVars, flagVars,
                 workerRunning, enabled, diskVars, worker, guest>>

\* The refresh write, or the title's own discovery: the refresh callback is
\* called (LibraryRefresh) and the warning is cleared.
ClearStoreRefreshWarning ==
  /\ guest.pc = "idle"
  /\ removed' = {}
  /\ dismissed' = FALSE
  /\ UNCHANGED <<offerVars, jobVars, queueVars, activeVars, flagVars,
                 workerRunning, enabled, diskVars, worker, guest>>

\* EnsureWorker's locked section, after the call queued a job.
EnsureWorker ==
  /\ guest.pc = "ensure"
  /\ IF workerRunning
     THEN GuestGoes("idle", NoToken) /\ UNCHANGED workerRunning
     ELSE GuestGoes("spawn", NoToken) /\ workerRunning' = TRUE
  /\ UNCHANGED <<offerVars, jobVars, queueVars, warnVars, activeVars, flagVars,
                 enabled, diskVars, worker>>

\* EnsureWorker joins the finished thread and starts a new one.
SpawnWorker ==
  /\ guest.pc = "spawn"
  /\ WorkerJoined
  /\ WorkerGoes("loop")
  /\ GuestGoes("idle", NoToken)
  /\ UNCHANGED <<offerVars, jobVars, queueVars, warnVars, activeVars, flagVars,
                 workerRunning, enabled, diskVars>>

\* StopDownloads, called by the restart handler: the locked section, then the
\* join and the second locked section.  A restart whose child could not be
\* started returns here and the game goes on.
StopDownloads ==
  /\ guest.pc = "idle"
  /\ stopping' = TRUE
  /\ cancel' = TRUE
  /\ queue' = <<>>
  /\ deletions' = {}
  /\ GuestGoes("stopJoin", NoToken)
  /\ UNCHANGED <<offerVars, jobVars, warnVars, activeVars, workerRunning,
                 enabled, diskVars, worker>>

StopJoined ==
  /\ guest.pc = "stopJoin"
  /\ WorkerJoined
  /\ stopping' = FALSE
  /\ workerRunning' = FALSE
  /\ active' = NoToken
  /\ GuestGoes("idle", NoToken)
  /\ UNCHANGED <<offerVars, jobVars, queueVars, warnVars, activeDel, cancel,
                 enabled, diskVars, worker>>

\* ~State at process exit: the flag is raised before the mutex is taken.
ExitRaise ==
  /\ guest.pc = "idle"
  /\ cancel' = TRUE
  /\ GuestGoes("exitLock", NoToken)
  /\ UNCHANGED <<offerVars, jobVars, queueVars, warnVars, activeVars, stopping,
                 workerRunning, enabled, diskVars, worker>>

ExitLock ==
  /\ guest.pc = "exitLock"
  /\ stopping' = TRUE
  /\ GuestGoes("exitJoin", NoToken)
  /\ UNCHANGED <<offerVars, jobVars, queueVars, warnVars, activeVars, cancel,
                 workerRunning, enabled, diskVars, worker>>

ExitJoined ==
  /\ guest.pc = "exitJoin"
  /\ WorkerJoined
  /\ GuestGoes("exited", NoToken)
  /\ UNCHANGED <<offerVars, jobVars, queueVars, warnVars, activeVars, flagVars,
                 workerRunning, enabled, diskVars, worker>>

-----------------------------------------------------------------------------
(* The serving thread and the settings                                     *)

\* RegisterOffer: the record is stored and offers beyond the limit are
\* evicted, in token order, as long as one is not held.
RegisterOffer(t) ==
  LET all     == offers \cup {t}
      loose   == all \ HeldOffers(t)
      surplus == IF Cardinality(all) > MaxOffers
                 THEN Cardinality(all) - MaxOffers ELSE 0
  IN /\ guest.pc # "exited"
     /\ \E gone \in SUBSET loose :
          /\ \/ Cardinality(gone) = surplus
             \/ gone = loose /\ Cardinality(loose) < surplus
          /\ offers' = all \ gone
     /\ UNCHANGED <<jobVars, queueVars, warnVars, activeVars, flagVars,
                    workerRunning, enabled, diskVars, worker, guest>>

-----------------------------------------------------------------------------
(* The worker                                                              *)

\* WorkerLoop finds nothing to do and its thread ends.
WorkerExits ==
  /\ worker.pc = "loop"
  /\ NothingToDo
  /\ workerRunning' = FALSE
  /\ WorkerGoes("none")
  /\ UNCHANGED <<offerVars, jobVars, queueVars, warnVars, activeVars, flagVars,
                 enabled, diskVars, guest>>

\* WorkerLoop takes the next job.
WorkerTakes ==
  LET t == Head(queue) IN
  /\ worker.pc = "loop"
  /\ ~NothingToDo
  /\ queue' = Tail(queue)
  /\ active' = t
  /\ activeDel' = (t \in deletions)
  /\ deletions' = deletions \ {t}
  /\ cancel' = FALSE
  /\ SetJob(t, "Downloading")
  /\ worker' = [worker EXCEPT !.pc = IF t \in deletions THEN "delete" ELSE "job",
                              !.token = t]
  /\ UNCHANGED <<offerVars, installed, warnVars, stopping, workerRunning,
                 enabled, diskVars, guest>>

\* A job that ends: its status is written and the worker moves on.
WorkerEnds(state) ==
  /\ SetJob(worker.token, state)
  /\ WorkerGoes("clear")

\* RunJob reads the offer, plans the install and creates the staging folder.
JobStart ==
  /\ worker.pc = "job"
  /\ \/ /\ worker.token \notin offers
        /\ WorkerEnds("Failed")
     \/ /\ worker.token \in offers
        /\ WorkerEnds("Failed")
     \/ /\ worker.token \in offers
        /\ worker' = [worker EXCEPT !.pc = "attempt", !.attempt = 0]
        /\ UNCHANGED jobs
  /\ UNCHANGED <<offerVars, installed, queueVars, warnVars, activeVars, flagVars,
                 workerRunning, enabled, diskVars, guest>>

\* The top of RunJob's attempt loop.
JobAttempt ==
  /\ worker.pc = "attempt"
  /\ \/ /\ Interrupted
        /\ WorkerEnds("Cancelled")
     \/ /\ ~Interrupted
        /\ WorkerGoes("transfer")
        /\ UNCHANGED jobs
  /\ UNCHANGED <<offerVars, installed, queueVars, warnVars, activeVars, flagVars,
                 workerRunning, enabled, library, guest>>

\* TransferPackage returned kNone: its last look at the flag and the switch
\* found both clear.
TransferDone ==
  /\ worker.pc = "transfer"
  /\ ~cancel /\ enabled
  /\ WorkerGoes("commit")
  /\ UNCHANGED <<offerVars, jobVars, queueVars, warnVars, activeVars, flagVars,
                 workerRunning, enabled, diskVars, guest>>

\* TransferPackage saw the flag, or the switch.
TransferStopped ==
  /\ worker.pc = "transfer"
  /\ \/ cancel /\ WorkerEnds("Cancelled")
     \/ ~cancel /\ ~enabled /\ WorkerEnds("Cancelled")
  /\ UNCHANGED <<offerVars, installed, queueVars, warnVars, activeVars, flagVars,
                 workerRunning, enabled, library, guest>>

RetriesLeft == worker.attempt < MaxRetries

SameAttempt == worker.attempt  \* faulty variant: no ++attempt
NextAttempt == worker.attempt + 1

\* A transient error with a retry left.
TransferRetries ==
  /\ worker.pc = "transfer"
  /\ RetriesLeft
  /\ WorkerGoes("delay")
  /\ UNCHANGED <<offerVars, jobVars, queueVars, warnVars, activeVars, flagVars,
                 workerRunning, enabled, library, guest>>

\* An error that is not transient, or the last retry's.
TransferFails ==
  /\ worker.pc = "transfer"
  /\ WorkerEnds("Failed")
  /\ UNCHANGED <<offerVars, installed, queueVars, warnVars, activeVars, flagVars,
                 workerRunning, enabled, library, guest>>

\* The back-off, polled for a stop, then the next attempt.
RetryDelay ==
  /\ worker.pc = "delay"
  /\ \/ Interrupted /\ WorkerEnds("Cancelled")
     \/ /\ worker' = [worker EXCEPT !.pc = "attempt",
                                    !.attempt = NextAttempt]
        /\ UNCHANGED jobs
  /\ UNCHANGED <<offerVars, installed, queueVars, warnVars, activeVars, flagVars,
                 workerRunning, enabled, diskVars, guest>>

\* CommitStagedInstall: the staged file is renamed to the first free name.
CommitInstall ==
  LET t == worker.token IN
  /\ worker.pc = "commit"
  /\ \/ \E n \in FirstFree(SongOf[t]) :
          /\ library' = library \cup {<<SongOf[t], n>>}
          /\ worker' = [worker EXCEPT !.pc = "publish", !.path = <<SongOf[t], n>>]
          /\ UNCHANGED jobs
     \/ WorkerEnds("Failed") /\ UNCHANGED library
  /\ UNCHANGED <<offerVars, installed, queueVars, warnVars, activeVars, flagVars,
                 workerRunning, enabled, guest>>

PublishInstall ==
  LET t == worker.token IN
  /\ worker.pc = "publish"
  /\ SetJob(t, "Installed")
  /\ installed' = [installed EXCEPT ![t] = worker.path]
  /\ removed' = removed \ {SongOf[t]}
  /\ WorkerGoes("finish")
  /\ UNCHANGED <<offerVars, queueVars, dismissed, activeVars, flagVars,
                 workerRunning, enabled, diskVars, guest>>

\* The receipt is appended and the library refresh asked for.
FinishInstall ==
  /\ worker.pc = "finish"
  /\ WorkerGoes("clear")
  /\ UNCHANGED <<offerVars, jobVars, queueVars, warnVars, activeVars, flagVars,
                 workerRunning, enabled, diskVars, guest>>

\* The library index answers with packages of the song that exist on disk;
\* it may lag behind the disk.
IndexedPackages(s) == SUBSET {p \in library : p[1] = s}

OwnPackage(t) == {installed[t]} \ {NoPath}

\* RunDelete collects the packages to remove.
DeleteStart ==
  LET t == worker.token IN
  /\ worker.pc = "delete"
  /\ \E found \in IndexedPackages(SongOf[t]) :
       LET paths == found \cup OwnPackage(t) IN
       IF paths = {}
       THEN WorkerEnds("Failed")
       ELSE /\ worker' = [worker EXCEPT !.pc = "paths", !.paths = paths]
            /\ UNCHANGED jobs
  /\ UNCHANGED <<offerVars, installed, queueVars, warnVars, activeVars, flagVars,
                 workerRunning, enabled, diskVars, guest>>

\* RunDelete removes the next package from disk.
DeletePackage ==
  /\ worker.pc = "paths"
  /\ \E p \in worker.paths :
       /\ library' = library \ {p}
       /\ worker' = [worker EXCEPT !.pc = "forget", !.path = p,
                                   !.paths = worker.paths \ {p}]
  /\ UNCHANGED <<offerVars, jobVars, queueVars, warnVars, activeVars, flagVars,
                 workerRunning, enabled, guest>>

\* RunDelete fails on a package: it cannot be verified or removed, or (an
\* extracted package, which no job of this run installed) it is removed in part.
DeleteFails ==
  /\ worker.pc = "paths"
  /\ \/ UNCHANGED warnVars
     \/ /\ \E p \in worker.paths : PointingAt(p) = {}
        /\ removed' = removed \cup {SongOf[worker.token]}
        /\ dismissed' = FALSE
  /\ SetJob(worker.token, "Failed")
  /\ worker' = [worker EXCEPT !.pc = "clear", !.paths = {}]
  /\ UNCHANGED <<offerVars, installed, queueVars, activeVars, flagVars,
                 workerRunning, enabled, diskVars, guest>>

\* After forget_package, the locked section that drops every token of the path.
DeleteForget ==
  LET gone == PointingAt(worker.path) IN
  /\ worker.pc = "forget"
  /\ removed' = removed \cup {SongOf[worker.token]}
  /\ dismissed' = FALSE
  /\ installed' = [t \in Tokens |-> IF t \in gone THEN NoPath ELSE installed[t]]
  /\ jobs' = [t \in Tokens |-> IF t \in gone THEN "Unknown"
                               ELSE jobs[t]]
  /\ worker' = [worker EXCEPT !.path = NoPath,
                  !.pc = IF worker.paths = {} THEN "deleted" ELSE "paths"]
  /\ UNCHANGED <<offerVars, queueVars, activeVars, flagVars, workerRunning,
                 enabled, diskVars, guest>>

DeleteDone ==
  /\ worker.pc = "deleted"
  /\ WorkerEnds("Deleted")
  /\ UNCHANGED <<offerVars, installed, queueVars, warnVars, activeVars, flagVars,
                 workerRunning, enabled, diskVars, guest>>

\* WorkerLoop after the job.
WorkerClears ==
  /\ worker.pc = "clear"
  /\ active' = IF active = worker.token THEN NoToken ELSE active
  /\ worker' = [worker EXCEPT !.pc = "loop", !.token = NoToken,
                              !.attempt = 0, !.path = NoPath]
  /\ UNCHANGED <<offerVars, jobVars, queueVars, warnVars, activeDel, flagVars,
                 workerRunning, enabled, diskVars, guest>>

-----------------------------------------------------------------------------
(* The system                                                              *)

GuestCall ==
  \/ \E t \in Tokens : \/ \E again \in BOOLEAN : Enqueue(t, again)
                       \/ DeleteNow(t) \/ DeleteBusy(t) \/ DeleteRefused(t)
                       \/ Cancel(t)
  \/ DismissWarning \/ ClearStoreRefreshWarning
  \/ StopDownloads \/ ExitRaise

\* The rest of a call the guest has begun.
GuestStep == \/ GuestRaise \/ EnsureWorker \/ SpawnWorker \/ StopJoined
             \/ ExitLock \/ ExitJoined

WorkerStep ==
  \/ WorkerExits \/ WorkerTakes \/ WorkerClears
  \/ JobStart \/ JobAttempt \/ TransferDone \/ TransferStopped
  \/ TransferRetries \/ TransferFails \/ RetryDelay
  \/ CommitInstall \/ PublishInstall \/ FinishInstall
  \/ DeleteStart \/ DeletePackage \/ DeleteFails \/ DeleteForget \/ DeleteDone

\* The process is gone.
Terminated == guest.pc = "exited" /\ UNCHANGED vars

Next == \/ GuestCall \/ GuestStep \/ WorkerStep
        \/ \E t \in Tokens : RegisterOffer(t)
        \/ Terminated

Spec == Init /\ [][Next]_vars

\* The worker thread is scheduled, transfers end (the transport has receive
\* timeouts), and a call the guest began returns.  Nothing obliges the player
\* to make a call.
Fairness == WF_vars(WorkerStep) /\ WF_vars(GuestStep)

FairSpec == Spec /\ Fairness

-----------------------------------------------------------------------------
(* Properties                                                              *)

WorkerBusy == worker.pc \notin {"none", "loop"}

\* One install at a time: the active token is the job of the one worker
\* thread, for as long as that thread has a job, and worker_running is set
\* exactly while a thread runs or is about to be started.
OneWorker ==
  /\ WorkerBusy => active \in Tokens /\ worker.token = active
  /\ ~WorkerBusy => active = NoToken
  /\ workerRunning <=> (worker.pc # "none" \/ guest.pc = "spawn")

\* No job is forgotten: while something waits there is a worker to take it,
\* or the guest is still inside the call that starts one (EnsureWorker against
\* the worker's own decision to exit).
QueueHasWorker ==
  queue # <<>> => \/ workerRunning
                  \/ guest.pc \in {"ensure", "exitJoin", "exited"}

\* A token waits once, a deletion mark belongs to a waiting token (a stale mark
\* would turn a later download into a deletion), the queue keeps its bound even
\* when a deletion is placed behind the running install, and no catalogue
\* scrolling evicts the offer of a waiting or running token, which RunDelete
\* reads with offers.at().
QueueWellFormed ==
  /\ \A i, j \in 1 .. Len(queue) : queue[i] = queue[j] => i = j
  /\ deletions \subseteq Queued
  /\ Len(queue) <= MaxQueued
  /\ Queued \cup ({active} \ {NoToken}) \subseteq offers

\* What a token has installed is on disk, and is no other token's package, and a token
\* the store calls installed has a package: deleting a package cannot leave
\* the store claiming it is installed.  Between removing a file and its locked
\* section RunDelete still owes the update for that one path.
InstalledIsOnDisk ==
  /\ \A t \in Tokens :
       /\ installed[t] # NoPath =>
            \/ installed[t] \in library
            \/ worker.pc = "forget" /\ worker.path = installed[t]
       /\ jobs[t] = "Installed" => installed[t] # NoPath
       /\ \A u \in Tokens \ {t} :
            installed[t] # NoPath => installed[t] # installed[u]

\* The service implements the queue of typed requests.
IQ == INSTANCE InstallQueue WITH
  Idle    <- NoToken,
  waiting <- [i \in 1 .. Len(queue) |->
                [token |-> queue[i],
                 kind  |-> IF queue[i] \in deletions THEN "delete"
                                                     ELSE "install"]],
  running <- IF active = NoToken THEN NoToken
             ELSE [token |-> active,
                   kind  |-> IF activeDel THEN "delete" ELSE "install"],
  added   <- worker.path # NoPath /\ ~activeDel

ImplementsInstallQueue == IQ!Spec

\* Every waiting job is taken, withdrawn or dropped, unless the process exits,
\* and every job the worker begins ends: retries are bounded.
QueuedIsServed ==
  \A t \in Tokens :
    /\ (t \in Queued) ~> (t \notin Queued \/ guest.pc = "exited")
    /\ (active = t) ~> (active # t)

-----------------------------------------------------------------------------
(* Claims of the code's comments that the code does not keep               *)

\* store_download.h:63 calls the cancelled outcome "the player cancelled": the
\* flag a cancel press raises should find the job the player named, or none.
\* HandleDownloadWrite raises it after releasing the mutex, when the worker may
\* have moved on to the next job.
CancelHitsItsJob == [][GuestRaise => active \in {guest.token, NoToken}]_vars
=============================================================================
