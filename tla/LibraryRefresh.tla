---------------------------- MODULE LibraryRefresh ----------------------------
(***************************************************************************)
(* The in-game library refresh (src/src/hooks/dlc.cpp, fs/refresh_state.h, *)
(* hooks/dlc_refresh.cpp): a scan of the library runs on a worker thread   *)
(* and a guest thread hands its result to the content manager.             *)
(*                                                                         *)
(* Actors: the scan worker; the guest threads, any of which may publish a  *)
(* finished scan (the menu's poll), one of which runs the discovery panel; *)
(* the store's download worker, which asks for a scan after each install;  *)
(* and the restart handler, which drains both before it starts a child.    *)
(*                                                                         *)
(* RefreshState is two atomics that nobody reads under a lock, so each     *)
(* read and each write of them is a step of its own.                       *)
(*                                                                         *)
(* Abstracted: a scan looks at the disk in one step somewhere between its  *)
(* start and its end; a package never leaves the disk (a deletion asks for *)
(* no scan); the content manager is always there.                          *)
(***************************************************************************)
EXTENDS Naturals

CONSTANTS
  Threads,   \* guest threads
  Panel,     \* the guest thread that runs the discovery panel
  Store,     \* the store's download worker
  Restart,   \* the restart handler
  Nobody,    \* a mutex is free
  Packages,  \* what the store can install
  MaxAsks    \* bound: discovery passes and installs after boot

Actors == Threads \cup {Store, Restart}

ASSUME ActorsAssumption ==
  /\ Panel \in Threads
  /\ Store # Restart /\ {Store, Restart} \cap Threads = {}
  /\ Nobody \notin Actors

ASSUME MaxAsksAssumption == MaxAsks \in Nat \ {0}

VARIABLES
  disk,        \* packages in the library folder
  running,     \* RefreshState::running_
  pending,     \* RefreshState::pending_
  publishing,  \* g_refresh_publishing
  payload,     \* g_refresh_items, g_refresh_paths, g_refresh_count
  payloadLock, \* g_refresh_payload_mutex
  workerLock,  \* g_refresh_worker_mutex
  restarting,  \* g_restarting
  scan,        \* the refresh worker: program counter and what it found
  published,   \* the content manager's list
  paths,       \* g_package_paths
  seen,        \* g_seen_discovery
  waiting,     \* g_state28_started: the panel is in a discovery pass
  stopping,    \* the download service stops
  polling,     \* guest threads that draw menus: the panel's alone, or all
  pc,          \* program counters of the actors
  mine,        \* the payload a guest thread took
  begun,       \* scans begun since boot: the number of the last one
  asks,        \* passes and installs so far
  takes,       \* history: payloads taken
  own          \* history: the scan the panel's pass began, or 0

vars == <<disk, running, pending, publishing, payload, payloadLock, workerLock,
          restarting, scan, published, paths, seen, waiting, stopping, polling,
          pc, mine, begun, asks, takes, own>>

stateVars   == <<running, pending, publishing>>
payloadVars == <<payload, payloadLock, mine, takes>>
listVars    == <<published, paths>>
passVars    == <<seen, waiting, own>>
lockVars    == <<workerLock, restarting>>
askVars     == <<asks, disk, stopping, polling>>

\* A scan's result; number 0 is the boot's, or a moved-from payload.
Results == [scan : 0 .. MaxAsks, items : SUBSET Packages]
Moved == [scan |-> 0, items |-> {}]

Pcs == {"idle", "lock", "readPending", "readPublishing", "begin", "start", "poll",
        "hint", "take", "move", "list", "paths", "clear", "checkRunning",
        "checkPending", "checkPublishing", "job", "askLock", "ask", "stopJoin",
        "drainLock", "drainJoin", "launch", "gone"}

\* Well typed; and no more results are taken than scans could be begun.
TypeOK ==
  /\ disk \subseteq Packages
  /\ {running, pending, publishing, restarting, seen, waiting, stopping} \subseteq BOOLEAN
  /\ payload \in Results /\ published \in Results /\ paths \subseteq Packages
  /\ payloadLock \in Threads \cup {Nobody}
  /\ workerLock \in Actors \cup {Nobody}
  /\ scan \in [pc : {"none", "walk", "store", "pend", "clear"},
               found : SUBSET Packages]
  /\ pc \in [Actors -> Pcs]
  /\ mine \in [Threads -> Results]
  /\ {begun, asks, takes, own} \subseteq 0 .. MaxAsks
  /\ polling \subseteq Threads

Init ==
  /\ disk \in SUBSET Packages
  /\ running = FALSE /\ pending = FALSE /\ publishing = FALSE
  /\ payload = Moved
  /\ payloadLock = Nobody /\ workerLock = Nobody
  /\ restarting = FALSE
  /\ scan = [pc |-> "none", found |-> {}]
  /\ published = [scan |-> 0, items |-> disk]
  /\ paths = disk
  /\ seen = FALSE /\ waiting = FALSE
  /\ stopping = FALSE
  /\ polling \in {{Panel}, Threads}
  /\ pc = [a \in Actors |-> "idle"]
  /\ mine = [t \in Threads |-> Moved]
  /\ begun = 0 /\ asks = 0 /\ takes = 0
  /\ own = 0

Goes(a, from, to) == pc[a] = from /\ pc' = [pc EXCEPT ![a] = to]

\* Steps that change nothing but a program counter, or that and the worker mutex.
OnlyPc == UNCHANGED <<stateVars, payloadVars, lockVars, scan, listVars, passVars,
                      askVars, begun>>
OnlyWorkerLock == UNCHANGED <<stateVars, payloadVars, restarting, scan, listVars,
                              passVars, askVars, begun>>

-----------------------------------------------------------------------------
(* The scan worker                                                         *)

ScanWalks ==
  /\ scan.pc = "walk"
  /\ scan' = [pc |-> "store", found |-> disk]
  /\ UNCHANGED <<stateVars, payloadVars, lockVars, listVars, passVars, askVars,
                 pc, begun>>

ScanStores ==
  /\ scan.pc = "store"
  /\ payloadLock = Nobody
  /\ payload' = [scan |-> begun, items |-> scan.found]
  /\ scan' = [pc |-> "pend", found |-> {}]
  /\ UNCHANGED <<stateVars, payloadLock, mine, takes, lockVars, listVars,
                 passVars, askVars, pc, begun>>

\* Finish sets pending_ and then clears running_.
ClearRunningFirst ==  \* faulty variant
  IF scan.pc = "pend" THEN running' = FALSE /\ UNCHANGED pending
                      ELSE pending' = TRUE /\ UNCHANGED running
SetPendingFirst ==
  IF scan.pc = "pend" THEN pending' = TRUE /\ UNCHANGED running
                      ELSE running' = FALSE /\ UNCHANGED pending

ScanFinishes ==
  /\ scan.pc \in {"pend", "clear"}
  /\ SetPendingFirst
  /\ scan' = [scan EXCEPT !.pc = IF @ = "pend" THEN "clear" ELSE "none"]
  /\ UNCHANGED <<publishing, payloadVars, lockVars, listVars, passVars, askVars,
                 pc, begun>>

ScanStep == ScanWalks \/ ScanStores \/ ScanFinishes

-----------------------------------------------------------------------------
(* Beginning a scan under the worker mutex, for any caller                 *)

Locks(a, from, to) ==
  /\ Goes(a, from, to)
  /\ workerLock = Nobody
  /\ workerLock' = a

Unlocks(a, from, to) ==
  /\ Goes(a, from, to)
  /\ workerLock' = Nobody

\* RefreshState::Begin's compare-and-exchange.
BeginIfPending == ~pending  \* faulty variant: tests the other flag
BeginWins == ~running

\* The caller wins Begin and goes on to start the thread, or rides the scan
\* that runs.
Begins(a, from, riding) ==
  \/ /\ BeginWins
     /\ running' = TRUE
     /\ begun' = begun + 1
     /\ Goes(a, from, "start")
     /\ UNCHANGED workerLock
  \/ /\ ~BeginWins
     /\ Unlocks(a, from, riding)
     /\ UNCHANGED <<running, begun>>

\* StartRefreshWorker joins the last thread and starts a new one; then the
\* caller's lock_guard ends.
StartRefreshWorker(a, to) ==
  /\ Unlocks(a, "start", to)
  /\ scan.pc = "none"
  /\ scan' = [pc |-> "walk", found |-> {}]
  /\ UNCHANGED <<stateVars, payloadVars, restarting, listVars, passVars, askVars,
                 begun>>

-----------------------------------------------------------------------------
(* Publishing: PublishPendingRefresh on guest thread t                     *)

\* The caller: the panel's RefreshReadyForDiscovery looks at the flags again,
\* the menu's poll is done.
Returns(t) == IF t = Panel /\ waiting THEN "checkRunning" ELSE "idle"

\* The menu's poll calls it; the panel's thread runs no menu during a pass.
MenuPolls(t) ==
  /\ t \in polling
  /\ ~(t = Panel /\ waiting)
  /\ Goes(t, "idle", "hint")
  /\ OnlyPc

PublishHint(t) ==
  /\ Goes(t, "hint", IF pending THEN "take" ELSE Returns(t))
  /\ OnlyPc

\* RefreshState::Take's compare-and-exchange, under the payload's mutex.
TakeWins == pending

PublishTakes(t) ==
  /\ payloadLock = Nobody
  /\ \/ /\ TakeWins
        /\ pending' = FALSE
        /\ takes' = takes + 1
        /\ payloadLock' = t
        /\ Goes(t, "take", "move")
     \/ /\ ~TakeWins
        /\ Goes(t, "take", Returns(t))
        /\ UNCHANGED <<pending, takes, payloadLock>>
  /\ UNCHANGED <<running, publishing, payload, mine, lockVars, scan, listVars,
                 passVars, askVars, begun>>

\* The flag waiters look at, the move of the payload, and the unlock.
PublishMoves(t) ==
  /\ Goes(t, "move", "list")
  /\ publishing' = TRUE
  /\ mine' = [mine EXCEPT ![t] = payload]
  /\ payload' = Moved
  /\ payloadLock' = Nobody
  /\ UNCHANGED <<running, pending, takes, lockVars, scan, listVars, passVars,
                 askVars, begun>>

PublishList(t) ==
  /\ Goes(t, "list", "paths")
  /\ published' = mine[t]
  /\ UNCHANGED <<stateVars, payloadVars, lockVars, scan, paths, passVars, askVars,
                 begun>>

\* g_package_paths, and the store's index is told (StoreLibrary).
AddPaths(t) == paths \cup mine[t].items  \* faulty variant
NewPaths(t) == mine[t].items

PublishPaths(t) ==
  /\ Goes(t, "paths", "clear")
  /\ paths' = NewPaths(t)
  /\ UNCHANGED <<stateVars, payloadVars, lockVars, scan, published, passVars,
                 askVars, begun>>

KeepPublishing == publishing' = TRUE  \* faulty variant
ClearPublishing == publishing' = FALSE

PublishDone(t) ==
  /\ Goes(t, "clear", Returns(t))
  /\ ClearPublishing
  /\ mine' = [mine EXCEPT ![t] = Moved]
  /\ UNCHANGED <<running, pending, payload, payloadLock, takes, lockVars, scan,
                 listVars, passVars, askVars, begun>>

PublishStep(t) ==
  \/ PublishHint(t) \/ PublishTakes(t) \/ PublishMoves(t) \/ PublishList(t)
  \/ PublishPaths(t) \/ PublishDone(t)

-----------------------------------------------------------------------------
(* The discovery panel: RefreshConfigured, then RefreshReadyForDiscovery on *)
(* every frame until it answers yes                                        *)

\* The title's panel reaches state 28; the first pass asks for no scan.
PanelEnters ==
  /\ ~waiting
  /\ asks < MaxAsks
  /\ Goes(Panel, "idle", IF seen THEN "lock" ELSE "poll")
  /\ waiting' = TRUE
  /\ seen' = TRUE
  /\ asks' = asks + 1
  /\ own' = 0
  /\ UNCHANGED <<disk, stopping, polling, stateVars, payloadVars, lockVars, scan, listVars,
                 begun>>

IgnoreRestart == FALSE  \* faulty variant
RefreshBarred == restarting

PanelLocks ==
  /\ \/ RefreshBarred /\ workerLock = Nobody /\ Goes(Panel, "lock", "poll")
        /\ UNCHANGED workerLock
     \/ ~RefreshBarred /\ Locks(Panel, "lock", "readPending")
  /\ OnlyWorkerLock

PanelReadsPending ==
  /\ \/ pending /\ Unlocks(Panel, "readPending", "poll")
     \/ ~pending /\ Goes(Panel, "readPending", "readPublishing")
        /\ UNCHANGED workerLock
  /\ OnlyWorkerLock

PanelReadsPublishing ==
  /\ \/ publishing /\ Unlocks(Panel, "readPublishing", "poll")
     \/ ~publishing /\ Goes(Panel, "readPublishing", "begin")
        /\ UNCHANGED workerLock
  /\ OnlyWorkerLock

PanelBegins ==
  /\ Begins(Panel, "begin", "poll")
  /\ own' = IF begun' # begun THEN begun' ELSE 0
  /\ UNCHANGED <<pending, publishing, payloadVars, restarting, scan, listVars,
                 seen, waiting, askVars>>

\* RefreshReadyForDiscovery looks at running_ and calls PublishPendingRefresh.
PanelPolls ==
  /\ Goes(Panel, "poll", "hint")
  /\ ~running
  /\ OnlyPc

\* Its last line reads the three flags one after the other.
PanelChecks ==
  /\ \/ Goes(Panel, "checkRunning", IF running THEN "poll" ELSE "checkPending")
     \/ Goes(Panel, "checkPending", IF pending THEN "poll" ELSE "checkPublishing")
     \/ publishing /\ Goes(Panel, "checkPublishing", "poll")
  /\ OnlyPc

\* The barrier answers yes: the title creates its enumerators from the list.
PanelEnumerates ==
  /\ ~publishing
  /\ Goes(Panel, "checkPublishing", "idle")
  /\ waiting' = FALSE
  /\ UNCHANGED <<stateVars, payloadVars, lockVars, scan, listVars, seen, own,
                 askVars, begun>>

\* The player leaves the panel between two frames.
PanelLeaves ==
  /\ Goes(Panel, "poll", "idle")
  /\ waiting' = FALSE
  /\ UNCHANGED <<stateVars, payloadVars, lockVars, scan, listVars, seen, own,
                 askVars, begun>>

PanelStep ==
  \/ PanelLocks \/ PanelReadsPending \/ PanelReadsPublishing \/ PanelBegins
  \/ StartRefreshWorker(Panel, "poll")
  \/ PanelPolls \/ PanelChecks \/ PanelEnumerates

-----------------------------------------------------------------------------
(* The store's worker: a job commits a package and RefreshAfterStoreInstall *)
(* asks for a scan.  The restart request comes through the same bridge as   *)
(* the presses that queue jobs, so no job is queued while one is served.    *)

StoreTakes ==
  /\ ~stopping
  /\ pc[Restart] = "idle"
  /\ asks < MaxAsks
  /\ Goes(Store, "idle", "job")
  /\ asks' = asks + 1
  /\ UNCHANGED <<disk, stopping, polling, stateVars, payloadVars, lockVars, scan, listVars,
                 passVars, begun>>

StoreEnds ==
  /\ \/ \E p \in Packages \ disk : /\ Goes(Store, "job", "askLock")
                                   /\ disk' = disk \cup {p}
     \/ Goes(Store, "job", "idle") /\ UNCHANGED disk
  /\ UNCHANGED <<asks, stopping, polling, stateVars, payloadVars, lockVars, scan, listVars,
                 passVars, begun>>

StoreLocks ==
  /\ \/ RefreshBarred /\ workerLock = Nobody /\ Goes(Store, "askLock", "idle")
        /\ UNCHANGED workerLock
     \/ ~RefreshBarred /\ Locks(Store, "askLock", "ask")
  /\ OnlyWorkerLock

StoreBegins ==
  /\ Begins(Store, "ask", "idle")
  /\ UNCHANGED <<pending, publishing, payloadVars, restarting, scan, listVars,
                 passVars, askVars>>

StoreStep == \/ StoreEnds \/ StoreLocks \/ StoreBegins
             \/ StartRefreshWorker(Store, "idle")

-----------------------------------------------------------------------------
(* The restart handler                                                     *)

\* StopDownloads before the worker mutex is taken.
LockThenStop ==  \* faulty variant: the mutex is held across StopDownloads
  \/ Locks(Restart, "idle", "stopJoin") /\ stopping' = TRUE /\ UNCHANGED restarting
  \/ /\ Goes(Restart, "stopJoin", "drainJoin")
     /\ pc[Store] = "idle" /\ stopping' = FALSE
     /\ restarting' = TRUE /\ UNCHANGED workerLock
  \/ /\ Unlocks(Restart, "drainJoin", "launch")
     /\ scan.pc = "none" /\ UNCHANGED <<stopping, restarting>>

StopThenLock ==
  \/ /\ Goes(Restart, "idle", "stopJoin")
     /\ stopping' = TRUE /\ UNCHANGED lockVars
  \/ /\ Goes(Restart, "stopJoin", "drainLock")
     /\ pc[Store] = "idle" /\ stopping' = FALSE /\ UNCHANGED lockVars
  \/ /\ Locks(Restart, "drainLock", "drainJoin")
     /\ restarting' = TRUE /\ UNCHANGED stopping
  \/ /\ Unlocks(Restart, "drainJoin", "launch")
     /\ scan.pc = "none" /\ UNCHANGED <<stopping, restarting>>

DrainRefreshForRestart ==
  /\ StopThenLock
  /\ UNCHANGED <<disk, asks, polling, stateVars, payloadVars, scan, listVars, passVars,
                 begun>>

\* The coordinator starts the child, or fails and the game goes on.
Launch ==
  /\ \E end \in {"gone", "idle"} : Goes(Restart, "launch", end)
  /\ OnlyPc

-----------------------------------------------------------------------------
(* The system                                                              *)

Next ==
  \/ ScanStep \/ PanelStep \/ StoreStep \/ DrainRefreshForRestart \/ Launch
  \/ \E t \in Threads : MenuPolls(t) \/ PublishStep(t)
  \/ PanelEnters \/ PanelLeaves \/ StoreTakes

Spec == Init /\ [][Next]_vars

\* Threads are scheduled, the scan and a transfer end, and the panel is polled
\* every frame.  Restarts can fail again and again, and each takes the worker
\* mutex: the panel gets it in the end.  Nothing obliges the menu to draw, a player to enter or leave
\* the panel or to install, or a restart to be asked for; a restart that was
\* asked for goes on.
Fairness ==
  /\ WF_vars(ScanStep) /\ WF_vars(StoreStep)
  /\ \A t \in Threads : WF_vars(PublishStep(t))
  /\ WF_vars(pc[Restart] # "idle" /\ DrainRefreshForRestart)
  /\ SF_vars(PanelStep)

FairSpec == Spec /\ Fairness

\* The menu draws too: its poll publishes what is pending.
FairMenu == FairSpec /\ \A t \in Threads : WF_vars(MenuPolls(t))

-----------------------------------------------------------------------------
(* Properties                                                              *)

Starting == \E a \in {Panel, Store} : pc[a] = "start"

\* One scan at a time: running_ is set exactly from Begin to the end of Finish,
\* so the join in StartRefreshWorker, which runs on the frame that asked,
\* never waits for a scan.
ScanIsAlone ==
  /\ running <=> scan.pc # "none" \/ Starting
  /\ Starting => scan.pc = "none"

\* Behind the restart barrier nothing scans, nothing is about to, and no
\* install commits, whatever the panel and the store's worker were doing.
BarrierHolds ==
  pc[Restart] = "launch" => /\ scan.pc = "none" /\ ~running /\ ~Starting
                            /\ pc[Store] = "idle"

\* With one guest thread, a pass that began a scan of its own enumerates that
\* scan's list or a later one, never an earlier one.  (It can still enumerate
\* the empty list of a scan that was begun while a result was pending.)
EnumeratesOwnScan ==
  [][polling = {Panel} /\ PanelEnumerates =>
       published.scan >= own \/ published = Moved]_vars

\* With one guest thread, the two lists a publish writes agree whenever no
\* publish is under way.
ListsAgree ==
  polling = {Panel} /\ pc[Panel] # "paths" => paths = published.items

\* The panel never waits for ever, as long as the player stays.
PanelResumes == waiting ~> ~waiting

\* A restart gets through its barrier: it never waits for a worker that waits
\* for the mutex it holds.
BarrierReturns == (pc[Restart] = "stopJoin") ~> (pc[Restart] = "launch")

-----------------------------------------------------------------------------
(* Claims of the code's comments that the code does not keep               *)

\* dlc.cpp:663-664: what RefreshAfterStoreInstall guarantees is that a later
\* menu-boundary publish sees the package.  An install that rides a scan which
\* has already walked the folder is in no list, and nothing asks again.
InstallIsPublished ==
  \A p \in Packages : (p \in disk /\ pc[Store] = "ask")
                         ~> (p \in published.items \/ published = Moved)
=============================================================================
