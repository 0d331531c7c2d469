------------------------- MODULE LibraryRefresh_proofs -------------------------
(***************************************************************************)
(* The refresh is well typed, one scan runs at a time, the restart barrier *)
(* holds and the published lists agree, for any number of guest threads,   *)
(* packages and passes.                                                    *)
(*                                                                         *)
(* The worker mutex makes it inductive: exactly its owner stands in the    *)
(* section that reads the flags, begins a scan and starts the thread, so   *)
(* no two callers start one, and once the restart handler has owned it     *)
(* nobody else ever does.  The bound on `takes' needs the scans counted:   *)
(* every pass or install still owes at most one scan and every scan one    *)
(* result.                                                                 *)
(***************************************************************************)
EXTENDS LibraryRefresh, TLAPS

Count(b) == IF b THEN 1 ELSE 0

\* The sections of RefreshConfigured, RefreshAfterStoreInstall and
\* DrainRefreshForRestart under g_refresh_worker_mutex.
Section == {"readPending", "readPublishing", "begin", "ask", "start", "drainJoin"}

OwnerIsInside == \A a \in Actors : pc[a] \in Section <=> workerLock = a

\* The typed state, with the counters' bounds left to Owed.
Typed ==
  /\ disk \subseteq Packages
  /\ {running, pending, publishing, restarting, seen, waiting, stopping} \subseteq BOOLEAN
  /\ payload \in Results /\ published \in Results /\ paths \subseteq Packages
  /\ payloadLock \in Threads \cup {Nobody}
  /\ workerLock \in Actors \cup {Nobody}
  /\ scan \in [pc : {"none", "walk", "store", "pend", "clear"},
               found : SUBSET Packages]
  /\ pc \in [Actors -> Pcs]
  /\ mine \in [Threads -> Results]
  /\ {begun, asks, takes, own} \subseteq Nat /\ asks <= MaxAsks
  /\ polling \subseteq Threads

\* Every scan begun was asked for, and every result taken was a scan's.
Owed ==
  /\ begun + Count(pc[Panel] \in {"lock", "readPending", "readPublishing", "begin"})
           + Count(pc[Store] \in {"job", "askLock", "ask"}) <= asks
  /\ takes + Count(pending)
           + Count(scan.pc \in {"walk", "store", "pend"} \/ Starting) <= begun
  /\ own <= begun

\* Once the restart handler has had the mutex nobody else begins a scan, and
\* from the join of the downloads on no job runs.
Barred ==
  /\ pc[Restart] \in {"drainJoin", "launch"} => restarting
  /\ restarting => workerLock \in {Restart, Nobody}
  /\ pc[Restart] = "launch" => scan.pc = "none"
  /\ pc[Restart] \in {"drainLock", "drainJoin", "launch"} => pc[Store] = "idle"

\* With one guest thread no other thread publishes.
OnePublisher ==
  polling = {Panel} =>
    /\ \A t \in Threads \ {Panel} : pc[t] = "idle"
    /\ pc[Panel] = "paths" => published = mine[Panel]
    /\ pc[Panel] # "paths" => paths = published.items

IInv == Typed /\ OwnerIsInside /\ Owed /\ ScanIsAlone /\ Barred

-----------------------------------------------------------------------------
LEMMA DistinctActors ==
  /\ Panel \in Threads /\ Panel \in Actors /\ Store \in Actors /\ Restart \in Actors
  /\ Threads \subseteq Actors
  /\ Panel # Store /\ Panel # Restart /\ Store # Restart
  /\ Store \notin Threads /\ Restart \notin Threads
  /\ Nobody # Panel /\ Nobody # Store /\ Nobody # Restart /\ Nobody \notin Threads
  /\ Nobody \notin Actors
  BY ActorsAssumption DEF Actors

LEMMA InitInv == Init => IInv
<1> SUFFICES ASSUME Init PROVE IInv
  OBVIOUS
<1> USE ActorsAssumption, MaxAsksAssumption, DistinctActors
<1>1. Typed
  <2>1. disk \subseteq Packages /\ Moved \in Results /\ published \in Results
    BY DEF Init, Results, Moved
  <2>2. pc \in [Actors -> Pcs] /\ mine \in [Threads -> Results]
    BY <2>1 DEF Init, Pcs
  <2>3. scan \in [pc : {"none", "walk", "store", "pend", "clear"},
                 found : SUBSET Packages]
    BY DEF Init
  <2>4. polling \subseteq Threads
    BY DEF Init
  <2>5. /\ {running, pending, publishing, restarting, seen, waiting, stopping} \subseteq BOOLEAN
        /\ payloadLock \in Threads \cup {Nobody} /\ workerLock \in Actors \cup {Nobody}
    BY DEF Init
  <2>7. {begun, asks, takes, own} \subseteq Nat /\ asks <= MaxAsks
    BY DEF Init
  <2>6. paths \subseteq Packages /\ payload \in Results
    BY <2>1 DEF Init
  <2> QED
    BY <2>1, <2>2, <2>3, <2>4, <2>5, <2>6, <2>7 DEF Typed
<1>2. OwnerIsInside
  BY DEF Init, OwnerIsInside, Section, Actors
<1>3. Owed
  BY DEF Init, Owed, Count, Starting
<1>4. ScanIsAlone /\ Barred
  BY DEF Init, ScanIsAlone, Barred, Starting
<1> QED
  BY <1>1, <1>2, <1>3, <1>4 DEF IInv

-----------------------------------------------------------------------------
\* The scan worker only moves its own counter and the two flags.
LEMMA ScanKeeps == ASSUME IInv, ScanStep PROVE IInv'
<1> USE DistinctActors, MaxAsksAssumption
<1> DEFINE Kept == <<pc, workerLock, restarting, disk, asks, own, takes, begun,
                     published, paths, seen, waiting, stopping, polling, mine,
                     payloadLock, publishing>>
<1>0. UNCHANGED Kept
  BY DEF ScanStep, ScanWalks, ScanStores, ScanFinishes, SetPendingFirst, payloadVars,
         lockVars, listVars, passVars, askVars, stateVars
<1>1. Typed'
  <2>1. CASE ScanWalks
    BY <2>1, <1>0 DEF IInv, Typed, ScanWalks, stateVars, payloadVars
  <2>2. CASE ScanStores
    BY <2>2, <1>0 DEF IInv, Typed, Owed, Count, ScanStores, stateVars, Results
  <2>3. CASE ScanFinishes
    BY <2>3, <1>0 DEF IInv, Typed, ScanFinishes, SetPendingFirst, payloadVars
  <2> QED BY <2>1, <2>2, <2>3 DEF ScanStep
<1>2. OwnerIsInside'
  BY <1>0 DEF IInv, OwnerIsInside
<1>3. Owed' /\ ScanIsAlone' /\ Barred'
  <2>1. CASE ScanWalks
    BY <2>1, <1>0 DEF IInv, Typed, Owed, Count, ScanIsAlone, Barred, Starting, ScanWalks,
                      stateVars
  <2>2. CASE ScanStores
    BY <2>2, <1>0 DEF IInv, Typed, Owed, Count, ScanIsAlone, Barred, Starting, ScanStores,
                      stateVars
  <2>3. CASE ScanFinishes
    BY <2>3, <1>0 DEF IInv, Typed, Owed, Count, ScanIsAlone, Barred, Starting,
                      ScanFinishes, SetPendingFirst
  <2> QED BY <2>1, <2>2, <2>3 DEF ScanStep
<1> QED
  BY <1>1, <1>2, <1>3 DEF IInv

-----------------------------------------------------------------------------
\* Begin and StartRefreshWorker, for the panel and for the store's worker.
LEMMA BeginKeeps ==
  ASSUME IInv, NEW a \in {Panel, Store}, NEW from \in {"begin", "ask"},
         NEW riding \in {"poll", "idle"},
         Begins(a, from, riding), a = Panel <=> from = "begin",
         UNCHANGED <<pending, publishing, payloadVars, restarting, scan, listVars,
                     seen, waiting, askVars>>,
         own' \in {own, begun', 0}
  PROVE  IInv'
<1> USE DistinctActors, MaxAsksAssumption
<1> USE DEF payloadVars, listVars, askVars
<1>0. pc[a] = from /\ a \in Actors /\ workerLock = a /\ begun \in Nat
  BY DEF IInv, Typed, Begins, Goes, Unlocks, OwnerIsInside, Section
<1>1. ASSUME NEW to \in {"start", "poll", "idle"}, pc' = [pc EXCEPT ![a] = to],
             workerLock' = IF to = "start" THEN a ELSE Nobody,
             running' \in BOOLEAN, begun' \in Nat
      PROVE  Typed' /\ OwnerIsInside'
  <2>1. to \in Pcs
    BY DEF Pcs
  <2>2. pc' \in [Actors -> Pcs] /\ workerLock' \in Actors \cup {Nobody}
    BY <1>0, <1>1, <2>1 DEF IInv, Typed
  <2>3. {begun', asks', takes', own'} \subseteq Nat /\ asks' <= MaxAsks
    BY <1>1 DEF IInv, Typed
  <2>4. Typed'
    BY <1>1, <2>2, <2>3 DEF IInv, Typed
  <2>5. ASSUME NEW b \in Actors PROVE pc'[b] \in Section <=> workerLock' = b
    <3>1. CASE b = a
      BY <1>0, <1>1, <3>1 DEF IInv, Typed, Section
    <3>2. CASE b # a
      BY <1>0, <1>1, <3>2 DEF IInv, Typed, OwnerIsInside
    <3> QED BY <3>1, <3>2
  <2> QED BY <2>4, <2>5 DEF OwnerIsInside
<1>3. ~Starting
  BY <1>0 DEF IInv, OwnerIsInside, Section, Starting
<1>4. CASE BeginWins
  <2>1. running' = TRUE /\ begun' = begun + 1 /\ pc' = [pc EXCEPT ![a] = "start"]
        /\ UNCHANGED workerLock
    BY <1>4 DEF Begins, Goes
  <2>5. Typed' /\ OwnerIsInside'
    BY <1>0, <1>1, <2>1
  <2>2. scan.pc = "none" /\ Starting'
    BY <1>4, <1>0, <2>1 DEF BeginWins, IInv, Typed, ScanIsAlone, Starting
  <2>3. Owed'
    BY <2>1, <2>2, <1>0, <1>3 DEF IInv, Typed, Owed, Count, Starting
  <2>4. ScanIsAlone' /\ Barred'
    BY <2>1, <2>2, <1>0 DEF IInv, Typed, ScanIsAlone, Barred
  <2> QED BY <2>5, <2>3, <2>4 DEF IInv
<1>5. CASE ~BeginWins
  <2>1. pc' = [pc EXCEPT ![a] = riding] /\ workerLock' = Nobody
        /\ UNCHANGED <<running, begun>>
    BY <1>5 DEF Begins, Goes, Unlocks
  <2>5. Typed' /\ OwnerIsInside'
    BY <1>0, <1>1, <2>1 DEF IInv, Typed
  <2>2. ~Starting'
    BY <1>0, <1>3, <2>1 DEF IInv, Typed, Starting
  <2>3. Owed'
    BY <2>1, <2>2, <1>0, <1>3 DEF IInv, Typed, Owed, Count
  <2>4. ScanIsAlone' /\ Barred'
    BY <2>1, <2>2, <1>3, <1>0 DEF IInv, Typed, ScanIsAlone, Barred
  <2> QED BY <2>5, <2>3, <2>4 DEF IInv
<1> QED BY <1>4, <1>5

LEMMA StartKeeps ==
  ASSUME IInv, NEW a \in {Panel, Store}, NEW to \in {"poll", "idle"},
         StartRefreshWorker(a, to)
  PROVE  IInv'
<1> USE DistinctActors, MaxAsksAssumption
<1> USE DEF stateVars, payloadVars, listVars, passVars, askVars
<1>0. pc[a] = "start" /\ a \in Actors /\ workerLock = a /\ Starting
      /\ pc' = [pc EXCEPT ![a] = to] /\ workerLock' = Nobody
      /\ scan.pc = "none" /\ scan' = [pc |-> "walk", found |-> {}]
  BY DEF IInv, StartRefreshWorker, Goes, Unlocks, OwnerIsInside, Section, Starting
<1>1. Typed'
  BY <1>0 DEF IInv, Typed, StartRefreshWorker, Pcs
<1>2. OwnerIsInside'
  <2>1. ASSUME NEW b \in Actors PROVE pc'[b] \in Section <=> workerLock' = b
    <3>1. CASE b = a
      BY <1>0, <3>1 DEF IInv, Typed, Section
    <3>2. CASE b # a
      BY <1>0, <3>2 DEF IInv, Typed, OwnerIsInside
    <3> QED BY <3>1, <3>2
  <2> QED BY <2>1 DEF OwnerIsInside
<1>3. ~Starting'
  BY <1>0 DEF IInv, Typed, OwnerIsInside, Section, Starting
<1>4. Owed'
  BY <1>0, <1>3 DEF IInv, Typed, Owed, Count, StartRefreshWorker
<1>5. ScanIsAlone' /\ Barred'
  BY <1>0, <1>3 DEF IInv, Typed, ScanIsAlone, Barred, StartRefreshWorker
<1> QED BY <1>1, <1>2, <1>4, <1>5 DEF IInv

-----------------------------------------------------------------------------
\* The rest of the panel's steps, outside and inside the section.
LEMMA PanelKeeps ==
  ASSUME IInv,
         \/ PanelLocks \/ PanelReadsPending \/ PanelReadsPublishing
         \/ PanelPolls \/ PanelChecks \/ PanelEnumerates \/ PanelLeaves
         \/ PanelEnters
  PROVE  IInv'
<1> USE DistinctActors, MaxAsksAssumption
<1> USE DEF OnlyPc, OnlyWorkerLock, stateVars, payloadVars, lockVars, listVars, passVars,
            askVars, Goes, Locks, Unlocks
<1>0. UNCHANGED <<running, pending, publishing, payload, payloadLock, mine, takes,
                  restarting, scan, published, paths, disk, stopping, polling, begun>>
  BY DEF PanelLocks, PanelReadsPending, PanelReadsPublishing, PanelPolls, PanelChecks,
         PanelEnumerates, PanelLeaves, PanelEnters
<1> DEFINE Moves(to) == /\ pc' = [pc EXCEPT ![Panel] = to]
                        /\ to \in Section => workerLock' = Panel
                        /\ to \notin Section => workerLock' # Panel
<1>1. /\ \E to \in Pcs : Moves(to)
      /\ \/ workerLock' = workerLock
         \/ workerLock = Nobody /\ workerLock' = Panel
         \/ workerLock = Panel /\ workerLock' = Nobody
      /\ {seen', waiting'} \subseteq BOOLEAN
      /\ own' \in {own, 0}
      /\ asks' \in Nat /\ asks' <= MaxAsks
  <2> USE DEF IInv, Typed, OwnerIsInside, Section, Pcs
  <2>1. CASE PanelLocks
    BY <2>1 DEF PanelLocks
  <2>2. CASE PanelReadsPending
    BY <2>2 DEF PanelReadsPending
  <2>3. CASE PanelReadsPublishing
    BY <2>3 DEF PanelReadsPublishing
  <2>4. CASE PanelPolls \/ PanelChecks
    BY <2>4 DEF PanelPolls, PanelChecks
  <2>5. CASE PanelEnumerates \/ PanelLeaves
    BY <2>5 DEF PanelEnumerates, PanelLeaves
  <2>6. CASE PanelEnters
    BY <2>6 DEF PanelEnters
  <2> QED BY <2>1, <2>2, <2>3, <2>4, <2>5, <2>6
<1>8. PICK to \in Pcs : Moves(to)
  BY <1>1, Zenon
<1>2. Typed'
  <2>1. pc' \in [Actors -> Pcs] /\ workerLock' \in Actors \cup {Nobody}
    BY <1>1, <1>8 DEF IInv, Typed
  <2>2. {begun', asks', takes', own'} \subseteq Nat /\ asks' <= MaxAsks
    BY <1>0, <1>1 DEF IInv, Typed
  <2> QED
    BY <1>0, <1>1, <2>1, <2>2 DEF IInv, Typed
<1>3. OwnerIsInside'
  <2>1. ASSUME NEW b \in Actors PROVE pc'[b] \in Section <=> workerLock' = b
    <3>1. CASE b = Panel
      BY <1>8, <3>1 DEF IInv, Typed
    <3>2. CASE b # Panel
      BY <1>1, <1>8, <3>2 DEF IInv, Typed, OwnerIsInside
    <3> QED BY <3>1, <3>2
  <2> QED BY <2>1 DEF OwnerIsInside
<1>4. pc[Store]' = pc[Store] /\ pc[Restart]' = pc[Restart] /\ Starting' = Starting
  BY <1>1 DEF IInv, Typed, Starting, PanelLocks, PanelReadsPending, PanelReadsPublishing,
              PanelPolls, PanelChecks, PanelEnumerates, PanelLeaves, PanelEnters
<1>5. Owed'
  <2> DEFINE C == Count(pc[Panel] \in {"lock", "readPending", "readPublishing", "begin"})
  <2>1. asks' - C' >= asks - C
    BY DEF IInv, Typed, Count, PanelLocks, PanelReadsPending, PanelReadsPublishing,
           PanelPolls, PanelChecks, PanelEnumerates, PanelLeaves, PanelEnters
  <2>2. C \in Nat /\ C' \in Nat
    BY DEF Count
  <2>3. own' <= begun
    BY <1>1 DEF IInv, Typed, Owed, Count
  <2> HIDE DEF C
  <2> QED
    BY <1>0, <1>1, <1>4, <2>1, <2>2, <2>3 DEF IInv, Typed, Owed, C, Count
<1>6. ScanIsAlone'
  BY <1>0, <1>4 DEF IInv, ScanIsAlone
<1>7. Barred'
  BY <1>0, <1>4 DEF IInv, Barred, PanelLocks, RefreshBarred, PanelReadsPending,
     PanelReadsPublishing, PanelPolls, PanelChecks, PanelEnumerates, PanelLeaves,
     PanelEnters
<1> QED BY <1>2, <1>3, <1>5, <1>6, <1>7 DEF IInv

-----------------------------------------------------------------------------
\* The store's worker between two scans, and the restart handler.
LEMMA StoreKeeps == ASSUME IInv, StoreTakes \/ StoreEnds \/ StoreLocks PROVE IInv'
<1> USE DistinctActors, MaxAsksAssumption
<1> USE DEF OnlyWorkerLock, stateVars, payloadVars, lockVars, listVars, passVars, askVars,
            Goes, Locks
<1>0. UNCHANGED <<running, pending, publishing, payload, payloadLock, mine, takes,
                  restarting, scan, published, paths, seen, waiting, own, stopping,
                  polling, begun>>
  BY DEF StoreTakes, StoreEnds, StoreLocks
<1>1. /\ \E to \in {"job", "askLock", "ask", "idle"} :
           /\ pc' = [pc EXCEPT ![Store] = to]
           /\ workerLock' = IF to = "ask" THEN Store ELSE workerLock
           /\ to = "ask" => workerLock = Nobody /\ ~restarting
           /\ to # "idle" => pc[Restart] \notin {"drainLock", "drainJoin", "launch"}
      /\ pc[Store] \in {"idle", "job", "askLock"}
      /\ disk' \subseteq Packages
      /\ asks' \in Nat /\ asks' <= MaxAsks
  <2> USE DEF IInv, Typed, Barred
  <2>1. CASE StoreTakes
    BY <2>1 DEF StoreTakes
  <2>2. CASE StoreEnds
    BY <2>2 DEF StoreEnds
  <2>3. CASE StoreLocks
    BY <2>3 DEF StoreLocks, RefreshBarred
  <2> QED BY <2>1, <2>2, <2>3
<1>2. PICK to \in {"job", "askLock", "ask", "idle"} :
           /\ pc' = [pc EXCEPT ![Store] = to]
           /\ workerLock' = IF to = "ask" THEN Store ELSE workerLock
           /\ to = "ask" => workerLock = Nobody /\ ~restarting
           /\ to # "idle" => pc[Restart] \notin {"drainLock", "drainJoin", "launch"}
  BY <1>1, Zenon
<1>3. Typed'
  <2>1. pc' \in [Actors -> Pcs] /\ workerLock' \in Actors \cup {Nobody}
    BY <1>2 DEF IInv, Typed, Pcs
  <2>2. {begun', asks', takes', own'} \subseteq Nat
    BY <1>0, <1>1 DEF IInv, Typed
  <2> QED
    BY <1>0, <1>1, <2>1, <2>2 DEF IInv, Typed
<1>4. OwnerIsInside'
  <2>1. ASSUME NEW b \in Actors PROVE pc'[b] \in Section <=> workerLock' = b
    <3>1. CASE b = Store
      BY <1>1, <1>2, <3>1 DEF IInv, Typed, OwnerIsInside, Section
    <3>2. CASE b # Store
      BY <1>2, <3>2 DEF IInv, Typed, OwnerIsInside
    <3> QED BY <3>1, <3>2
  <2> QED BY <2>1 DEF OwnerIsInside
<1>5. pc[Panel]' = pc[Panel] /\ pc[Restart]' = pc[Restart] /\ Starting' = Starting
  BY <1>1, <1>2 DEF IInv, Typed, Starting
<1>6. Owed'
  <2> DEFINE C == Count(pc[Store] \in {"job", "askLock", "ask"})
  <2>1. asks' - C' >= asks - C
    BY DEF IInv, Typed, Count, StoreTakes, StoreEnds, StoreLocks
  <2>2. C \in Nat /\ C' \in Nat
    BY DEF Count
  <2> HIDE DEF C
  <2> QED
    BY <1>0, <1>1, <1>5, <2>1, <2>2 DEF IInv, Typed, Owed, C, Count
<1>7. ScanIsAlone'
  BY <1>0, <1>5 DEF IInv, ScanIsAlone
<1>8. Barred'
  BY <1>0, <1>2, <1>5 DEF IInv, Typed, Barred
<1> QED BY <1>3, <1>4, <1>6, <1>7, <1>8 DEF IInv

LEMMA RestartKeeps == ASSUME IInv, DrainRefreshForRestart \/ Launch PROVE IInv'
<1> USE DistinctActors, MaxAsksAssumption
<1> USE DEF OnlyPc, stateVars, payloadVars, lockVars, listVars, passVars, askVars, Goes,
            Locks, Unlocks
<1>0. UNCHANGED <<running, pending, publishing, payload, payloadLock, mine, takes,
                  scan, published, paths, seen, waiting, own, disk, asks, polling,
                  begun>>
  BY DEF DrainRefreshForRestart, Launch
<1>1. /\ \E to \in {"stopJoin", "drainLock", "drainJoin", "launch", "gone", "idle"} :
           /\ pc' = [pc EXCEPT ![Restart] = to]
           /\ to = "drainJoin" => workerLock = Nobody /\ workerLock' = Restart
                                   /\ restarting'
           /\ to = "launch" => pc[Restart] = "drainJoin" /\ workerLock' = Nobody
                                /\ scan.pc = "none"
           /\ to \notin {"drainJoin", "launch"} =>
                pc[Restart] \notin Section /\ workerLock' = workerLock
           /\ to \in {"drainLock", "drainJoin", "launch"} => pc[Store] = "idle"
           /\ to # "drainJoin" => restarting' = restarting
      /\ {stopping', restarting'} \subseteq BOOLEAN
  <2> USE DEF IInv, Typed, Barred, Section
  <2>1. CASE DrainRefreshForRestart
    BY <2>1 DEF DrainRefreshForRestart, StopThenLock
  <2>2. CASE Launch
    BY <2>2 DEF Launch
  <2> QED BY <2>1, <2>2
<1>2. PICK to \in {"stopJoin", "drainLock", "drainJoin", "launch", "gone", "idle"} :
           /\ pc' = [pc EXCEPT ![Restart] = to]
           /\ to = "drainJoin" => workerLock = Nobody /\ workerLock' = Restart
                                   /\ restarting'
           /\ to = "launch" => pc[Restart] = "drainJoin" /\ workerLock' = Nobody
                                /\ scan.pc = "none"
           /\ to \notin {"drainJoin", "launch"} =>
                pc[Restart] \notin Section /\ workerLock' = workerLock
           /\ to \in {"drainLock", "drainJoin", "launch"} => pc[Store] = "idle"
           /\ to # "drainJoin" => restarting' = restarting
  BY <1>1, Zenon
<1>3. Typed'
  <2>1. pc' \in [Actors -> Pcs] /\ workerLock' \in Actors \cup {Nobody}
    BY <1>2 DEF IInv, Typed, Pcs
  <2>2. {begun', asks', takes', own'} \subseteq Nat
    BY <1>0 DEF IInv, Typed
  <2> QED
    BY <1>0, <1>1, <2>1, <2>2 DEF IInv, Typed
<1>4. OwnerIsInside'
  <2>1. ASSUME NEW b \in Actors PROVE pc'[b] \in Section <=> workerLock' = b
    <3>1. CASE b = Restart
      BY <1>2, <3>1 DEF IInv, Typed, OwnerIsInside, Section
    <3>2. CASE b # Restart
      BY <1>2, <3>2 DEF IInv, Typed, OwnerIsInside, Section
    <3> QED BY <3>1, <3>2
  <2> QED BY <2>1 DEF OwnerIsInside
<1>5. pc[Panel]' = pc[Panel] /\ pc[Store]' = pc[Store] /\ Starting' = Starting
  BY <1>2 DEF IInv, Typed, Starting
<1>6. Owed'
  BY <1>0, <1>5 DEF IInv, Owed
<1>7. ScanIsAlone'
  BY <1>0, <1>5 DEF IInv, ScanIsAlone
<1>8. Barred'
  BY <1>0, <1>2, <1>5 DEF IInv, Typed, Barred
<1> QED BY <1>3, <1>4, <1>6, <1>7, <1>8 DEF IInv

-----------------------------------------------------------------------------
\* Publishing never enters the section.
Publishes == {"idle", "hint", "take", "move", "list", "paths", "clear", "checkRunning"}

LEMMA PublishKeeps ==
  ASSUME IInv, NEW t \in Threads, MenuPolls(t) \/ PublishStep(t)
  PROVE  IInv'
<1> USE DistinctActors, MaxAsksAssumption
<1> USE DEF OnlyPc, stateVars, payloadVars, lockVars, listVars, passVars, askVars, Goes,
            PublishStep, MenuPolls, PublishHint, PublishTakes, PublishMoves, PublishList,
            PublishPaths, PublishDone
<1>0. UNCHANGED <<running, workerLock, restarting, scan, seen, waiting, own, disk, asks,
                  stopping, polling, begun>>
  OBVIOUS
<1> DEFINE Moves(to) == pc' = [pc EXCEPT ![t] = to]
<1>1. /\ \E to \in Publishes : Moves(to)
      /\ pc[t] \in Publishes
  BY DEF Publishes, Returns
<1>2. PICK to \in Publishes : Moves(to)
  BY <1>1, Zenon
<1>3. /\ {pending', publishing'} \subseteq BOOLEAN
      /\ takes' \in Nat
      /\ takes' + Count(pending') = takes + Count(pending)
  <2>1. \/ UNCHANGED <<pending, takes>>
        \/ pending /\ pending' = FALSE /\ takes' = takes + 1
    BY DEF TakeWins
  <2>2. publishing' \in {publishing, TRUE, FALSE}
    BY DEF ClearPublishing
  <2>3. {pending, publishing} \subseteq BOOLEAN /\ takes \in Nat
    BY DEF IInv, Typed
  <2>4. CASE UNCHANGED <<pending, takes>>
    BY <2>2, <2>3, <2>4
  <2>5. CASE pending /\ pending' = FALSE /\ takes' = takes + 1
    <3>1. takes' \in Nat /\ takes' + Count(pending') = takes + Count(pending)
      BY <2>3, <2>5 DEF Count
    <3> QED BY <2>2, <2>3, <2>5, <3>1
  <2> QED BY <2>1, <2>4, <2>5
<1>4. /\ payload' \in Results /\ published' \in Results
      /\ mine' \in [Threads -> Results] /\ paths' \subseteq Packages
      /\ payloadLock' \in Threads \cup {Nobody}
  <2>1. Moved \in Results
    BY DEF Moved, Results
  <2>2. mine[t] \in Results /\ mine[t].items \subseteq Packages
    BY DEF IInv, Typed, Results
  <2> QED BY <2>1, <2>2 DEF IInv, Typed, NewPaths
<1>5. Typed'
  <2>1. pc' \in [Actors -> Pcs]
    BY <1>2 DEF IInv, Typed, Pcs, Publishes
  <2>2. {begun', asks', takes', own'} \subseteq Nat
    BY <1>0, <1>3 DEF IInv, Typed
  <2> QED
    BY <1>0, <1>3, <1>4, <2>1, <2>2 DEF IInv, Typed
<1>6. OwnerIsInside'
  <2>1. ASSUME NEW b \in Actors PROVE pc'[b] \in Section <=> workerLock' = b
    <3>1. CASE b = t
      BY <1>0, <1>1, <1>2, <3>1 DEF IInv, Typed, OwnerIsInside, Section, Publishes
    <3>2. CASE b # t
      BY <1>0, <1>2, <3>2 DEF IInv, Typed, OwnerIsInside
    <3> QED BY <3>1, <3>2
  <2> QED BY <2>1 DEF OwnerIsInside
<1>7. /\ pc'[Store] = pc[Store] /\ pc'[Restart] = pc[Restart]
      /\ pc'[Panel] = pc[Panel] \/ {pc[Panel], pc'[Panel]} \subseteq Publishes
  BY <1>1, <1>2 DEF IInv, Typed
<1>8. Starting' = Starting
  BY <1>7 DEF Starting, Publishes
<1>9. Owed'
  <2>1. Count(pc'[Panel] \in {"lock", "readPending", "readPublishing", "begin"})
          = Count(pc[Panel] \in {"lock", "readPending", "readPublishing", "begin"})
    BY <1>7 DEF Publishes
  <2> QED
    BY <1>0, <1>3, <1>7, <1>8, <2>1 DEF IInv, Typed, Owed, Count
<1>10. ScanIsAlone' /\ Barred'
  BY <1>0, <1>7, <1>8 DEF IInv, ScanIsAlone, Barred
<1> QED BY <1>5, <1>6, <1>9, <1>10 DEF IInv

LEMMA InvStep == IInv /\ [Next]_vars => IInv'
<1> SUFFICES ASSUME IInv, [Next]_vars PROVE IInv'
  OBVIOUS
<1>1. CASE ScanStep
  BY <1>1, ScanKeeps
<1>2. CASE PanelBegins
  BY <1>2, BeginKeeps DEF PanelBegins
<1>3. CASE StoreBegins
  BY <1>3, BeginKeeps, DistinctActors DEF StoreBegins, passVars
<1>4. CASE StartRefreshWorker(Panel, "poll")
  BY <1>4, StartKeeps
<1>5. CASE StartRefreshWorker(Store, "idle")
  BY <1>5, StartKeeps
<1>6. CASE \/ PanelLocks \/ PanelReadsPending \/ PanelReadsPublishing
           \/ PanelPolls \/ PanelChecks \/ PanelEnumerates \/ PanelLeaves
           \/ PanelEnters
  BY <1>6, PanelKeeps
<1>7. CASE StoreTakes \/ StoreEnds \/ StoreLocks
  BY <1>7, StoreKeeps
<1>8. CASE DrainRefreshForRestart \/ Launch
  BY <1>8, RestartKeeps
<1>9. CASE \E t \in Threads : MenuPolls(t) \/ PublishStep(t)
  BY <1>9, PublishKeeps
<1>10. CASE UNCHANGED vars
  BY <1>10 DEF vars, payloadVars, stateVars, IInv, Typed, OwnerIsInside, Owed, ScanIsAlone,
     Barred, Starting
<1> QED
  BY <1>1, <1>2, <1>3, <1>4, <1>5, <1>6, <1>7, <1>8, <1>9, <1>10
     DEF Next, PanelStep, StoreStep

\* The invariant holds of the refresh.
THEOREM InvAlways == Spec => []IInv
  BY InitInv, InvStep, PTL DEF Spec

-----------------------------------------------------------------------------
\* Every reachable state is well typed, and no more results are taken from the
\* scans than passes and installs asked for.
THEOREM TypeCorrect == Spec => []TypeOK
<1>1. IInv => TypeOK
  <2> SUFFICES ASSUME IInv PROVE TypeOK
    OBVIOUS
  <2>1. {begun, asks, takes, own} \subseteq 0 .. MaxAsks
    BY MaxAsksAssumption DEF IInv, Typed, Owed, Count
  <2> QED BY <2>1 DEF IInv, Typed, TypeOK
<1> QED BY <1>1, InvAlways, PTL

\* One scan at a time: running_ is exactly the life of a scan, so the join in
\* StartRefreshWorker never waits for one.
THEOREM ScanIsAloneAlways == Spec => []ScanIsAlone
<1>1. IInv => ScanIsAlone
  BY DEF IInv
<1> QED BY <1>1, InvAlways, PTL

\* Behind DrainRefreshForRestart nothing scans, is about to, or installs.
THEOREM BarrierHoldsAlways == Spec => []BarrierHolds
<1>1. IInv => BarrierHolds
  <2> SUFFICES ASSUME IInv, pc[Restart] = "launch" PROVE
                 scan.pc = "none" /\ ~running /\ ~Starting /\ pc[Store] = "idle"
    BY DEF BarrierHolds
  <2>1. workerLock \in {Restart, Nobody}
    BY DEF IInv, Barred
  <2>2. ~Starting
    BY <2>1, DistinctActors DEF IInv, OwnerIsInside, Section, Starting
  <2> QED BY <2>2 DEF IInv, ScanIsAlone, Barred
<1> QED BY <1>1, InvAlways, PTL

-----------------------------------------------------------------------------
\* Which threads draw menus is settled at the start.
LEMMA PollingStays == ASSUME [Next]_vars PROVE polling' = polling
BY DEF Next, vars, ScanStep, ScanWalks, ScanStores, ScanFinishes, PanelStep,
   PanelLocks, PanelReadsPending, PanelReadsPublishing, PanelBegins,
   StartRefreshWorker, PanelPolls, PanelChecks, PanelEnumerates, PanelLeaves,
   PanelEnters, StoreStep, StoreTakes, StoreEnds, StoreLocks, StoreBegins,
   DrainRefreshForRestart, Launch, MenuPolls, PublishStep, PublishHint,
   PublishTakes, PublishMoves, PublishList, PublishPaths, PublishDone, OnlyPc,
   OnlyWorkerLock, askVars

LEMMA PublisherInit == Init => OnePublisher
BY DistinctActors DEF Init, OnePublisher, Actors

LEMMA PublisherStep == IInv /\ OnePublisher /\ [Next]_vars => OnePublisher'
<1> SUFFICES ASSUME IInv, OnePublisher, [Next]_vars, polling' = {Panel}
             PROVE  /\ \A t \in Threads \ {Panel} : pc'[t] = "idle"
                    /\ pc'[Panel] = "paths" => published' = mine'[Panel]
                    /\ pc'[Panel] # "paths" => paths' = published'.items
  BY DEF OnePublisher
<1>0. polling = {Panel}
  BY PollingStays
<1> USE DistinctActors
<1> USE DEF OnlyPc, OnlyWorkerLock, payloadVars, listVars, Goes, Locks, Unlocks
<1>1. CASE ScanStep \/ UNCHANGED vars
  BY <1>0, <1>1 DEF OnePublisher, ScanStep, ScanWalks, ScanStores, ScanFinishes, vars
<1>2. CASE PanelStep \/ PanelLeaves \/ PanelEnters
  BY <1>0, <1>2 DEF OnePublisher, IInv, Typed, PanelStep, PanelLocks,
     PanelReadsPending, PanelReadsPublishing, PanelBegins, Begins,
     StartRefreshWorker, PanelPolls, PanelChecks, PanelEnumerates, PanelLeaves,
     PanelEnters
<1>3. CASE StoreStep \/ StoreTakes
  BY <1>0, <1>3 DEF OnePublisher, IInv, Typed, StoreStep, StoreTakes, StoreEnds,
     StoreLocks, StoreBegins, Begins, StartRefreshWorker
<1>4. CASE DrainRefreshForRestart \/ Launch
  BY <1>0, <1>4 DEF OnePublisher, IInv, Typed, DrainRefreshForRestart, StopThenLock,
     Launch
<1>5. ASSUME NEW t \in Threads, MenuPolls(t) \/ PublishStep(t)
      PROVE  /\ \A u \in Threads \ {Panel} : pc'[u] = "idle"
             /\ pc'[Panel] = "paths" => published' = mine'[Panel]
             /\ pc'[Panel] # "paths" => paths' = published'.items
  <2> USE DEF PublishStep, MenuPolls, PublishHint, PublishTakes, PublishMoves,
             PublishList, PublishPaths, PublishDone
  <2>1. t = Panel
    BY <1>0, <1>5 DEF OnePublisher
  <2>2. \A u \in Threads \ {Panel} : pc'[u] = pc[u]
    BY <1>5, <2>1 DEF IInv, Typed
  <2>3. pc'[Panel] = "paths" => published' = mine'[Panel]
    BY <1>0, <1>5, <2>1 DEF OnePublisher, IInv, Typed, Returns
  <2>4. pc'[Panel] # "paths" => paths' = published'.items
    BY <1>0, <1>5, <2>1 DEF OnePublisher, IInv, Typed, Returns, NewPaths
  <2> QED BY <1>0, <2>2, <2>3, <2>4 DEF OnePublisher
<1> QED
  BY <1>1, <1>2, <1>3, <1>4, <1>5 DEF Next

\* With one guest thread, the content manager's list and g_package_paths are the
\* same scan's whenever no publish stands between the two.
THEOREM ListsAgreeAlways == Spec => []ListsAgree
<1>1. OnePublisher => ListsAgree
  BY DEF OnePublisher, ListsAgree
<1> QED BY <1>1, PublisherInit, PublisherStep, InvAlways, PTL DEF Spec

-----------------------------------------------------------------------------
(* The panel's own scan.  From Begin on, the scan either runs, and then    *)
(* the panel is on its way to its poll, which lets nothing be published    *)
(* before running_ is clear; or it has stored its payload.  After that no  *)
(* older payload can be taken: it is pending, or in the panel's hands, or  *)
(* already the content manager's list.                                     *)

\* The panel is in a discovery pass and not inside a publish.
Pass == {"lock", "readPending", "readPublishing", "begin", "start", "poll", "checkRunning",
         "checkPending", "checkPublishing"}

\* A result of the pass's scan or a later one, or what a payload is once it was taken.
Fresh(result) == result.scan >= own \/ result = Moved

OwnIsUnderWay ==
  /\ begun = own /\ pc[Panel] \in {"start", "poll"}
  /\ Starting \/ scan.pc \in {"walk", "store"}

OwnHasLanded ==
  /\ Fresh(payload)
  /\ pc[Panel] = "list" => Fresh(mine[Panel])
  /\ pc[Panel] = "checkPublishing" => Fresh(published)
  /\ \/ scan.pc = "pend" /\ begun = own /\ pc[Panel] = "poll"
     \/ pending \/ pc[Panel] \in {"move", "list"} \/ Fresh(published)

PassIsWaited == pc[Panel] \in Pass => waiting

OwnScan == polling = {Panel} /\ waiting /\ own > 0 => OwnIsUnderWay \/ OwnHasLanded

LEMMA OwnInit == Init => PassIsWaited /\ OwnScan
BY DistinctActors DEF Init, PassIsWaited, OwnScan, Pass

LEMMA PassStep == IInv /\ OnePublisher /\ PassIsWaited /\ [Next]_vars => PassIsWaited'
<1> SUFFICES ASSUME IInv, PassIsWaited, [Next]_vars PROVE PassIsWaited'
  OBVIOUS
<1> USE DistinctActors
<1> USE DEF PassIsWaited, Pass, OnlyPc, OnlyWorkerLock, passVars, Goes, Locks, Unlocks, IInv, Typed
<1>1. CASE ScanStep \/ UNCHANGED vars
  BY <1>1 DEF ScanStep, ScanWalks, ScanStores, ScanFinishes, vars
<1>2. CASE PanelStep \/ PanelLeaves \/ PanelEnters
  BY <1>2 DEF PanelStep, PanelLocks, PanelReadsPending, PanelReadsPublishing, PanelBegins,
     Begins, StartRefreshWorker, PanelPolls, PanelChecks, PanelEnumerates, PanelLeaves,
     PanelEnters
<1>3. CASE StoreStep \/ StoreTakes
  BY <1>3 DEF StoreStep, StoreTakes, StoreEnds, StoreLocks, StoreBegins, Begins,
     StartRefreshWorker
<1>4. CASE DrainRefreshForRestart \/ Launch
  BY <1>4 DEF DrainRefreshForRestart, StopThenLock, Launch
<1>5. ASSUME NEW t \in Threads, MenuPolls(t) \/ PublishStep(t) PROVE PassIsWaited'
  BY <1>5 DEF PublishStep, MenuPolls, PublishHint, PublishTakes, PublishMoves, PublishList,
     PublishPaths, PublishDone, Returns
<1> QED BY <1>1, <1>2, <1>3, <1>4, <1>5 DEF Next

LEMMA OwnStep ==
  IInv /\ OnePublisher /\ PassIsWaited /\ OwnScan /\ [Next]_vars => OwnScan'
<1> SUFFICES ASSUME IInv, OnePublisher, PassIsWaited, OwnScan, [Next]_vars,
                    polling' = {Panel}, waiting', own' > 0
             PROVE  (OwnIsUnderWay \/ OwnHasLanded)'
  BY DEF OwnScan
<1>0. polling = {Panel}
  BY PollingStays
<1> USE DistinctActors
<1>1. /\ payload \in Results /\ published \in Results /\ mine[Panel] \in Results
      /\ begun \in Nat /\ own \in Nat /\ own <= begun /\ Moved \in Results
      /\ payload.scan \in Nat /\ published.scan \in Nat /\ mine[Panel].scan \in Nat
      /\ pc \in [Actors -> Pcs] /\ mine \in [Threads -> Results]
  <2>1. /\ payload \in Results /\ published \in Results /\ mine[Panel] \in Results
        /\ begun \in Nat /\ own \in Nat /\ own <= begun
        /\ pc \in [Actors -> Pcs] /\ mine \in [Threads -> Results]
    BY DEF IInv, Typed, Owed
  <2>2. Moved \in Results /\ \A r \in Results : r.scan \in Nat
    BY MaxAsksAssumption DEF Results, Moved
  <2> QED BY <2>1, <2>2
<1>2. ASSUME waiting' = waiting, own' = own PROVE OwnIsUnderWay \/ OwnHasLanded
  BY <1>0, <1>2 DEF OwnScan
<1>3. ScanIsAlone
  BY DEF IInv
<1>4. CASE ScanStep
  <2>1. /\ UNCHANGED <<pc, begun, own, waiting, published, mine>>
        /\ Starting' = Starting
    BY <1>4 DEF ScanStep, ScanWalks, ScanStores, ScanFinishes, payloadVars, listVars, passVars,
       Starting
  <2>2. CASE ScanWalks
    BY <1>2, <2>1, <2>2 DEF ScanWalks, OwnIsUnderWay, OwnHasLanded, Fresh, payloadVars, stateVars
  <2>3. CASE ScanStores
    <3>1. Fresh(payload') /\ scan'.pc = "pend" /\ scan.pc = "store" /\ pending' = pending
      BY <1>1, <2>1, <2>3 DEF ScanStores, Fresh, stateVars
    <3>2. ~Starting
      BY <3>1, <1>3 DEF ScanIsAlone
    <3> QED BY <1>2, <2>1, <3>1, <3>2 DEF OwnIsUnderWay, OwnHasLanded, Fresh, Starting
  <2>4. CASE ScanFinishes
    BY <1>1, <1>2, <1>3, <2>1, <2>4
       DEF ScanFinishes, SetPendingFirst, OwnIsUnderWay, OwnHasLanded, Fresh, payloadVars,
           ScanIsAlone, IInv, Typed
  <2> QED BY <1>4, <2>2, <2>3, <2>4 DEF ScanStep
<1>5. CASE PanelBegins
  <2>1. begun' = own' /\ running' /\ pc'[Panel] = "start"
    BY <1>1, <1>5 DEF PanelBegins, Begins, Goes
  <2> QED BY <2>1 DEF OwnIsUnderWay, Starting
<1>6. ASSUME NEW a \in {Panel, Store}, NEW to \in {"poll", "idle"}, StartRefreshWorker(a, to),
             a = Panel => to = "poll"
      PROVE  (OwnIsUnderWay \/ OwnHasLanded)'
  <2>1. /\ UNCHANGED <<begun, own, waiting, published, mine, payload, pending>>
        /\ scan' = [pc |-> "walk", found |-> {}] /\ scan.pc = "none"
        /\ pc[a] = "start" /\ pc' = [pc EXCEPT ![a] = to]
    BY <1>6 DEF StartRefreshWorker, payloadVars, listVars, passVars, stateVars, Unlocks, Goes
  <2>2. pc'[Panel] = pc[Panel] \/ (pc'[Panel] = "poll" /\ pc[Panel] = "start")
    BY <1>1, <1>6, <2>1
  <2> QED BY <1>2, <2>1, <2>2 DEF OwnIsUnderWay, OwnHasLanded, Fresh
<1>7. CASE \/ PanelLocks \/ PanelReadsPending \/ PanelReadsPublishing
           \/ PanelPolls \/ PanelChecks
  <2>1. UNCHANGED <<begun, own, waiting, published, mine, payload, pending, scan>>
    BY <1>7 DEF PanelLocks, PanelReadsPending, PanelReadsPublishing, PanelPolls, PanelChecks,
       OnlyPc, OnlyWorkerLock, payloadVars, listVars, passVars, stateVars
  <2>2. /\ pc[Panel] \in {"lock", "readPending", "readPublishing", "poll", "checkRunning",
                          "checkPending", "checkPublishing"}
        /\ pc[Panel] = "poll" => ~running
        /\ pc'[Panel] \in {"poll", "readPending", "readPublishing", "begin", "hint",
                           "checkPending", "checkPublishing"}
        /\ pc'[Panel] = "checkPublishing" => ~pending
    BY <1>1, <1>7 DEF PanelLocks, PanelReadsPending, PanelReadsPublishing, PanelPolls, PanelChecks,
       Goes, Locks, Unlocks
  <2>3. OwnHasLanded /\ ~(scan.pc = "pend" /\ pc[Panel] = "poll")
    BY <1>2, <1>3, <2>1, <2>2 DEF OwnIsUnderWay, ScanIsAlone
  <2> QED BY <2>1, <2>2, <2>3 DEF OwnHasLanded, Fresh
<1>8. CASE PanelEnumerates \/ PanelLeaves \/ PanelEnters
  BY <1>8 DEF PanelEnumerates, PanelLeaves, PanelEnters
<1>9. CASE StoreStep \/ StoreTakes
  <2>1. CASE StoreTakes \/ StoreEnds \/ StoreLocks
    <3>1. UNCHANGED <<begun, own, waiting, published, mine, payload, pending, scan>>
      BY <2>1 DEF StoreTakes, StoreEnds, StoreLocks, OnlyWorkerLock, payloadVars, listVars,
         passVars, stateVars
    <3>2. pc'[Panel] = pc[Panel] /\ Starting' = Starting
      BY <1>1, <2>1 DEF StoreTakes, StoreEnds, StoreLocks, Goes, Locks, Starting
    <3> QED BY <1>2, <3>1, <3>2 DEF OwnIsUnderWay, OwnHasLanded, Fresh
  <2>2. CASE StoreBegins
    <3>1. /\ UNCHANGED <<own, waiting, published, mine, payload, pending, scan>>
          /\ pc'[Panel] = pc[Panel]
          /\ begun' = begun \/ ~running
      BY <1>1, <2>2 DEF StoreBegins, Begins, BeginWins, Goes, Unlocks, payloadVars, listVars,
         passVars
    <3>2. Starting => Starting' \/ pc[Store] = "start"
      BY <1>1, <3>1 DEF Starting
    <3>3. pc[Store] # "start"
      BY <2>2 DEF StoreBegins, Begins, Goes, Unlocks
    <3> QED BY <1>2, <1>3, <3>1, <3>2, <3>3
            DEF OwnIsUnderWay, OwnHasLanded, Fresh, ScanIsAlone
  <2> QED BY <1>6, <1>9, <2>1, <2>2 DEF StoreStep
<1>10. CASE DrainRefreshForRestart \/ Launch
  <2>1. UNCHANGED <<begun, own, waiting, published, mine, payload, pending, scan>>
    BY <1>10 DEF DrainRefreshForRestart, Launch, OnlyPc, payloadVars, listVars, passVars, stateVars
  <2>2. pc'[Panel] = pc[Panel] /\ Starting' = Starting
    BY <1>1, <1>10 DEF DrainRefreshForRestart, StopThenLock, Launch, Goes, Locks, Unlocks, Starting
  <2> QED BY <1>2, <2>1, <2>2 DEF OwnIsUnderWay, OwnHasLanded, Fresh
<1>11. ASSUME NEW t \in Threads, MenuPolls(t) \/ PublishStep(t)
       PROVE  (OwnIsUnderWay \/ OwnHasLanded)'
  <2>1. t = Panel
    BY <1>0, <1>11 DEF OnePublisher, PublishStep, MenuPolls, PublishHint, PublishTakes,
       PublishMoves, PublishList, PublishPaths, PublishDone, Goes
  <2>2. UNCHANGED <<own, waiting, begun, scan>>
    BY <1>11 DEF PublishStep, MenuPolls, PublishHint, PublishTakes, PublishMoves, PublishList,
       PublishPaths, PublishDone, OnlyPc, passVars
  <2>3. PublishStep(Panel)
    BY <1>11, <2>1, <2>2 DEF MenuPolls
  <2>4. OwnHasLanded /\ pc[Panel] \notin {"start", "poll"}
    BY <1>2, <2>2, <2>3 DEF OwnIsUnderWay, PublishStep, PublishHint, PublishTakes, PublishMoves,
       PublishList, PublishPaths, PublishDone, Goes
  <2> USE DEF Goes, OwnHasLanded, Fresh
  <2>5. CASE PublishHint(Panel)
    BY <1>1, <2>2, <2>4, <2>5 DEF PublishHint, OnlyPc, Returns, payloadVars, listVars, stateVars
  <2>6. CASE PublishTakes(Panel)
    BY <1>1, <2>2, <2>4, <2>6 DEF PublishTakes, TakeWins, Returns, listVars
  <2>7. CASE PublishMoves(Panel)
    BY <1>1, <2>2, <2>4, <2>7 DEF PublishMoves, listVars
  <2>8. CASE PublishList(Panel)
    BY <1>1, <2>2, <2>4, <2>8 DEF PublishList, payloadVars, stateVars
  <2>9. CASE PublishPaths(Panel)
    BY <1>1, <2>2, <2>4, <2>9 DEF PublishPaths, payloadVars, stateVars
  <2>10. CASE PublishDone(Panel)
    BY <1>1, <2>2, <2>4, <2>10 DEF PublishDone, Returns, listVars
  <2> QED BY <2>3, <2>5, <2>6, <2>7, <2>8, <2>9, <2>10 DEF PublishStep
<1>12. CASE UNCHANGED vars
  BY <1>2, <1>12 DEF vars, OwnIsUnderWay, OwnHasLanded, Fresh, Starting, stateVars, payloadVars
<1> QED BY <1>4, <1>5, <1>6, <1>7, <1>8, <1>9, <1>10, <1>11, <1>12 DEF Next, PanelStep

\* With one guest thread, the list a pass enumerates is that of the scan the pass began or
\* of a later one, or the empty one of a payload that was already taken; never an older one,
\* however the store's scans and the polls fall between.
THEOREM EnumeratesOwnScanAlways == Spec => EnumeratesOwnScan
<1> DEFINE AllInv == IInv /\ OnePublisher /\ PassIsWaited /\ OwnScan
<1>1. Init => AllInv
  BY InitInv, PublisherInit, OwnInit
<1>2. AllInv /\ [Next]_vars => AllInv'
  BY InvStep, PublisherStep, PassStep, OwnStep
<1>3. AllInv /\ [Next]_vars
        => [polling = {Panel} /\ PanelEnumerates =>
              published.scan >= own \/ published = Moved]_vars
  <2> SUFFICES ASSUME AllInv, polling = {Panel}, PanelEnumerates
               PROVE  published.scan >= own \/ published = Moved
    OBVIOUS
  <2>1. pc[Panel] = "checkPublishing" /\ waiting
    BY DEF PanelEnumerates, Goes, PassIsWaited, Pass
  <2>2. CASE own > 0
    BY <2>1, <2>2 DEF OwnScan, OwnIsUnderWay, OwnHasLanded, Fresh
  <2>3. CASE ~(own > 0)
    BY <2>3 DEF IInv, Typed, Results
  <2> QED BY <2>2, <2>3
<1> QED BY <1>1, <1>2, <1>3, PTL DEF Spec, EnumeratesOwnScan
=============================================================================
