------------------------- MODULE StoreDownload_proofs -------------------------
(***************************************************************************)
(* Proofs about StoreDownload for every set of tokens and songs and every  *)
(* bound.  Inv is inductive; the properties of the runs are parts of it.   *)
(***************************************************************************)
EXTENDS StoreDownload, SequenceTheorems, TLAPS

\* The guest starts a thread only when the last one has ended.
SpawnAlone == guest.pc = "spawn" => worker.pc = "none"

\* A back-off is entered with a retry left.
DelayHasRetry == worker.pc = "delay" => worker.attempt < MaxRetries

\* `stopping` is set only inside the call that joins the worker, and
\* StopDownloads waits with an empty queue.
StopInCall ==
  /\ stopping => guest.pc \in {"stopJoin", "exitJoin", "exited"}
  /\ guest.pc = "stopJoin" => queue = <<>>

Inv == TypeOK /\ OneWorker /\ SpawnAlone /\ DelayHasRetry /\ StopInCall
              /\ QueueHasWorker

-----------------------------------------------------------------------------
\* What erasing a queue entry leaves behind.
LEMMA RemoveAtProps ==
  ASSUME NEW S, NEW q \in Seq(S), NEW i \in 1 .. Len(q)
  PROVE  /\ RemoveAt(q, i) \in Seq(S)
         /\ Len(RemoveAt(q, i)) = Len(q) - 1
         /\ \A j \in 1 .. Len(q) - 1 :
              RemoveAt(q, i)[j] = IF j < i THEN q[j] ELSE q[j + 1]
<1> DEFINE l == SubSeq(q, 1, i - 1)
           r == SubSeq(q, i + 1, Len(q))
<1>0. Len(q) \in Nat /\ \A j \in 1 .. Len(q) : q[j] \in S
  BY ElementOfSeq, LenProperties
<1>1. /\ l \in Seq(S) /\ Len(l) = i - 1
      /\ \A j \in 1 .. i - 1 : l[j] = q[j]
  <2>1. \A j \in 1 .. i - 1 : q[j] \in S
    BY <1>0
  <2>2. /\ l \in Seq(S)
        /\ Len(l) = IF 1 <= i - 1 THEN (i - 1) - 1 + 1 ELSE 0
        /\ \A j \in 1 .. (i - 1) - 1 + 1 : l[j] = q[1 + j - 1]
    BY <2>1, <1>0, SubSeqProperties
  <2> QED BY <2>2, <1>0
<1>2. /\ r \in Seq(S) /\ Len(r) = Len(q) - i
      /\ \A j \in 1 .. Len(q) - i : r[j] = q[i + j]
  <2>1. \A j \in i + 1 .. Len(q) : q[j] \in S
    BY <1>0
  <2>2. /\ r \in Seq(S)
        /\ Len(r) = IF i + 1 <= Len(q) THEN Len(q) - (i + 1) + 1 ELSE 0
        /\ \A j \in 1 .. Len(q) - (i + 1) + 1 : r[j] = q[(i + 1) + j - 1]
    BY <2>1, <1>0, SubSeqProperties
  <2> QED BY <2>2, <1>0
<1>3. /\ l \o r \in Seq(S)
      /\ Len(l \o r) = Len(l) + Len(r)
      /\ \A j \in 1 .. Len(l) + Len(r) :
           (l \o r)[j] = IF j <= Len(l) THEN l[j] ELSE r[j - Len(l)]
  BY <1>1, <1>2, ConcatProperties
<1>4. RemoveAt(q, i) = l \o r
  BY DEF RemoveAt
<1> HIDE DEF l, r
<1>5. ASSUME NEW j \in 1 .. Len(q) - 1
      PROVE  (l \o r)[j] = IF j < i THEN q[j] ELSE q[j + 1]
  <2>1. CASE j < i
    BY <2>1, <1>0, <1>1, <1>2, <1>3
  <2>2. CASE ~(j < i)
    <3>1. j - Len(l) \in 1 .. Len(q) - i
      BY <2>2, <1>0, <1>1
    <3>2. (l \o r)[j] = r[j - Len(l)]
      BY <2>2, <1>0, <1>1, <1>2, <1>3
    <3>3. i + (j - Len(l)) = j + 1
      BY <1>0, <1>1
    <3> QED BY <3>1, <3>2, <3>3, <1>2, <2>2
  <2> QED BY <2>1, <2>2
<1>6. Len(l \o r) = Len(q) - 1
  BY <1>0, <1>1, <1>2, <1>3
<1> QED BY ONLY <1>3, <1>4, <1>5, <1>6

-----------------------------------------------------------------------------
\* What the three small assignments the actions share do to the types.
LEMMA SetJobType ==
  ASSUME TypeOK, NEW t \in Tokens, NEW state \in JobStates, SetJob(t, state)
  PROVE  jobs' \in [Tokens -> JobStates]
BY DEF TypeOK, SetJob

LEMMA GuestGoesType ==
  ASSUME NEW pc \in GuestPcs, NEW t \in Tokens \cup {NoToken}, GuestGoes(pc, t)
  PROVE  guest' \in GuestRecords /\ guest'.pc = pc
BY DEF GuestGoes, GuestRecords

LEMMA WorkerGoesType ==
  ASSUME TypeOK, NEW pc \in WorkerPcs, WorkerGoes(pc)
  PROVE  worker' \in WorkerRecords /\ worker'.pc = pc
BY DEF TypeOK, WorkerGoes, WorkerRecords

\* A running job's token is a token, and it is for a song.
LEMMA BusyToken ==
  ASSUME OneWorker, WorkerBusy
  PROVE  worker.token \in Tokens /\ SongOf[worker.token] \in Songs
BY SongsAssumption DEF OneWorker

-----------------------------------------------------------------------------
\* The initial states satisfy the invariant.
LEMMA InitInv == Init => Inv
<1> SUFFICES ASSUME Init PROVE Inv
  OBVIOUS
<1>1. TypeOK
  <2>1. queue \in Seq(Tokens)
    BY EmptySeq DEF Init
  <2>2. worker \in WorkerRecords
    BY BoundsAssumption DEF Init, WorkerRecords, WorkerPcs
  <2>3. guest \in GuestRecords
    BY DEF Init, GuestRecords, GuestPcs
  <2> QED BY <2>1, <2>2, <2>3 DEF Init, TypeOK, JobStates
<1>2. OneWorker /\ SpawnAlone /\ DelayHasRetry /\ StopInCall /\ QueueHasWorker
  BY TokensAssumption
     DEF Init, OneWorker, WorkerBusy, SpawnAlone, DelayHasRetry, StopInCall,
         QueueHasWorker
<1> QED BY <1>1, <1>2 DEF Inv

-----------------------------------------------------------------------------
\* The guest's steps keep the types.
LEMMA GuestTypeStep ==
  ASSUME TypeOK, GuestCall \/ GuestStep PROVE TypeOK'
<1> USE DEF offerVars, jobVars, queueVars, warnVars, activeVars, flagVars, diskVars
<1>j. {"Unknown", "Queued", "Failed", "Cancelled"} \subseteq JobStates
  BY DEF JobStates
<1>g. {"idle", "ensure", "spawn", "raise", "stopJoin", "exitLock", "exitJoin",
       "exited"} \subseteq GuestPcs
  BY DEF GuestPcs
<1>a. \A t \in Tokens : Append(queue, t) \in Seq(Tokens)
  BY DEF TypeOK
<1>1. ASSUME NEW t \in Tokens, NEW again \in BOOLEAN, Enqueue(t, again)
      PROVE  TypeOK'
  <2>1. UNCHANGED <<offerVars, installed, deletions, warnVars, activeVars,
                    flagVars, workerRunning, enabled, diskVars, worker>>
    BY <1>1 DEF Enqueue
  <2>2. jobs' \in [Tokens -> JobStates]
    BY <1>1, <1>j, SetJobType DEF Enqueue
  <2>3. queue' \in Seq(Tokens) /\ guest' \in GuestRecords
    BY <1>1, <1>a, <1>g, GuestGoesType DEF Enqueue, TypeOK
  <2> QED BY <2>1, <2>2, <2>3 DEF TypeOK
<1>2. ASSUME NEW t \in Tokens, DeleteNow(t) PROVE TypeOK'
  <2>1. jobs' \in [Tokens -> JobStates] /\ guest' \in GuestRecords
    BY <1>2, <1>j, <1>g, SetJobType, GuestGoesType DEF DeleteNow
  <2> QED BY <1>2, <1>a, <2>1 DEF DeleteNow, TypeOK
<1>3. ASSUME NEW t \in Tokens, DeleteBusy(t) PROVE TypeOK'
  <2>1. jobs' \in [Tokens -> JobStates]
    BY <1>3, <1>j, SetJobType DEF DeleteBusy, TypeOK
  <2>2. queue' \in Seq(Tokens) /\ deletions' \subseteq Tokens
    BY <1>3, <1>a DEF DeleteBusy, TypeOK
  <2>3. UNCHANGED <<offerVars, installed, warnVars, activeVars, flagVars,
                    workerRunning, enabled, diskVars, worker, guest>>
    BY <1>3 DEF DeleteBusy
  <2> QED BY <2>1, <2>2, <2>3 DEF TypeOK
<1>4. ASSUME NEW t \in Tokens, DeleteRefused(t) PROVE TypeOK'
  <2>1. jobs' \in [Tokens -> JobStates]
    BY <1>4, <1>j, SetJobType DEF DeleteRefused
  <2> QED BY <1>4, <2>1 DEF DeleteRefused, TypeOK
<1>5. ASSUME NEW t \in Tokens, Cancel(t) PROVE TypeOK'
  <2>1. CASE active = t
    <3>1. guest' \in GuestRecords
      BY <1>5, <2>1, <1>g, GuestGoesType DEF Cancel
    <3> QED BY <1>5, <2>1, <3>1 DEF Cancel, TypeOK
  <2>2. CASE active # t
    <3>1. PICK i \in 1 .. Len(queue) : queue' = RemoveAt(queue, i)
      BY <1>5, <2>2 DEF Cancel, EraseQueued
    <3>2. queue' \in Seq(Tokens)
      BY <3>1, RemoveAtProps DEF TypeOK
    <3>3. jobs' \in [Tokens -> JobStates]
      BY <1>5, <2>2, <1>j, SetJobType DEF Cancel
    <3> QED BY <1>5, <2>2, <3>2, <3>3 DEF Cancel, DropMark, TypeOK
  <2> QED BY <2>1, <2>2
<1>6. ASSUME DismissWarning \/ ClearStoreRefreshWarning PROVE TypeOK'
  BY <1>6 DEF DismissWarning, ClearStoreRefreshWarning, TypeOK
<1>7. ASSUME StopDownloads PROVE TypeOK'
  <2>1. guest' \in GuestRecords /\ <<>> \in Seq(Tokens)
    BY <1>7, <1>g, GuestGoesType, EmptySeq DEF StopDownloads
  <2> QED BY <1>7, <2>1 DEF StopDownloads, TypeOK
<1>8. ASSUME ExitRaise \/ GuestRaise \/ ExitLock \/ ExitJoined PROVE TypeOK'
  <2>1. guest' \in GuestRecords
    BY <1>8, <1>g, GuestGoesType DEF ExitRaise, GuestRaise, ExitLock, ExitJoined
  <2> QED BY <1>8, <2>1 DEF ExitRaise, GuestRaise, ExitLock, ExitJoined, TypeOK
<1>9. ASSUME EnsureWorker PROVE TypeOK'
  <2>1. guest' \in GuestRecords
    BY <1>9, <1>g, GuestGoesType DEF EnsureWorker
  <2> QED BY <1>9, <2>1 DEF EnsureWorker, TypeOK
<1>10. ASSUME SpawnWorker PROVE TypeOK'
  <2>1. guest' \in GuestRecords /\ worker' \in WorkerRecords
    BY <1>10, <1>g, GuestGoesType, WorkerGoesType DEF SpawnWorker, WorkerPcs
  <2> QED BY <1>10, <2>1 DEF SpawnWorker, TypeOK
<1>11. ASSUME StopJoined PROVE TypeOK'
  <2>1. guest' \in GuestRecords
    BY <1>11, <1>g, GuestGoesType DEF StopJoined
  <2> QED BY <1>11, <2>1 DEF StopJoined, TypeOK
<1> QED BY <1>1, <1>2, <1>3, <1>4, <1>5, <1>6, <1>7, <1>8, <1>9, <1>10, <1>11
           DEF GuestCall, GuestStep

\* The worker's steps keep the types.
LEMMA WorkerTypeStep ==
  ASSUME TypeOK, OneWorker, DelayHasRetry, WorkerStep PROVE TypeOK'
<1> USE DEF offerVars, jobVars, queueVars, warnVars, activeVars, flagVars, diskVars
<1>j. {"Unknown", "Downloading", "Installed", "Failed", "Cancelled", "Deleted"}
         \subseteq JobStates
  BY DEF JobStates
<1>p. {"none", "loop", "job", "attempt", "transfer", "delay", "commit", "publish",
       "finish", "delete", "paths", "forget", "deleted", "clear"}
         = WorkerPcs
  BY DEF WorkerPcs
<1>b. worker.pc \notin {"none", "loop"} =>
        worker.token \in Tokens /\ SongOf[worker.token] \in Songs
  BY BusyToken DEF WorkerBusy
<1>0. 0 \in 0 .. MaxRetries
  BY BoundsAssumption
<1>e. ASSUME NEW state \in JobStates, worker.pc \notin {"none", "loop"},
             WorkerEnds(state)
      PROVE  jobs' \in [Tokens -> JobStates] /\ worker' \in WorkerRecords
  BY <1>e, <1>b, <1>p, SetJobType, WorkerGoesType DEF WorkerEnds
<1>1. ASSUME WorkerExits PROVE TypeOK'
  <2>1. worker' \in WorkerRecords
    BY <1>1, <1>p, WorkerGoesType DEF WorkerExits
  <2> QED BY <1>1, <2>1 DEF WorkerExits, TypeOK
<1>2. ASSUME WorkerClears PROVE TypeOK'
  <2>1. worker' \in WorkerRecords
    <3>1. worker' = [pc |-> "loop", token |-> NoToken, attempt |-> 0,
                     paths |-> worker.paths, path |-> NoPath]
      BY <1>2 DEF WorkerClears, WorkerRecords, TypeOK
    <3>2. worker.paths \in SUBSET Paths
      BY DEF WorkerRecords, TypeOK
    <3> QED BY <3>1, <3>2, <1>p, <1>0 DEF WorkerRecords
  <2> QED BY <1>2, <2>1 DEF WorkerClears, TypeOK
<1>3. ASSUME WorkerTakes PROVE TypeOK'
  <2>1. queue # <<>> /\ queue \in Seq(Tokens)
    BY <1>3 DEF WorkerTakes, NothingToDo, TypeOK
  <2>2. Head(queue) \in Tokens /\ Tail(queue) \in Seq(Tokens)
    BY <2>1, HeadTailProperties
  <2>3. worker' \in WorkerRecords
    BY <1>3, <2>2, <1>p DEF WorkerTakes, WorkerRecords, TypeOK
  <2>4. jobs' \in [Tokens -> JobStates]
    BY <1>3, <2>2, <1>j, SetJobType DEF WorkerTakes
  <2>5. activeDel' \in BOOLEAN
    <3>1. activeDel' = (Head(queue) \in deletions)
      BY <1>3 DEF WorkerTakes
    <3>2. CASE Head(queue) \in deletions
      BY <3>1, <3>2
    <3>3. CASE Head(queue) \notin deletions
      BY <3>1, <3>3
    <3> QED BY <3>2, <3>3
  <2>6. /\ queue' = Tail(queue) /\ active' = Head(queue)
        /\ deletions' \subseteq deletions /\ cancel' = FALSE
        /\ UNCHANGED <<offers, installed, removed, dismissed, stopping,
                      workerRunning, enabled, library, guest>>
    BY <1>3 DEF WorkerTakes
  <2> QED BY <2>2, <2>3, <2>4, <2>5, <2>6 DEF TypeOK
<1>4. ASSUME JobStart PROVE TypeOK'
  <2>1. CASE WorkerEnds("Failed")
    BY <1>4, <2>1, <1>e, <1>j DEF JobStart, TypeOK
  <2>2. CASE ~WorkerEnds("Failed")
    <3>1. worker' \in WorkerRecords /\ UNCHANGED jobs
      BY <1>4, <2>2, <1>p, <1>0 DEF JobStart, WorkerRecords, TypeOK
    <3> QED BY <1>4, <3>1 DEF JobStart, TypeOK
  <2> QED BY <2>1, <2>2
<1>5. ASSUME JobAttempt PROVE TypeOK'
  <2>1. jobs' \in [Tokens -> JobStates] /\ worker' \in WorkerRecords
    BY <1>5, <1>e, <1>j, <1>p, WorkerGoesType DEF JobAttempt, TypeOK
  <2> QED BY <1>5, <2>1 DEF JobAttempt, TypeOK
<1>6. ASSUME TransferDone \/ FinishInstall PROVE TypeOK'
  <2>1. worker' \in WorkerRecords
    BY <1>6, <1>p, WorkerGoesType DEF TransferDone, FinishInstall
  <2> QED BY <1>6, <2>1 DEF TransferDone, FinishInstall, TypeOK
<1>7. ASSUME TransferStopped \/ TransferFails PROVE TypeOK'
  <2>1. jobs' \in [Tokens -> JobStates] /\ worker' \in WorkerRecords
    BY <1>7, <1>e, <1>j DEF TransferStopped, TransferFails
  <2> QED BY <1>7, <2>1 DEF TransferStopped, TransferFails, TypeOK
<1>8. ASSUME TransferRetries PROVE TypeOK'
  <2>1. worker' \in WorkerRecords
    BY <1>8, <1>p, WorkerGoesType DEF TransferRetries
  <2> QED BY <1>8, <2>1 DEF TransferRetries, TypeOK
<1>9. ASSUME RetryDelay PROVE TypeOK'
  <2>1. worker.attempt + 1 \in 0 .. MaxRetries
    BY <1>9, BoundsAssumption DEF RetryDelay, DelayHasRetry, TypeOK, WorkerRecords
  <2>2. CASE WorkerEnds("Cancelled")
    BY <1>9, <2>2, <1>e, <1>j DEF RetryDelay, TypeOK
  <2>3. CASE ~WorkerEnds("Cancelled")
    <3>1. worker' \in WorkerRecords /\ UNCHANGED jobs
      BY <1>9, <2>1, <2>3, <1>p
         DEF RetryDelay, NextAttempt, WorkerRecords, TypeOK
    <3> QED BY <1>9, <3>1 DEF RetryDelay, TypeOK
  <2> QED BY <2>2, <2>3
<1>10. ASSUME CommitInstall PROVE TypeOK'
  <2>1. \A n \in FirstFree(SongOf[worker.token]) :
          <<SongOf[worker.token], n>> \in Paths
    BY <1>10, <1>b DEF CommitInstall, FirstFree, FreeCopies, Paths
  <2>2. CASE WorkerEnds("Failed") /\ UNCHANGED library
    BY <1>10, <2>2, <1>e, <1>j DEF CommitInstall, TypeOK
  <2>3. CASE ~(WorkerEnds("Failed") /\ UNCHANGED library)
    <3>1. PICK n \in FirstFree(SongOf[worker.token]) :
            /\ library' = library \cup {<<SongOf[worker.token], n>>}
            /\ worker' = [worker EXCEPT !.pc = "publish",
                                        !.path = <<SongOf[worker.token], n>>]
            /\ UNCHANGED jobs
      BY <1>10, <2>3 DEF CommitInstall
    <3>2. worker' \in WorkerRecords /\ library' \subseteq Paths
      BY <3>1, <2>1, <1>p DEF WorkerRecords, TypeOK
    <3> QED BY <1>10, <3>1, <3>2 DEF CommitInstall, TypeOK
  <2> QED BY <2>2, <2>3
<1>11. ASSUME PublishInstall PROVE TypeOK'
  <2>1. worker' \in WorkerRecords
    BY <1>11, <1>p, WorkerGoesType DEF PublishInstall
  <2>2. jobs' \in [Tokens -> JobStates]
    BY <1>11, <1>b, <1>j, SetJobType DEF PublishInstall
  <2>3. installed' \in [Tokens -> Paths \cup {NoPath}]
    BY <1>11 DEF PublishInstall, TypeOK, WorkerRecords
  <2> QED BY <1>11, <2>1, <2>2, <2>3 DEF PublishInstall, TypeOK
<1>12. ASSUME DeleteStart PROVE TypeOK'
  <2>1. PICK found \in IndexedPackages(SongOf[worker.token]) :
          LET paths == found \cup OwnPackage(worker.token) IN
          IF paths = {}
          THEN WorkerEnds("Failed")
          ELSE /\ worker' = [worker EXCEPT !.pc = "paths", !.paths = paths]
               /\ UNCHANGED jobs
    BY <1>12 DEF DeleteStart
  <2>2. found \cup OwnPackage(worker.token) \in SUBSET Paths
    BY <1>12, <1>b DEF DeleteStart, IndexedPackages, OwnPackage, TypeOK
  <2>3. CASE found \cup OwnPackage(worker.token) = {}
    BY <1>12, <2>1, <2>3, <1>e, <1>j DEF DeleteStart, TypeOK
  <2>4. CASE found \cup OwnPackage(worker.token) # {}
    <3>1. worker' \in WorkerRecords /\ UNCHANGED jobs
      BY <2>1, <2>2, <2>4, <1>p DEF WorkerRecords, TypeOK
    <3> QED BY <1>12, <3>1 DEF DeleteStart, TypeOK
  <2> QED BY <2>3, <2>4
<1>13. ASSUME DeletePackage PROVE TypeOK'
  <2>1. PICK p \in worker.paths :
          /\ library' = library \ {p}
          /\ worker' = [worker EXCEPT !.pc = "forget", !.path = p,
                                      !.paths = worker.paths \ {p}]
    BY <1>13 DEF DeletePackage
  <2>2. worker' \in WorkerRecords
    BY <2>1, <1>p DEF WorkerRecords, TypeOK
  <2> QED BY <1>13, <2>1, <2>2 DEF DeletePackage, TypeOK
<1>14. ASSUME DeleteFails PROVE TypeOK'
  <2>1. worker' \in WorkerRecords
    BY <1>14, <1>p DEF DeleteFails, WorkerRecords, TypeOK
  <2>2. jobs' \in [Tokens -> JobStates]
    BY <1>14, <1>b, <1>j, SetJobType DEF DeleteFails
  <2>3. removed' \subseteq Songs /\ dismissed' \in BOOLEAN
    BY <1>14, <1>b DEF DeleteFails, TypeOK
  <2> QED BY <1>14, <2>1, <2>2, <2>3 DEF DeleteFails, TypeOK
<1>15. ASSUME DeleteForget PROVE TypeOK'
  <2>1. worker' \in WorkerRecords
    BY <1>15, <1>p DEF DeleteForget, WorkerRecords, TypeOK
  <2>2. jobs' \in [Tokens -> JobStates]
    BY <1>15, <1>j DEF DeleteForget, TypeOK
  <2>3. installed' \in [Tokens -> Paths \cup {NoPath}]
    BY <1>15 DEF DeleteForget, TypeOK
  <2>4. removed' \subseteq Songs
    BY <1>15, <1>b DEF DeleteForget, TypeOK
  <2> QED BY <1>15, <2>1, <2>2, <2>3, <2>4 DEF DeleteForget, TypeOK
<1>16. ASSUME DeleteDone PROVE TypeOK'
  BY <1>16, <1>e, <1>j DEF DeleteDone, TypeOK
<1> QED BY <1>1, <1>2, <1>3, <1>4, <1>5, <1>6, <1>7, <1>8, <1>9, <1>10, <1>11,
           <1>12, <1>13, <1>14, <1>15, <1>16 DEF WorkerStep

\* Every step keeps the types.
LEMMA TypeStep == Inv /\ [Next]_vars => TypeOK'
<1> SUFFICES ASSUME Inv, [Next]_vars PROVE TypeOK'
  OBVIOUS
<1>1. CASE GuestCall \/ GuestStep
  BY <1>1, GuestTypeStep DEF Inv
<1>2. CASE WorkerStep
  BY <1>2, WorkerTypeStep DEF Inv
<1>3. ASSUME NEW t \in Tokens, RegisterOffer(t) PROVE TypeOK'
  BY <1>3 DEF RegisterOffer, Inv, TypeOK, jobVars, queueVars, warnVars,
              activeVars, flagVars, diskVars
<1>4. CASE Terminated \/ UNCHANGED vars
  BY <1>4 DEF Terminated, vars, Inv, TypeOK, offerVars, jobVars,
              queueVars, warnVars, activeVars, flagVars, diskVars
<1> QED BY <1>1, <1>2, <1>3, <1>4 DEF Next

-----------------------------------------------------------------------------
\* Every step keeps the guest's and the worker's agreement about the thread.
LEMMA WorkerStepInv ==
  ASSUME Inv, Next
  PROVE  OneWorker' /\ SpawnAlone' /\ DelayHasRetry' /\ StopInCall'
<1> USE DEF Inv, OneWorker, SpawnAlone, DelayHasRetry, StopInCall, WorkerBusy,
            offerVars, jobVars, queueVars, warnVars, activeVars, flagVars,
            diskVars
<1>r. worker \in WorkerRecords /\ guest \in GuestRecords
      /\ active \in Tokens \cup {NoToken} /\ NoToken \notin Tokens
  BY TokensAssumption DEF TypeOK
<1>1. ASSUME NEW t \in Tokens,
             \/ \E again \in BOOLEAN : Enqueue(t, again)
             \/ DeleteNow(t) \/ DeleteBusy(t) \/ DeleteRefused(t) \/ Cancel(t)
      PROVE  OneWorker' /\ SpawnAlone' /\ DelayHasRetry' /\ StopInCall'
  <2>1. /\ UNCHANGED <<worker, active, workerRunning, stopping>>
        /\ guest.pc = "idle"
        /\ guest'.pc \in {"idle", "ensure", "raise"}
    BY <1>1 DEF Enqueue, DeleteNow, DeleteBusy, DeleteRefused, Cancel, GuestGoes
  <2> QED BY <2>1
<1>2. ASSUME DismissWarning \/ ClearStoreRefreshWarning
      PROVE  OneWorker' /\ SpawnAlone' /\ DelayHasRetry' /\ StopInCall'
  BY <1>2 DEF DismissWarning, ClearStoreRefreshWarning
<1>3. ASSUME StopDownloads \/ ExitRaise
      PROVE  OneWorker' /\ SpawnAlone' /\ DelayHasRetry' /\ StopInCall'
  BY <1>3 DEF StopDownloads, ExitRaise, GuestGoes
<1>4. ASSUME GuestStep
      PROVE  OneWorker' /\ SpawnAlone' /\ DelayHasRetry' /\ StopInCall'
  <2>1. CASE GuestRaise \/ ExitLock \/ ExitJoined
    BY <1>r, <2>1 DEF GuestRaise, ExitLock, ExitJoined, GuestGoes
  <2>2. CASE EnsureWorker
    BY <1>r, <2>2 DEF EnsureWorker, GuestGoes
  <2>3. CASE SpawnWorker
    <3>1. worker'.pc = "loop" /\ guest'.pc = "idle"
      BY <2>3, WorkerGoesType, GuestGoesType DEF SpawnWorker, WorkerPcs, GuestPcs
    <3> QED BY <1>r, <2>3, <3>1 DEF SpawnWorker, WorkerJoined
  <2>4. CASE StopJoined
    BY <1>r, <2>4 DEF StopJoined, WorkerJoined, GuestGoes
  <2> QED BY <1>4, <2>1, <2>2, <2>3, <2>4 DEF GuestStep
<1>5. ASSUME NEW t \in Tokens, RegisterOffer(t)
      PROVE  OneWorker' /\ SpawnAlone' /\ DelayHasRetry' /\ StopInCall'
  <2>1. UNCHANGED <<queue, active, workerRunning, stopping, worker, guest>>
    BY <1>5 DEF RegisterOffer
  <2> QED BY <2>1
<1>6. ASSUME Terminated
      PROVE  OneWorker' /\ SpawnAlone' /\ DelayHasRetry' /\ StopInCall'
  <2>1. UNCHANGED <<queue, active, workerRunning, stopping, worker, guest>>
    BY <1>6 DEF Terminated, vars
  <2> QED BY <2>1
<1>7. ASSUME WorkerStep
      PROVE  OneWorker' /\ SpawnAlone' /\ DelayHasRetry' /\ StopInCall'
  <2>1. CASE WorkerExits
    <3>1. worker' = [worker EXCEPT !.pc = "none"] /\ worker'.pc = "none"
      BY <1>r, <2>1 DEF WorkerExits, WorkerGoes, WorkerRecords
    <3> QED BY <1>r, <2>1, <3>1 DEF WorkerExits
  <2>2. CASE WorkerTakes
    <3>1. queue # <<>> /\ ~stopping /\ worker.pc = "loop"
      BY <2>2 DEF WorkerTakes, NothingToDo
    <3>2. Head(queue) \in Tokens
      BY <3>1, HeadTailProperties DEF TypeOK
    <3>3. worker'.pc \in {"delete", "job"} /\ worker'.token = Head(queue)
      BY <1>r, <2>2 DEF WorkerTakes, WorkerRecords
    <3>4. active' = Head(queue) /\ UNCHANGED <<stopping, workerRunning, guest>>
      BY <2>2 DEF WorkerTakes
    <3>5. guest.pc # "stopJoin"
      BY <3>1
    <3> QED BY <3>1, <3>2, <3>3, <3>4, <3>5
  <2>3. CASE WorkerClears
    <3>1. worker'.pc = "loop"
      BY <1>r, <2>3 DEF WorkerClears, WorkerRecords
    <3> QED BY <1>r, <2>3, <3>1 DEF WorkerClears
  <2>4. CASE WorkerStep /\ ~WorkerExits /\ ~WorkerTakes /\ ~WorkerClears
    <3>1. /\ UNCHANGED <<queue, active, workerRunning, stopping, guest>>
          /\ worker.pc \notin {"none", "loop"}
          /\ worker'.pc \notin {"none", "loop"}
          /\ worker'.token = worker.token
      BY <1>r, <2>4
         DEF WorkerStep, JobStart, JobAttempt, TransferDone, TransferStopped,
             TransferRetries, TransferFails, RetryDelay, CommitInstall,
             PublishInstall, FinishInstall, DeleteStart, DeletePackage,
             DeleteFails, DeleteForget, DeleteDone, WorkerEnds, WorkerGoes,
             WorkerRecords
    <3>2. worker'.pc = "delay" => worker'.attempt < MaxRetries
      BY <1>r, <2>4
         DEF WorkerStep, JobStart, JobAttempt, TransferDone, TransferStopped,
             TransferRetries, TransferFails, RetryDelay, CommitInstall,
             PublishInstall, FinishInstall, DeleteStart, DeletePackage,
             DeleteFails, DeleteForget, DeleteDone, WorkerEnds, WorkerGoes,
             WorkerRecords, RetriesLeft
    <3> QED BY <3>1, <3>2
  <2> QED BY <1>7, <2>1, <2>2, <2>3, <2>4
<1> QED BY <1>1, <1>2, <1>3, <1>4, <1>5, <1>6, <1>7 DEF Next, GuestCall

\* Every step keeps a worker for what waits.
LEMMA QueueStep ==
  ASSUME Inv, Next PROVE QueueHasWorker'
<1> USE DEF Inv, OneWorker, SpawnAlone, StopInCall, QueueHasWorker,
            offerVars, jobVars, queueVars, warnVars, activeVars, flagVars,
            diskVars
<1>r. guest \in GuestRecords /\ worker \in WorkerRecords
  BY DEF TypeOK
<1>1. ASSUME NEW t \in Tokens, Cancel(t) PROVE QueueHasWorker'
  <2>1. CASE active = t
    BY <1>1, <2>1, <1>r DEF Cancel, GuestGoes, GuestRecords
  <2>2. CASE active # t
    <3>1. queue # <<>> /\ UNCHANGED <<workerRunning, guest>>
      <4>1. PICK i \in 1 .. Len(queue) : queue[i] = t
        BY <1>1, <2>2 DEF Cancel, EraseQueued
      <4>2. Len(queue) # 0
        BY <4>1, LenProperties DEF TypeOK
      <4> QED BY <1>1, <2>2, <4>2, EmptySeq DEF Cancel
    <3> QED BY <3>1
  <2> QED BY <2>1, <2>2
<1>2. ASSUME NEW t \in Tokens,
             \/ \E again \in BOOLEAN : Enqueue(t, again)
             \/ DeleteNow(t) \/ DeleteRefused(t)
      PROVE  QueueHasWorker'
  BY <1>2, <1>r DEF Enqueue, DeleteNow, DeleteRefused, GuestGoes
<1>3. ASSUME NEW t \in Tokens, DeleteBusy(t) PROVE QueueHasWorker'
  <2>1. workerRunning
    BY <1>3 DEF DeleteBusy
  <2> QED BY <1>3, <2>1 DEF DeleteBusy
<1>4. ASSUME DismissWarning \/ ClearStoreRefreshWarning \/ StopDownloads
             \/ ExitRaise
      PROVE  QueueHasWorker'
  BY <1>4, <1>r DEF DismissWarning, ClearStoreRefreshWarning, StopDownloads,
                    ExitRaise, GuestGoes
<1>5. ASSUME GuestStep PROVE QueueHasWorker'
  BY <1>5, <1>r DEF GuestStep, GuestRaise, EnsureWorker, SpawnWorker, StopJoined,
                    ExitLock, ExitJoined, GuestGoes
<1>6. ASSUME WorkerExits PROVE QueueHasWorker'
  BY <1>6, <1>r DEF WorkerExits, NothingToDo
<1>7. ASSUME WorkerTakes PROVE QueueHasWorker'
  BY <1>7, <1>r DEF WorkerTakes
<1>8. ASSUME WorkerStep, ~WorkerExits, ~WorkerTakes PROVE QueueHasWorker'
  <2>1. UNCHANGED <<queue, workerRunning, guest>>
    BY <1>8
       DEF WorkerStep, JobStart, JobAttempt, TransferDone, TransferStopped,
           TransferRetries, TransferFails, RetryDelay, CommitInstall,
           PublishInstall, FinishInstall, DeleteStart, DeletePackage,
           DeleteFails, DeleteForget, DeleteDone, WorkerClears
  <2> QED BY <2>1
<1>9. ASSUME NEW t \in Tokens, RegisterOffer(t) PROVE QueueHasWorker'
  BY <1>9 DEF RegisterOffer
<1>10. ASSUME Terminated PROVE QueueHasWorker'
  BY <1>10 DEF Terminated, vars
<1> QED BY <1>1, <1>2, <1>3, <1>4, <1>5, <1>6, <1>7, <1>8, <1>9, <1>10
           DEF Next, GuestCall

-----------------------------------------------------------------------------
\* Inv is an inductive invariant of the specification.
LEMMA InvStep == Inv /\ [Next]_vars => Inv'
<1> SUFFICES ASSUME Inv, [Next]_vars PROVE Inv'
  OBVIOUS
<1>1. CASE Next
  BY <1>1, TypeStep, WorkerStepInv, QueueStep DEF Inv
<1>2. CASE UNCHANGED vars
  BY <1>2 DEF Inv, TypeOK, OneWorker, WorkerBusy, SpawnAlone, DelayHasRetry,
              StopInCall, QueueHasWorker, vars, offerVars, jobVars, queueVars,
              warnVars, activeVars, flagVars, diskVars
<1> QED BY <1>1, <1>2

LEMMA InvAlways == Spec => []Inv
BY InitInv, InvStep, PTL DEF Spec

\* In every execution the variables keep their types: in particular the attempt
\* counter of RunJob stays within the retry policy.
THEOREM TypeCorrect == Spec => []TypeOK
BY InvAlways, PTL DEF Inv

\* One worker thread, one active job, and worker_running agrees with it
\* (EnsureWorker, WorkerLoop and StopDownloads), whatever the interleaving.
THEOREM OneWorkerAlways == Spec => []OneWorker
BY InvAlways, PTL DEF Inv

\* No queued job is left without a worker (Enqueue, HandleDownloadWrite's
\* deletion, EnsureWorker against WorkerLoop's exit).
THEOREM QueueHasWorkerAlways == Spec => []QueueHasWorker
BY InvAlways, PTL DEF Inv

-----------------------------------------------------------------------------
(* The queue: no token twice, no mark or job without its entry or offer    *)

Distinct(q) == \A i, j \in 1 .. Len(q) : q[i] = q[j] => i = j
Elements(q) == {q[i] : i \in 1 .. Len(q)}

\* A running job whose deletion does not wait behind it has left room for one.
RoomForDeletion ==
  active # NoToken /\ active \notin Queued => Len(queue) + 1 <= MaxQueued

QueueInv == QueueWellFormed /\ RoomForDeletion

LEMMA AppendElements ==
  ASSUME NEW q \in Seq(Tokens), NEW t \in Tokens
  PROVE  /\ Len(Append(q, t)) = Len(q) + 1
         /\ Elements(Append(q, t)) = Elements(q) \cup {t}
         /\ Distinct(q) /\ t \notin Elements(q) => Distinct(Append(q, t))
<1>1. /\ Len(q) \in Nat /\ Len(Append(q, t)) = Len(q) + 1
      /\ \A i \in 1 .. Len(q) : Append(q, t)[i] = q[i]
      /\ Append(q, t)[Len(q) + 1] = t
  BY AppendProperties, LenProperties
<1>2. 1 .. Len(q) + 1 = (1 .. Len(q)) \cup {Len(q) + 1}
  BY <1>1
<1> QED BY <1>1, <1>2 DEF Elements, Distinct

LEMMA TailElements ==
  ASSUME NEW q \in Seq(Tokens), q # <<>>
  PROVE  /\ Len(Tail(q)) + 1 = Len(q)
         /\ Elements(q) = Elements(Tail(q)) \cup {Head(q)}
         /\ Distinct(q) => Distinct(Tail(q)) /\ Head(q) \notin Elements(Tail(q))
<1>1. /\ Len(q) \in Nat \ {0} /\ Len(Tail(q)) = Len(q) - 1 /\ Head(q) = q[1]
      /\ \A i \in 1 .. Len(q) - 1 : Tail(q)[i] = q[i + 1]
  BY HeadTailProperties, LenProperties, EmptySeq
<1>2. \A i \in 1 .. Len(q) : i = 1 \/ i - 1 \in 1 .. Len(q) - 1
  BY <1>1
<1>3. Elements(q) \subseteq Elements(Tail(q)) \cup {Head(q)}
  <2> SUFFICES ASSUME NEW i \in 1 .. Len(q)
               PROVE  q[i] \in Elements(Tail(q)) \cup {Head(q)}
    BY DEF Elements
  <2>1. CASE i = 1
    BY <2>1, <1>1
  <2>2. CASE i - 1 \in 1 .. Len(q) - 1
    <3>1. Tail(q)[i - 1] = q[i]
      BY <2>2, <1>1
    <3> QED BY <3>1, <2>2, <1>1 DEF Elements
  <2> QED BY <2>1, <2>2, <1>2
<1>4. Elements(Tail(q)) \cup {Head(q)} \subseteq Elements(q)
  BY <1>1 DEF Elements
<1>5. ASSUME Distinct(q)
      PROVE  Distinct(Tail(q)) /\ Head(q) \notin Elements(Tail(q))
  BY <1>5, <1>1 DEF Distinct, Elements
<1> QED BY <1>1, <1>3, <1>4, <1>5

LEMMA RemoveElements ==
  ASSUME NEW q \in Seq(Tokens), NEW i \in 1 .. Len(q), Distinct(q)
  PROVE  /\ Len(RemoveAt(q, i)) = Len(q) - 1
         /\ Elements(RemoveAt(q, i)) = Elements(q) \ {q[i]}
         /\ Distinct(RemoveAt(q, i))
<1> DEFINE r == RemoveAt(q, i)
<1>1. /\ Len(q) \in Nat /\ Len(r) = Len(q) - 1
      /\ \A j \in 1 .. Len(q) - 1 : r[j] = IF j < i THEN q[j] ELSE q[j + 1]
  BY RemoveAtProps, LenProperties
<1> HIDE DEF r
<1>2. Distinct(r)
  <2> SUFFICES ASSUME NEW j \in 1 .. Len(q) - 1, NEW k \in 1 .. Len(q) - 1,
                      r[j] = r[k]
               PROVE  j = k
    BY <1>1 DEF Distinct
  <2>1. \A m, n \in 1 .. Len(q) : q[m] = q[n] => m = n
    BY DEF Distinct
  <2>2. j \in 1 .. Len(q) /\ k \in 1 .. Len(q) /\ j + 1 \in 1 .. Len(q)
        /\ k + 1 \in 1 .. Len(q)
    BY <1>1
  <2>3. r[j] = (IF j < i THEN q[j] ELSE q[j + 1])
        /\ r[k] = (IF k < i THEN q[k] ELSE q[k + 1])
    BY <1>1
  <2>4. CASE j < i /\ k < i
    BY ONLY <2>1, <2>2, <2>3, <2>4, r[j] = r[k]
  <2>5. CASE j < i /\ ~(k < i)
    <3>1. j = k + 1
      BY ONLY <2>1, <2>2, <2>3, <2>5, r[j] = r[k]
    <3> QED BY <2>2, <2>5, <3>1, <1>1
  <2>6. CASE ~(j < i) /\ k < i
    <3>1. j + 1 = k
      BY ONLY <2>1, <2>2, <2>3, <2>6, r[j] = r[k]
    <3> QED BY <2>2, <2>6, <3>1, <1>1
  <2>7. CASE ~(j < i) /\ ~(k < i)
    <3>1. j + 1 = k + 1
      BY ONLY <2>1, <2>2, <2>3, <2>7, r[j] = r[k]
    <3> QED BY <3>1, <1>1
  <2> QED BY <2>4, <2>5, <2>6, <2>7
<1>3. Elements(r) \subseteq Elements(q) \ {q[i]}
  <2> SUFFICES ASSUME NEW j \in 1 .. Len(q) - 1
               PROVE  r[j] \in Elements(q) /\ r[j] # q[i]
    BY <1>1 DEF Elements
  <2>1. PICK k \in 1 .. Len(q) : r[j] = q[k] /\ k # i
    <3>1. CASE j < i
      BY <3>1, <1>1
    <3>2. CASE ~(j < i)
      <4>1. r[j] = q[j + 1] /\ j + 1 \in 1 .. Len(q) /\ j + 1 # i
        BY <3>2, <1>1
      <4> QED BY <4>1
    <3> QED BY <3>1, <3>2
  <2> QED BY <2>1 DEF Elements, Distinct
<1>4. Elements(q) \ {q[i]} \subseteq Elements(r)
  <2> SUFFICES ASSUME NEW k \in 1 .. Len(q), k # i
               PROVE  q[k] \in Elements(r)
    BY DEF Elements
  <2>1. CASE k < i
    <3>1. k \in 1 .. Len(q) - 1 /\ r[k] = q[k]
      BY <2>1, <1>1
    <3> QED BY <3>1, <1>1 DEF Elements
  <2>2. CASE i < k
    <3>1. k - 1 \in 1 .. Len(q) - 1 /\ r[k - 1] = q[k]
      BY <2>2, <1>1
    <3> QED BY <3>1, <1>1 DEF Elements
  <2> QED BY <2>1, <2>2
<1> QED BY <1>1, <1>2, <1>3, <1>4 DEF r

LEMMA QueueWellFormedParts ==
  QueueWellFormed <=> /\ Distinct(queue) /\ deletions \subseteq Elements(queue)
                      /\ Len(queue) <= MaxQueued
                      /\ Elements(queue) \cup ({active} \ {NoToken}) \subseteq offers
BY DEF QueueWellFormed, Distinct, Elements, Queued

\* Every step keeps the queue well formed.
LEMMA QueueInvStep ==
  ASSUME Inv, QueueInv, Next PROVE QueueInv'
<1> USE DEF offerVars, jobVars, queueVars, warnVars, activeVars, flagVars, diskVars
<1> DEFINE Parts ==
      /\ Distinct(queue) /\ deletions \subseteq Elements(queue)
      /\ Len(queue) <= MaxQueued
      /\ Elements(queue) \cup ({active} \ {NoToken}) \subseteq offers
      /\ active # NoToken /\ active \notin Elements(queue)
           => Len(queue) + 1 <= MaxQueued
<1>0. /\ Parts /\ queue \in Seq(Tokens) /\ Len(queue) \in Nat
      /\ offers \subseteq Tokens /\ NoToken \notin Tokens
      /\ MaxQueued \in Nat \ {0}
  BY QueueWellFormedParts, LenProperties, TokensAssumption, BoundsAssumption
     DEF QueueInv, RoomForDeletion, Queued, Elements, Inv, TypeOK
<1> SUFFICES Parts'
  BY QueueWellFormedParts, PTL DEF QueueInv, RoomForDeletion, Queued, Elements
<1>q. Queued = Elements(queue)
  BY DEF Queued, Elements
<1>e. Elements(<<>>) = {} /\ Distinct(<<>>) /\ Len(<<>>) = 0
  BY EmptySeq DEF Elements, Distinct
<1>s. ASSUME UNCHANGED <<offers, queue, deletions, active>> PROVE Parts'
  BY <1>s, <1>0 DEF Distinct, Elements
<1>1. ASSUME NEW t \in Tokens, NEW again \in BOOLEAN, Enqueue(t, again) PROVE Parts'
  <2>1. CASE UNCHANGED queue
    BY <1>1, <2>1, <1>s DEF Enqueue
  <2>2. CASE queue' = Append(queue, t)
    <3>1. /\ t \in offers /\ t # active /\ t \notin Elements(queue) /\ ~QueueFull
          /\ UNCHANGED <<offers, deletions, active>>
      <4>1. queue' # queue
        BY <2>2, <1>0, AppendElements
      <4> QED BY <1>1, <4>1, <1>q DEF Enqueue
    <3>2. IF active = NoToken THEN Len(queue) + 1 <= MaxQueued
                              ELSE Len(queue) + 2 <= MaxQueued
      BY <3>1, <1>0 DEF QueueFull, InFlight
    <3> QED BY <2>2, <3>1, <3>2, <1>0, AppendElements
  <2> QED BY <1>1, <2>1, <2>2 DEF Enqueue
<1>2. ASSUME NEW t \in Tokens, DeleteNow(t) PROVE Parts'
  <2>1. /\ queue = <<>> /\ queue' = Append(queue, t) /\ t \in offers
        /\ deletions' = deletions \cup {t} /\ UNCHANGED <<offers, active>>
        /\ ~workerRunning /\ guest.pc = "idle"
    BY <1>2 DEF DeleteNow
  <2>2. active = NoToken
    \* Only a running worker has a job.
    BY <2>1 DEF Inv, OneWorker, WorkerBusy
  <2>3. /\ Len(queue') = 1 /\ Elements(queue') = {t} /\ Distinct(queue')
        /\ deletions = {}
    <3>1. Len(queue) = 0 /\ Elements(queue) = {} /\ Distinct(queue)
      BY <2>1, <1>e
    <3>2. /\ Len(queue') = Len(queue) + 1
          /\ Elements(queue') = Elements(queue) \cup {t}
          /\ Distinct(queue) /\ t \notin Elements(queue) => Distinct(queue')
      BY <2>1, <1>0, AppendElements
    <3> QED BY <3>1, <3>2, <1>0
  <2> QED BY <2>1, <2>2, <2>3, <1>0
<1>3. ASSUME NEW t \in Tokens, DeleteBusy(t) PROVE Parts'
  <2>0. t \in offers /\ UNCHANGED <<offers, active>>
    BY <1>3 DEF DeleteBusy
  <2>1. CASE t \in Queued
    <3>1. deletions' = deletions \cup {t} /\ UNCHANGED queue
      BY <1>3, <2>1 DEF DeleteBusy
    <3> QED BY <2>0, <2>1, <3>1, <1>0, <1>q
  <2>2. CASE t \notin Queued /\ active = t
    <3>1. deletions' = deletions \cup {t} /\ queue' = Append(queue, t)
      BY <1>3, <2>2 DEF DeleteBusy
    <3> QED BY <2>0, <2>2, <3>1, <1>0, <1>q, AppendElements
  <2>3. CASE t \notin Queued /\ active # t
    BY <1>3, <2>0, <2>3, <1>s DEF DeleteBusy
  <2> QED BY <2>1, <2>2, <2>3
<1>4. ASSUME NEW t \in Tokens, DeleteRefused(t) PROVE Parts'
  BY <1>4, <1>s DEF DeleteRefused
<1>5. ASSUME NEW t \in Tokens, Cancel(t) PROVE Parts'
  <2>1. CASE active = t
    BY <1>5, <2>1, <1>s DEF Cancel
  <2>2. CASE active # t
    <3>1. PICK i \in 1 .. Len(queue) : queue[i] = t /\ queue' = RemoveAt(queue, i)
      BY <1>5, <2>2 DEF Cancel, EraseQueued
    <3>2. deletions' = deletions \ {t} /\ UNCHANGED <<offers, active>>
      BY <1>5, <2>2 DEF Cancel, DropMark
    <3>3. /\ Len(queue') = Len(queue) - 1 /\ Distinct(queue')
          /\ Elements(queue') = Elements(queue) \ {t}
      BY <3>1, <1>0, RemoveElements
    <3> QED BY <2>2, <3>2, <3>3, <1>0
  <2> QED BY <2>1, <2>2
<1>6. ASSUME StopDownloads PROVE Parts'
  <2>1. queue' = <<>> /\ deletions' = {} /\ UNCHANGED <<offers, active>>
    BY <1>6 DEF StopDownloads
  <2> QED BY <2>1, <1>0, <1>e
<1>7. ASSUME DismissWarning \/ ClearStoreRefreshWarning \/ ExitRaise PROVE Parts'
  BY <1>7, <1>s DEF DismissWarning, ClearStoreRefreshWarning, ExitRaise
<1>8. ASSUME GuestStep PROVE Parts'
  <2>1. CASE StopJoined
    <3>1. active' = NoToken /\ UNCHANGED <<offers, queue, deletions>>
      BY <2>1 DEF StopJoined
    <3> QED BY <3>1, <1>0
  <2>2. CASE GuestStep /\ ~StopJoined
    BY <2>2, <1>s DEF GuestStep, GuestRaise, EnsureWorker, SpawnWorker, ExitLock,
                      ExitJoined
  <2> QED BY <1>8, <2>1, <2>2
<1>9. ASSUME NEW t \in Tokens, RegisterOffer(t) PROVE Parts'
  <2>1. /\ HeldOffers(t) \subseteq offers' /\ UNCHANGED <<queue, deletions, active>>
    BY <1>9 DEF RegisterOffer, HeldOffers
  <2>2. Elements(queue) \cup ({active} \ {NoToken}) \subseteq HeldOffers(t)
    BY <1>0, <1>q DEF HeldOffers
  <2> QED BY <2>1, <2>2, <1>0
<1>10. ASSUME WorkerTakes PROVE Parts'
  <2>1. /\ queue # <<>> /\ queue' = Tail(queue) /\ active' = Head(queue)
        /\ deletions' = deletions \ {Head(queue)} /\ UNCHANGED offers
    BY <1>10 DEF WorkerTakes, NothingToDo
  <2>2. /\ Len(queue') + 1 = Len(queue) /\ Distinct(queue')
        /\ Elements(queue) = Elements(queue') \cup {Head(queue)}
        /\ Len(queue') \in Nat
    BY <2>1, <1>0, TailElements, HeadTailProperties, LenProperties
  <2> QED BY <2>1, <2>2, <1>0
<1>11. ASSUME WorkerClears PROVE Parts'
  <2>1. active' \in {active, NoToken} /\ UNCHANGED <<offers, queue, deletions>>
    BY <1>11 DEF WorkerClears
  <2> QED BY <2>1, <1>0
<1>12. ASSUME WorkerStep, ~WorkerTakes, ~WorkerClears PROVE Parts'
  BY <1>12, <1>s
     DEF WorkerStep, WorkerExits, JobStart, JobAttempt, TransferDone,
         TransferStopped, TransferRetries, TransferFails, RetryDelay,
         CommitInstall, PublishInstall, FinishInstall, DeleteStart,
         DeletePackage, DeleteFails, DeleteForget, DeleteDone
<1>13. ASSUME Terminated PROVE Parts'
  BY <1>13, <1>s DEF Terminated, vars
<1> QED BY <1>1, <1>2, <1>3, <1>4, <1>5, <1>6, <1>7, <1>8, <1>9, <1>10, <1>11,
           <1>12, <1>13 DEF Next, GuestCall

\* The queue keeps its shape in every execution, whatever is enqueued, replaced,
\* cancelled, deleted, evicted or stopped.
THEOREM QueueWellFormedAlways == Spec => []QueueWellFormed
<1>1. Init => QueueInv
  BY EmptySeq, BoundsAssumption
     DEF Init, QueueInv, QueueWellFormed, RoomForDeletion, Queued
<1>2. Inv /\ QueueInv /\ [Next]_vars => QueueInv'
  <2> SUFFICES ASSUME Inv, QueueInv, [Next]_vars PROVE QueueInv'
    OBVIOUS
  <2>1. CASE UNCHANGED vars
    BY <2>1 DEF vars, queueVars, offerVars, activeVars, QueueInv, QueueWellFormed,
                RoomForDeletion, Queued
  <2> QED BY <2>1, QueueInvStep
<1>3. QueueInv => QueueWellFormed
  BY DEF QueueInv
<1> QED BY <1>1, <1>2, <1>3, InvAlways, PTL DEF Spec

-----------------------------------------------------------------------------
(* What is installed is on disk                                            *)

\* The package a commit has put in place is nobody's yet.
CommittedIsFree ==
  worker.pc = "publish" =>
    worker.path \in library /\ \A t \in Tokens : installed[t] # worker.path

DiskInv == InstalledIsOnDisk /\ CommittedIsFree

\* Every step keeps what is installed on disk and unshared.
LEMMA DiskInvStep ==
  ASSUME Inv, DiskInv, Next PROVE DiskInv'
<1> USE DEF offerVars, jobVars, queueVars, warnVars, activeVars, flagVars, diskVars
<1>0. /\ worker \in WorkerRecords /\ library \subseteq Paths /\ NoPath \notin Paths
      /\ jobs \in [Tokens -> JobStates]
      /\ installed \in [Tokens -> Paths \cup {NoPath}]
  BY PathAssumption DEF Inv, TypeOK
<1> USE DEF DiskInv, InstalledIsOnDisk, CommittedIsFree
<1>s. ASSUME UNCHANGED <<jobs, installed, library>>,
             worker.pc # "forget", worker'.pc # "publish"
      PROVE  DiskInv'
  BY <1>s
\* A job's status may change as long as it does not become Installed.
<1>j. ASSUME NEW t \in Tokens, NEW state \in JobStates \ {"Installed"},
             SetJob(t, state), UNCHANGED <<installed, library>>,
             worker.pc # "forget", worker'.pc # "publish"
      PROVE  DiskInv'
  BY <1>j, <1>0 DEF SetJob
<1>w. ASSUME UNCHANGED <<installed, library, worker>>,
             \/ UNCHANGED jobs
             \/ \E t \in Tokens, state \in JobStates \ {"Installed"} : SetJob(t, state)
      PROVE  DiskInv'
  BY <1>w, <1>0 DEF SetJob
<1>n. {"Unknown", "Queued", "Downloading", "Failed", "Cancelled", "Deleted"}
         = JobStates \ {"Installed"}
  BY DEF JobStates
<1>b. worker.pc \notin {"none", "loop"} => worker.token \in Tokens
  BY BusyToken DEF WorkerBusy, Inv
<1>e. ASSUME NEW state \in JobStates \ {"Installed"}, WorkerEnds(state),
             worker.pc \notin {"none", "loop", "forget"},
             UNCHANGED <<installed, library>>
      PROVE  DiskInv'
  <2>1. worker'.pc = "clear" /\ worker.token \in Tokens
    BY <1>e, <1>b, WorkerGoesType DEF WorkerEnds, WorkerPcs, Inv
  <2> QED BY <2>1, <1>e, <1>j DEF WorkerEnds
<1>1. ASSUME GuestCall PROVE DiskInv'
  BY <1>1, <1>w, <1>n
     DEF GuestCall, Enqueue, DeleteNow, DeleteBusy, DeleteRefused, Cancel,
         DismissWarning, ClearStoreRefreshWarning, StopDownloads, ExitRaise
<1>2. ASSUME GuestStep PROVE DiskInv'
  <2>1. CASE SpawnWorker
    <3>1. worker.pc = "none" /\ worker'.pc = "loop"
      BY <2>1, <1>0 DEF SpawnWorker, WorkerJoined, WorkerGoes, WorkerRecords
    <3> QED BY <2>1, <3>1, <1>s DEF SpawnWorker
  <2>2. CASE GuestStep /\ ~SpawnWorker
    BY <2>2, <1>w DEF GuestStep, GuestRaise, EnsureWorker, StopJoined, ExitLock,
                      ExitJoined
  <2> QED BY <1>2, <2>1, <2>2
<1>3. ASSUME NEW t \in Tokens, RegisterOffer(t) PROVE DiskInv'
  BY <1>3, <1>w DEF RegisterOffer
<1>4. ASSUME Terminated PROVE DiskInv'
  BY <1>4, <1>w DEF Terminated, vars
<1>5. ASSUME WorkerExits \/ WorkerClears \/ TransferDone \/ TransferRetries
             \/ FinishInstall
      PROVE  DiskInv'
  <2>1. /\ UNCHANGED <<jobs, installed, library>>
        /\ worker.pc # "forget" /\ worker'.pc # "publish"
    BY <1>5, <1>0 DEF WorkerExits, WorkerClears, TransferDone, TransferRetries,
                      FinishInstall, WorkerGoes, WorkerRecords
  <2> QED BY <2>1, <1>s
<1>6. ASSUME WorkerTakes PROVE DiskInv'
  <2>1. Head(queue) \in Tokens
    BY <1>6, HeadTailProperties DEF WorkerTakes, NothingToDo, Inv, TypeOK
  <2>2. worker.pc = "loop" /\ worker'.pc \in {"delete", "job"}
    BY <1>6, <1>0 DEF WorkerTakes, WorkerRecords
  <2> QED BY <1>6, <2>1, <2>2, <1>j, <1>n DEF WorkerTakes
<1>7. ASSUME JobStart PROVE DiskInv'
  <2>1. CASE WorkerEnds("Failed")
    BY <1>7, <2>1, <1>e, <1>n DEF JobStart
  <2>2. CASE ~WorkerEnds("Failed")
    <3>1. worker'.pc = "attempt" /\ UNCHANGED jobs
      BY <1>7, <2>2, <1>0 DEF JobStart, WorkerRecords
    <3> QED BY <1>7, <3>1, <1>s DEF JobStart
  <2> QED BY <2>1, <2>2
<1>8. ASSUME JobAttempt PROVE DiskInv'
  <2>1. CASE WorkerEnds("Cancelled")
    BY <1>8, <2>1, <1>e, <1>n DEF JobAttempt
  <2>2. CASE ~WorkerEnds("Cancelled")
    <3>1. worker'.pc = "transfer" /\ UNCHANGED jobs
      BY <1>8, <2>2, <1>0 DEF JobAttempt, WorkerGoes, WorkerRecords
    <3> QED BY <1>8, <3>1, <1>s DEF JobAttempt
  <2> QED BY <2>1, <2>2
<1>9. ASSUME TransferStopped \/ TransferFails \/ DeleteDone PROVE DiskInv'
  BY <1>9, <1>e, <1>n DEF TransferStopped, TransferFails, DeleteDone
<1>10. ASSUME RetryDelay PROVE DiskInv'
  <2>1. CASE WorkerEnds("Cancelled")
    BY <1>10, <2>1, <1>e, <1>n DEF RetryDelay
  <2>2. CASE ~WorkerEnds("Cancelled")
    <3>1. worker'.pc = "attempt" /\ UNCHANGED jobs
      BY <1>10, <2>2, <1>0 DEF RetryDelay, WorkerRecords
    <3> QED BY <1>10, <3>1, <1>s DEF RetryDelay
  <2> QED BY <2>1, <2>2
<1>11. ASSUME CommitInstall PROVE DiskInv'
  <2>1. CASE WorkerEnds("Failed") /\ UNCHANGED library
    BY <1>11, <2>1, <1>e, <1>n DEF CommitInstall
  <2>2. CASE ~(WorkerEnds("Failed") /\ UNCHANGED library)
    <3>1. PICK n \in FirstFree(SongOf[worker.token]) :
            /\ library' = library \cup {<<SongOf[worker.token], n>>}
            /\ worker' = [worker EXCEPT !.pc = "publish",
                                        !.path = <<SongOf[worker.token], n>>]
            /\ UNCHANGED <<jobs, installed>>
      BY <1>11, <2>2 DEF CommitInstall
    <3> DEFINE p == <<SongOf[worker.token], n>>
    <3>2. p \notin library
      BY <3>1 DEF FirstFree, FreeCopies
    <3>3. worker.pc = "commit" /\ worker'.pc = "publish" /\ worker'.path = p
      BY <1>11, <3>1, <1>0 DEF CommitInstall, WorkerRecords
    <3>4. p # NoPath
      <4>1. worker.token \in Tokens
        BY <1>11, <1>b DEF CommitInstall
      <4>2. SongOf[worker.token] \in Songs /\ n \in 0 .. MaxCopies - 1
        BY <3>1, <4>1, SongsAssumption DEF FirstFree, FreeCopies
      <4> QED BY <4>2, PathAssumption DEF Paths
    <3>5. \A t \in Tokens : installed[t] # p
      BY <3>2, <3>3, <3>4
    <3> HIDE DEF p
    <3> QED BY <3>1, <3>3, <3>5 DEF p
  <2> QED BY <2>1, <2>2
<1>12. ASSUME PublishInstall PROVE DiskInv'
  <2>1. /\ worker.pc = "publish" /\ worker'.pc = "finish" /\ worker.token \in Tokens
        /\ installed' = [installed EXCEPT ![worker.token] = worker.path]
        /\ jobs' = [jobs EXCEPT ![worker.token] = "Installed"]
        /\ UNCHANGED library
    BY <1>12, <1>0, <1>b
       DEF PublishInstall, WorkerGoes, WorkerRecords, SetJob
  <2>2. worker.path \in library /\ \A t \in Tokens : installed[t] # worker.path
    BY <2>1
  <2> QED BY <2>1, <2>2, <1>0
<1>13. ASSUME DeleteStart PROVE DiskInv'
  <2>1. CASE WorkerEnds("Failed")
    BY <1>13, <2>1, <1>e, <1>n DEF DeleteStart
  <2>2. CASE ~WorkerEnds("Failed")
    <3>1. PICK paths : /\ worker' = [worker EXCEPT !.pc = "paths", !.paths = paths]
                       /\ UNCHANGED jobs
      BY <1>13, <2>2 DEF DeleteStart
    <3>2. worker'.pc = "paths"
      BY <3>1, <1>0 DEF WorkerRecords
    <3> QED BY <1>13, <3>1, <3>2, <1>s DEF DeleteStart
  <2> QED BY <2>1, <2>2
<1>14. ASSUME DeletePackage PROVE DiskInv'
  <2>1. PICK p \in worker.paths :
          /\ library' = library \ {p} /\ UNCHANGED <<jobs, installed>>
          /\ worker' = [worker EXCEPT !.pc = "forget", !.path = p,
                                      !.paths = worker.paths \ {p}]
    BY <1>14 DEF DeletePackage
  <2>2. worker.pc = "paths" /\ worker'.pc = "forget" /\ worker'.path = p
    BY <1>14, <2>1, <1>0 DEF DeletePackage, WorkerRecords
  <2> QED BY <2>1, <2>2
<1>15. ASSUME DeleteFails PROVE DiskInv'
  <2>1. worker.pc = "paths" /\ worker'.pc = "clear"
    BY <1>15, <1>0 DEF DeleteFails, WorkerRecords
  <2> QED BY <1>15, <2>1, <1>b, <1>j, <1>n DEF DeleteFails
<1>16. ASSUME DeleteForget PROVE DiskInv'
  <2>1. /\ worker.pc = "forget" /\ worker'.pc \in {"deleted", "paths"}
        /\ UNCHANGED library
        /\ \A t \in Tokens :
             IF installed[t] = worker.path
             THEN installed'[t] = NoPath /\ jobs'[t] = "Unknown"
             ELSE installed'[t] = installed[t] /\ jobs'[t] = jobs[t]
    BY <1>16, <1>0 DEF DeleteForget, WorkerRecords, PointingAt
  <2> QED BY <2>1
<1> QED BY <1>1, <1>2, <1>3, <1>4, <1>5, <1>6, <1>7, <1>8, <1>9, <1>10, <1>11,
           <1>12, <1>13, <1>14, <1>15, <1>16 DEF Next, WorkerStep

\* In every execution what a token has installed is a package on disk, its own,
\* whatever is renamed, collides, is deleted or fails in between.
THEOREM InstalledIsOnDiskAlways == Spec => []InstalledIsOnDisk
<1>1. Init => DiskInv
  BY DEF Init, DiskInv, InstalledIsOnDisk, CommittedIsFree
<1>2. Inv /\ DiskInv /\ [Next]_vars => DiskInv'
  <2> SUFFICES ASSUME Inv, DiskInv, [Next]_vars PROVE DiskInv'
    OBVIOUS
  <2>1. CASE UNCHANGED vars
    BY <2>1 DEF vars, jobVars, diskVars, DiskInv, InstalledIsOnDisk, CommittedIsFree
  <2> QED BY <2>1, DiskInvStep
<1>3. DiskInv => InstalledIsOnDisk
  BY DEF DiskInv
<1> QED BY <1>1, <1>2, <1>3, InvAlways, PTL DEF Spec
=============================================================================
