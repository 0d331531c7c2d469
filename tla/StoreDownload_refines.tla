------------------------- MODULE StoreDownload_refines -------------------------
(***************************************************************************)
(* StoreDownload implements InstallQueue for every set of tokens and songs *)
(* and every bound: its initial states are initial states of the abstract  *)
(* queue, and each of its steps is a step of it or changes nothing there.  *)
(*                                                                         *)
(* Beyond the invariants of StoreDownload_proofs the mapping needs to know *)
(* what the worker's locals mean: a job holds no path until it has         *)
(* committed one, active_deleting tells which of the two jobs runs, and    *)
(* the paths a deletion has collected are its song's.                      *)
(***************************************************************************)
EXTENDS StoreDownload_proofs

InstallPcs == {"job", "attempt", "transfer", "delay", "commit", "publish", "finish"}
DeletePcs  == {"delete", "paths", "forget", "deleted"}

LocalsInv ==
  /\ worker.pc \notin {"publish", "finish", "forget", "clear"} => worker.path = NoPath
  /\ worker.pc \in InstallPcs => ~activeDel
  /\ worker.pc \in DeletePcs => activeDel
  /\ worker.pc = "publish" => worker.path[1] = SongOf[worker.token]
  /\ \A p \in worker.paths : p[1] = SongOf[worker.token]
  /\ worker.pc \notin {"paths", "forget"} => worker.paths = {}
  /\ worker.pc = "clear" /\ activeDel => worker.path = NoPath
  /\ \A t \in Tokens : installed[t] # NoPath => installed[t][1] = SongOf[t]

RInv == Inv /\ QueueInv /\ DiskInv /\ LocalsInv

-----------------------------------------------------------------------------
\* The mapped queue, and what each operation on tokens is on requests.
Request(t, d) == [token |-> t, kind |-> IF t \in d THEN "delete" ELSE "install"]
MapQ(q, d) == [i \in 1 .. Len(q) |-> Request(q[i], d)]

\* Two sets of marks agree about the tokens of a queue.
SameMarks(q, d, e) == \A i \in 1 .. Len(q) : q[i] \in d <=> q[i] \in e

LEMMA MapType ==
  ASSUME NEW q \in Seq(Tokens), NEW d
  PROVE  /\ MapQ(q, d) \in Seq(IQ!Requests)
         /\ Len(MapQ(q, d)) = Len(q)
         /\ \A i \in 1 .. Len(q) : MapQ(q, d)[i] = Request(q[i], d)
<1>1. Len(q) \in Nat /\ \A i \in 1 .. Len(q) : q[i] \in Tokens
  BY LenProperties, ElementOfSeq
<1>2. \A i \in 1 .. Len(q) : Request(q[i], d) \in IQ!Requests
  BY <1>1 DEF Request, IQ!Requests, IQ!Kinds
<1>3. MapQ(q, d) \in [1 .. Len(q) -> IQ!Requests]
  BY <1>2 DEF MapQ
<1> QED
  BY <1>1, <1>3, SeqDef DEF MapQ

LEMMA MapAppend ==
  ASSUME NEW q \in Seq(Tokens), NEW t \in Tokens, NEW d, NEW e, SameMarks(q, d, e)
  PROVE  MapQ(Append(q, t), e) = Append(MapQ(q, d), Request(t, e))
<1> DEFINE a == Append(q, t)
<1>1. /\ a \in Seq(Tokens) /\ Len(q) \in Nat /\ Len(a) = Len(q) + 1
      /\ \A i \in 1 .. Len(q) : a[i] = q[i]
      /\ a[Len(q) + 1] = t
  BY AppendProperties, LenProperties
<1>2. Request(t, e) \in IQ!Requests
  BY DEF Request, IQ!Requests, IQ!Kinds
<1>3. /\ Append(MapQ(q, d), Request(t, e)) \in Seq(IQ!Requests)
      /\ Len(Append(MapQ(q, d), Request(t, e))) = Len(q) + 1
      /\ \A i \in 1 .. Len(q) : Append(MapQ(q, d), Request(t, e))[i] = Request(q[i], d)
      /\ Append(MapQ(q, d), Request(t, e))[Len(q) + 1] = Request(t, e)
  BY <1>1, <1>2, MapType, AppendProperties
<1>4. /\ MapQ(a, e) \in Seq(IQ!Requests) /\ Len(MapQ(a, e)) = Len(q) + 1
      /\ \A i \in 1 .. Len(q) + 1 : MapQ(a, e)[i] = Request(a[i], e)
  BY <1>1, MapType
<1>5. \A i \in 1 .. Len(q) : Request(q[i], d) = Request(q[i], e)
  BY DEF SameMarks, Request
<1> HIDE DEF a
<1>6. \A i \in 1 .. Len(q) + 1 : MapQ(a, e)[i] = Append(MapQ(q, d), Request(t, e))[i]
  <2> TAKE i \in 1 .. Len(q) + 1
  <2>1. CASE i = Len(q) + 1
    BY <2>1, <1>1, <1>3, <1>4
  <2>2. CASE i \in 1 .. Len(q)
    BY <2>2, <1>1, <1>3, <1>4, <1>5
  <2>3. Len(q) \in Nat
    BY <1>1
  <2>4. i = Len(q) + 1 \/ i \in 1 .. Len(q)
    BY ONLY <2>3, i \in 1 .. Len(q) + 1
  <2> QED BY <2>1, <2>2, <2>4
<1> QED
  BY <1>3, <1>4, <1>6, SeqEqual DEF a

LEMMA MapTail ==
  ASSUME NEW q \in Seq(Tokens), q # <<>>, NEW d, NEW e, SameMarks(Tail(q), d, e)
  PROVE  /\ MapQ(q, d) # <<>>
         /\ Head(MapQ(q, d)) = Request(Head(q), d)
         /\ MapQ(Tail(q), e) = Tail(MapQ(q, d))
<1> DEFINE m == MapQ(q, d)
<1>1. /\ Len(q) \in Nat \ {0} /\ Tail(q) \in Seq(Tokens) /\ Len(Tail(q)) = Len(q) - 1
      /\ \A i \in 1 .. Len(q) - 1 : Tail(q)[i] = q[i + 1]
      /\ Head(q) = q[1]
  BY HeadTailProperties, LenProperties, EmptySeq
<1>2. /\ m \in Seq(IQ!Requests) /\ Len(m) = Len(q)
      /\ \A i \in 1 .. Len(q) : m[i] = Request(q[i], d)
  BY MapType
<1> HIDE DEF m
<1>3. m # <<>> /\ Head(m) = m[1]
  BY <1>1, <1>2, EmptySeq
<1>4. /\ Tail(m) \in Seq(IQ!Requests) /\ Len(Tail(m)) = Len(q) - 1
      /\ \A i \in 1 .. Len(q) - 1 : Tail(m)[i] = m[i + 1]
  BY <1>2, <1>3, HeadTailProperties
<1>5. /\ MapQ(Tail(q), e) \in Seq(IQ!Requests) /\ Len(MapQ(Tail(q), e)) = Len(q) - 1
      /\ \A i \in 1 .. Len(q) - 1 : MapQ(Tail(q), e)[i] = Request(Tail(q)[i], e)
  BY <1>1, MapType
<1>6. \A i \in 1 .. Len(q) - 1 : MapQ(Tail(q), e)[i] = Tail(m)[i]
  <2> TAKE i \in 1 .. Len(q) - 1
  <2>1. i + 1 \in 1 .. Len(q) /\ Request(Tail(q)[i], d) = Request(Tail(q)[i], e)
    BY <1>1 DEF SameMarks, Request
  <2> QED BY <2>1, <1>1, <1>2, <1>4, <1>5
<1>7. MapQ(Tail(q), e) = Tail(m)
  BY <1>4, <1>5, <1>6, SeqEqual
<1> QED
  BY <1>1, <1>2, <1>3, <1>7 DEF m

LEMMA MapRemove ==
  ASSUME NEW q \in Seq(Tokens), NEW k \in 1 .. Len(q), NEW d, NEW e,
         SameMarks(RemoveAt(q, k), d, e)
  PROVE  MapQ(RemoveAt(q, k), e) = RemoveAt(MapQ(q, d), k)
<1> DEFINE r == RemoveAt(q, k)
           m == MapQ(q, d)
<1>1. /\ Len(q) \in Nat /\ r \in Seq(Tokens) /\ Len(r) = Len(q) - 1
      /\ \A j \in 1 .. Len(q) - 1 : r[j] = IF j < k THEN q[j] ELSE q[j + 1]
  BY RemoveAtProps, LenProperties
<1>2. /\ m \in Seq(IQ!Requests) /\ Len(m) = Len(q)
      /\ \A i \in 1 .. Len(q) : m[i] = Request(q[i], d)
  BY MapType
<1>3. /\ RemoveAt(m, k) \in Seq(IQ!Requests) /\ Len(RemoveAt(m, k)) = Len(q) - 1
      /\ \A j \in 1 .. Len(q) - 1 : RemoveAt(m, k)[j] = IF j < k THEN m[j] ELSE m[j + 1]
  <2> HIDE DEF m
  <2> QED BY <1>2, RemoveAtProps
<1>4. /\ MapQ(r, e) \in Seq(IQ!Requests) /\ Len(MapQ(r, e)) = Len(q) - 1
      /\ \A j \in 1 .. Len(q) - 1 : MapQ(r, e)[j] = Request(r[j], e)
  BY <1>1, MapType
<1>5. SameMarks(r, d, e)
  OBVIOUS
<1> HIDE DEF r, m
<1>6. \A j \in 1 .. Len(q) - 1 : MapQ(r, e)[j] = RemoveAt(m, k)[j]
  <2> TAKE j \in 1 .. Len(q) - 1
  <2>1. j \in 1 .. Len(q) /\ j + 1 \in 1 .. Len(q)
    BY <1>1
  <2>2. Request(r[j], d) = Request(r[j], e)
    BY <1>1, <1>5 DEF SameMarks, Request
  <2>3. RemoveAt(m, k)[j] = Request(r[j], d)
    BY <2>1, <1>1, <1>2, <1>3
  <2> QED BY <2>2, <2>3, <1>4
<1>7. MapQ(r, e) = RemoveAt(m, k)
  BY <1>3, <1>4, <1>6, SeqEqual
<1> QED BY <1>7 DEF r, m

LEMMA MapReplace ==
  ASSUME NEW q \in Seq(Tokens), NEW k \in 1 .. Len(q), NEW d, Distinct(q)
  PROVE  MapQ(q, d \cup {q[k]}) = [MapQ(q, d) EXCEPT ![k].kind = "delete"]
<1> DEFINE m == MapQ(q, d)
           n == MapQ(q, d \cup {q[k]})
<1>1. /\ n \in [1 .. Len(q) -> IQ!Requests] /\ m \in [1 .. Len(q) -> IQ!Requests]
      /\ \A i \in 1 .. Len(q) : /\ m[i] = Request(q[i], d)
                                /\ n[i] = Request(q[i], d \cup {q[k]})
  <2>1. \A i \in 1 .. Len(q) : q[i] \in Tokens
    BY ElementOfSeq
  <2> QED BY <2>1 DEF MapQ, Request, IQ!Requests, IQ!Kinds
<1> HIDE DEF m, n
<1>2. ASSUME NEW i \in 1 .. Len(q)
      PROVE  n[i] = [m EXCEPT ![k].kind = "delete"][i]
  <2>1. CASE i = k
    BY <1>1, <2>1 DEF Request
  <2>2. CASE i # k
    <3>1. q[i] # q[k]
      BY <2>2 DEF Distinct
    <3> QED BY <1>1, <2>2, <3>1 DEF Request
  <2> QED BY <2>1, <2>2
<1>3. n = [m EXCEPT ![k].kind = "delete"]
  BY <1>1, <1>2
<1> QED BY <1>3 DEF m, n

-----------------------------------------------------------------------------
\* The worker's locals keep their meaning.
LEMMA InitLocals == Init => LocalsInv
  BY DEF Init, LocalsInv, InstallPcs, DeletePcs

\* A step that moves neither the worker nor what its job is.
LEMMA LocalsStay ==
  ASSUME LocalsInv, UNCHANGED <<worker, activeDel, installed>>
  PROVE  LocalsInv'
BY DEF LocalsInv

LEMMA LocalsStep ==
  ASSUME Inv, LocalsInv, Next PROVE LocalsInv'
<1> USE DEF offerVars, jobVars, queueVars, warnVars, activeVars, flagVars, diskVars
<1>0. /\ worker \in WorkerRecords /\ NoPath \notin Paths
      /\ installed \in [Tokens -> Paths \cup {NoPath}]
  BY PathAssumption DEF Inv, TypeOK
<1>b. worker.pc \notin {"none", "loop"} => worker.token \in Tokens
  BY BusyToken DEF WorkerBusy, Inv
<1> USE DEF LocalsInv, InstallPcs, DeletePcs
\* The worker moves on with its locals.
<1>w. ASSUME NEW pc \in WorkerPcs, WorkerGoes(pc),
             UNCHANGED <<activeDel, installed>>,
             \/ pc \in InstallPcs /\ worker.pc \in InstallPcs /\ worker.path = NoPath
                /\ pc # "publish"
             \/ pc = "clear" /\ worker.pc \in InstallPcs
             \/ pc = "clear" /\ worker.path = NoPath /\ worker.pc \in {"delete", "deleted"}
             \/ {pc, worker.pc} \subseteq {"none", "loop"}
      PROVE  LocalsInv'
  BY <1>w, <1>0 DEF WorkerGoes, WorkerRecords
<1>p. {"none", "loop", "job", "attempt", "transfer", "delay", "commit", "publish",
       "finish", "delete", "paths", "forget", "deleted", "clear"} = WorkerPcs
  BY DEF WorkerPcs
<1>1. CASE GuestCall
  BY <1>1, LocalsStay
     DEF GuestCall, Enqueue, DeleteNow, DeleteBusy, DeleteRefused, Cancel,
         DismissWarning, ClearStoreRefreshWarning, StopDownloads, ExitRaise
<1>2. CASE GuestStep
  <2>1. CASE SpawnWorker
    BY <2>1, <1>w, <1>p DEF SpawnWorker, WorkerJoined
  <2>2. CASE GuestStep /\ ~SpawnWorker
    BY <2>2, LocalsStay DEF GuestStep, GuestRaise, EnsureWorker, StopJoined, ExitLock,
                            ExitJoined
  <2> QED BY <1>2, <2>1, <2>2
<1>3. ASSUME NEW t \in Tokens, RegisterOffer(t) PROVE LocalsInv'
  BY <1>3, LocalsStay DEF RegisterOffer
<1>4. CASE Terminated
  BY <1>4, LocalsStay DEF Terminated, vars
<1>5. CASE WorkerExits
  BY <1>5, <1>w, <1>p DEF WorkerExits
<1>6. CASE WorkerClears
  BY <1>6, <1>0 DEF WorkerClears, WorkerRecords
<1>7. CASE WorkerTakes
  <2>1. worker' = [worker EXCEPT !.pc = IF Head(queue) \in deletions THEN "delete"
                                                                     ELSE "job",
                                 !.token = Head(queue)]
        /\ activeDel' = (Head(queue) \in deletions) /\ UNCHANGED installed
        /\ worker.pc = "loop"
    BY <1>7 DEF WorkerTakes
  <2>2. CASE Head(queue) \in deletions
    <3>1. worker'.pc = "delete" /\ worker'.path = NoPath /\ activeDel'
          /\ worker'.paths = worker.paths /\ worker'.token = Head(queue)
      BY <2>1, <2>2, <1>0 DEF WorkerRecords
    <3> QED BY <2>1, <3>1
  <2>3. CASE Head(queue) \notin deletions
    <3>1. worker'.pc = "job" /\ worker'.path = NoPath /\ ~activeDel'
      BY <2>1, <2>3, <1>0 DEF WorkerRecords
    <3> QED BY <2>1, <3>1
  <2> QED BY <2>2, <2>3
<1>8. CASE JobStart
  <2>1. CASE WorkerEnds("Failed")
    BY <1>8, <2>1, <1>w, <1>p DEF JobStart, WorkerEnds
  <2>2. CASE ~WorkerEnds("Failed")
    BY <1>8, <2>2, <1>0 DEF JobStart, WorkerRecords
  <2> QED BY <2>1, <2>2
<1>9. CASE JobAttempt \/ TransferDone \/ TransferRetries \/ FinishInstall
           \/ TransferStopped \/ TransferFails
  BY <1>9, <1>w, <1>p DEF JobAttempt, TransferDone, TransferRetries, FinishInstall,
     TransferStopped, TransferFails, WorkerEnds
<1>10. CASE RetryDelay
  <2>1. CASE WorkerEnds("Cancelled")
    BY <1>10, <2>1, <1>w, <1>p DEF RetryDelay, WorkerEnds
  <2>2. CASE ~WorkerEnds("Cancelled")
    BY <1>10, <2>2, <1>0 DEF RetryDelay, WorkerRecords
  <2> QED BY <2>1, <2>2
<1>11. CASE CommitInstall
  <2>1. CASE WorkerEnds("Failed")
    BY <1>11, <2>1, <1>w, <1>p DEF CommitInstall, WorkerEnds
  <2>2. CASE ~WorkerEnds("Failed")
    <3>1. PICK n \in FirstFree(SongOf[worker.token]) :
            worker' = [worker EXCEPT !.pc = "publish",
                                     !.path = <<SongOf[worker.token], n>>]
      BY <1>11, <2>2 DEF CommitInstall
    <3>2. worker.pc = "commit" /\ UNCHANGED <<activeDel, installed>>
      BY <1>11 DEF CommitInstall
    <3>3. /\ worker'.pc = "publish" /\ worker'.token = worker.token
          /\ worker'.paths = worker.paths
          /\ worker'.path[1] = SongOf[worker.token]
      BY <3>1, <1>0 DEF WorkerRecords
    <3> QED BY <3>2, <3>3
  <2> QED BY <2>1, <2>2
<1>12. CASE PublishInstall
  <2>1. /\ worker.pc = "publish" /\ worker'.pc = "finish" /\ worker.token \in Tokens
        /\ installed' = [installed EXCEPT ![worker.token] = worker.path]
        /\ worker'.paths = worker.paths /\ worker'.token = worker.token
        /\ UNCHANGED activeDel
    BY <1>12, <1>0, <1>b DEF PublishInstall, WorkerGoes, WorkerRecords
  <2>2. \A t \in Tokens : installed'[t] # NoPath => installed'[t][1] = SongOf[t]
    BY <2>1, <1>0
  <2> QED BY <2>1, <2>2
<1>13. CASE DeleteStart
  <2>1. CASE WorkerEnds("Failed")
    BY <1>13, <2>1, <1>w, <1>p DEF DeleteStart, WorkerEnds
  <2>2. CASE ~WorkerEnds("Failed")
    <3>1. PICK found \in IndexedPackages(SongOf[worker.token]) :
            worker' = [worker EXCEPT !.pc = "paths",
                                     !.paths = found \cup OwnPackage(worker.token)]
      BY <1>13, <2>2 DEF DeleteStart
    <3>2. /\ worker.pc = "delete" /\ worker.token \in Tokens
          /\ UNCHANGED <<activeDel, installed>>
      BY <1>13, <1>b DEF DeleteStart
    <3>3. \A p \in found \cup OwnPackage(worker.token) : p[1] = SongOf[worker.token]
      BY <3>2 DEF IndexedPackages, OwnPackage
    <3>4. /\ worker'.pc = "paths" /\ worker'.path = worker.path
          /\ worker'.token = worker.token
          /\ worker'.paths = found \cup OwnPackage(worker.token)
      BY <3>1, <1>0 DEF WorkerRecords
    <3> QED BY <3>2, <3>3, <3>4
  <2> QED BY <2>1, <2>2
<1>14. CASE DeletePackage
  <2>1. PICK p \in worker.paths :
          worker' = [worker EXCEPT !.pc = "forget", !.path = p,
                                   !.paths = worker.paths \ {p}]
    BY <1>14 DEF DeletePackage
  <2>2. /\ worker.pc = "paths" /\ worker'.pc = "forget" /\ worker'.token = worker.token
        /\ worker'.paths \subseteq worker.paths /\ UNCHANGED <<activeDel, installed>>
    BY <1>14, <2>1, <1>0 DEF DeletePackage, WorkerRecords
  <2> QED BY <2>2
<1>15. CASE DeleteFails
  BY <1>15, <1>0 DEF DeleteFails, WorkerRecords
<1>16. CASE DeleteForget
  <2>1. /\ worker.pc = "forget" /\ worker'.pc \in {"deleted", "paths"}
        /\ worker'.path = NoPath /\ worker'.token = worker.token
        /\ worker'.paths = worker.paths /\ UNCHANGED activeDel
        /\ worker'.pc = "deleted" => worker.paths = {}
        /\ \A t \in Tokens : installed'[t] \in {NoPath, installed[t]}
    BY <1>16, <1>0 DEF DeleteForget, WorkerRecords
  <2> QED BY <2>1
<1>17. CASE DeleteDone
  BY <1>17, <1>w, <1>p DEF DeleteDone, WorkerEnds
<1> QED BY <1>1, <1>2, <1>3, <1>4, <1>5, <1>6, <1>7, <1>8, <1>9, <1>10, <1>11,
           <1>12, <1>13, <1>14, <1>15, <1>16, <1>17 DEF Next, WorkerStep

-----------------------------------------------------------------------------
\* The abstract variables.
Waiting == MapQ(queue, deletions)
Running == IF active = NoToken THEN NoToken
           ELSE [token |-> active,
                 kind  |-> IF activeDel THEN "delete" ELSE "install"]
Added   == worker.path # NoPath /\ ~activeDel

LEMMA InitRefines == Init => IQ!Init
<1> SUFFICES ASSUME Init PROVE IQ!Init
  OBVIOUS
<1>1. queue = <<>> /\ queue \in Seq(Tokens) /\ Len(queue) = 0
  BY EmptySeq DEF Init
<1>2. MapQ(queue, deletions) = <<>>
  BY <1>1, MapType, EmptySeq
<1>3. (worker.path # NoPath /\ ~activeDel) = FALSE
  BY DEF Init
<1> QED
  BY <1>2, <1>3 DEF IQ!Init, Init, MapQ, Request

\* What changes none of the abstract variables.
LEMMA Stutter ==
  ASSUME UNCHANGED <<queue, deletions, active, activeDel, library>>, Added' <=> Added
  PROVE  UNCHANGED IQ!vars
<1>1. UNCHANGED Added
  BY DEF Added
<1>2. UNCHANGED <<Waiting, Running>>
  BY DEF Waiting, Running, MapQ, Request
<1> QED
  BY <1>1, <1>2 DEF IQ!vars, Waiting, Running, Added, MapQ, Request

\* An abstract request that waits is a token in the queue.
LEMMA WaitsIsQueued ==
  ASSUME TypeOK, NEW t \in Tokens
  PROVE  IQ!Waits(t) <=> t \in Queued
<1>1. /\ Len(Waiting) = Len(queue)
      /\ \A i \in 1 .. Len(queue) : Waiting[i] = Request(queue[i], deletions)
  BY MapType DEF TypeOK, Waiting
<1>2. IQ!Waits(t) <=> \E i \in 1 .. Len(Waiting) : Waiting[i].token = t
  BY DEF IQ!Waits, Waiting, MapQ, Request
<1>5. \A u, d : Request(u, d).token = u
  BY DEF Request
<1>3. \A i \in 1 .. Len(queue) : Waiting[i].token = queue[i]
  BY <1>1, <1>5
<1>4. IQ!Waits(t) <=> \E i \in 1 .. Len(queue) : queue[i] = t
  BY <1>1, <1>2, <1>3
<1> QED
  BY <1>4 DEF Queued

\* A token that is queued is an accepted request.
LEMMA AcceptRefines ==
  ASSUME TypeOK, NEW t \in Tokens, t \notin Queued, queue' = Append(queue, t),
         \/ t \notin deletions /\ deletions' = deletions /\ t # active
         \/ deletions' = deletions \cup {t},
         UNCHANGED <<active, activeDel, library, worker>>
  PROVE  IQ!Next
<1>0. Request(t, deletions') \in IQ!Requests
  BY DEF Request, IQ!Requests, IQ!Kinds
<1>1. PICK r \in IQ!Requests : r = Request(t, deletions')
  BY <1>0
<1>2. SameMarks(queue, deletions, deletions')
  BY DEF SameMarks, Queued
<1>3. Waiting' = Append(Waiting, r)
  BY <1>1, <1>2, MapAppend DEF TypeOK, Waiting
<1>5. r.token = t /\ (t = active => r.kind = "delete")
  BY <1>1 DEF Request
<1>4. ~IQ!Waits(r.token)
  BY <1>5, WaitsIsQueued
<1>6. Running # NoToken => Running.token # r.token \/ r.kind = "delete"
  BY <1>5 DEF Running
<1>7. UNCHANGED <<Running, Added>>
  BY DEF Running, Added
<1>8. IQ!Accept(r)
  BY <1>3, <1>4, <1>6, <1>7 DEF IQ!Accept, Waiting, Running, Added, MapQ, Request
<1>9. \E x \in IQ!Requests : IQ!Accept(x)
  BY <1>1, <1>8
<1> QED
  BY <1>9 DEF IQ!Next

\* A queued transfer that becomes a deletion.
LEMMA ReplaceRefines ==
  ASSUME TypeOK, QueueWellFormed, NEW t \in Queued, UNCHANGED queue,
         deletions' = deletions \cup {t},
         UNCHANGED <<active, activeDel, library, worker>>
  PROVE  IQ!Next
<1>1. PICK k \in 1 .. Len(queue) : queue[k] = t
  BY DEF Queued
<1>2. Waiting' = [Waiting EXCEPT ![k].kind = "delete"] /\ k \in 1 .. Len(Waiting)
  BY <1>1, MapReplace, MapType, QueueWellFormedParts DEF TypeOK, Waiting
<1>3. UNCHANGED <<Running, Added>>
  BY DEF Running, Added
<1>4. IQ!Replace(k)
  BY <1>2, <1>3 DEF IQ!Replace, Waiting, Running, Added, MapQ, Request
<1>5. k \in 1 .. Len([i \in 1 .. Len(queue) |->
                     [token |-> queue[i],
                      kind |-> IF queue[i] \in deletions THEN "delete" ELSE "install"]])
  BY <1>2 DEF Waiting, MapQ, Request
<1> QED
  BY <1>4, <1>5 DEF IQ!Next

\* A cancelled queue entry.
LEMMA WithdrawRefines ==
  ASSUME TypeOK, QueueWellFormed, NEW t \in Tokens, EraseQueued(t),
         deletions' = deletions \ {t},
         UNCHANGED <<active, activeDel, library, worker>>
  PROVE  IQ!Next
<1>1. PICK k \in 1 .. Len(queue) : queue[k] = t /\ queue' = RemoveAt(queue, k)
  BY DEF EraseQueued
<1>2. SameMarks(RemoveAt(queue, k), deletions, deletions')
  <2>1. Elements(RemoveAt(queue, k)) = Elements(queue) \ {t}
    BY <1>1, RemoveElements, QueueWellFormedParts DEF TypeOK
  <2> QED BY <2>1 DEF SameMarks, Elements
<1>3. Waiting' = RemoveAt(Waiting, k) /\ k \in 1 .. Len(Waiting)
  BY <1>1, <1>2, MapRemove, MapType DEF TypeOK, Waiting
<1>4. UNCHANGED <<Running, Added>>
  BY DEF Running, Added
<1>7. RemoveAt(Waiting, k) = IQ!RemoveAt(Waiting, k)
  BY DEF RemoveAt, IQ!RemoveAt
<1>5. IQ!Withdraw(k)
  BY <1>3, <1>4, <1>7 DEF IQ!Withdraw, Waiting, Running, Added, MapQ, Request
<1>6. k \in 1 .. Len([i \in 1 .. Len(queue) |->
                     [token |-> queue[i],
                      kind |-> IF queue[i] \in deletions THEN "delete" ELSE "install"]])
  BY <1>3 DEF Waiting, MapQ, Request
<1> QED
  BY <1>5, <1>6 DEF IQ!Next

\* The worker takes the job at the head.
LEMMA BeginRefines ==
  ASSUME RInv, WorkerTakes PROVE IQ!Next
<1> USE DEF offerVars, jobVars, queueVars, warnVars, activeVars, flagVars, diskVars
<1>1. /\ queue \in Seq(Tokens) /\ queue # <<>> /\ worker \in WorkerRecords
      /\ active = NoToken /\ worker.pc = "loop" /\ worker.path = NoPath
  BY DEF RInv, Inv, TypeOK, OneWorker, WorkerBusy, LocalsInv, WorkerTakes, NothingToDo
<1>2. /\ queue' = Tail(queue) /\ active' = Head(queue)
      /\ activeDel' = (Head(queue) \in deletions)
      /\ deletions' = deletions \ {Head(queue)} /\ UNCHANGED library
  BY DEF WorkerTakes
<1>3. Head(queue) \in Tokens /\ Head(queue) # NoToken
  BY <1>1, HeadTailProperties, TokensAssumption
<1>4. worker'.path = NoPath
  BY <1>1 DEF WorkerTakes, WorkerRecords
<1>5. SameMarks(Tail(queue), deletions, deletions')
  <2>1. Head(queue) \notin Elements(Tail(queue))
    BY <1>1, TailElements, QueueWellFormedParts DEF RInv, QueueInv
  <2> QED BY <1>2, <2>1 DEF SameMarks, Elements
<1>6. /\ Waiting # <<>> /\ Waiting' = Tail(Waiting)
      /\ Head(Waiting) = Request(Head(queue), deletions)
  BY <1>1, <1>2, <1>5, MapTail DEF Waiting
<1>7. Running = NoToken /\ Running' = Request(Head(queue), deletions)
  BY <1>1, <1>2, <1>3 DEF Running, Request
<1>8. Added' = FALSE
  BY <1>4 DEF Added
<1>9. IQ!Begin
  BY <1>2, <1>6, <1>7, <1>8 DEF IQ!Begin, Waiting, Running, Added, MapQ, Request
<1> QED
  BY <1>9 DEF IQ!Next

\* The running install puts its package in place.
LEMMA CommitRefines ==
  ASSUME RInv, CommitInstall PROVE IQ!Next \/ UNCHANGED IQ!vars
<1> USE DEF offerVars, jobVars, queueVars, warnVars, activeVars, flagVars, diskVars
<1>1. /\ worker \in WorkerRecords /\ worker.pc = "commit" /\ worker.path = NoPath
      /\ ~activeDel /\ active = worker.token /\ active \in Tokens
      /\ active # NoToken /\ SongOf[active] \in Songs
      /\ UNCHANGED <<queue, deletions, active, activeDel>>
  BY TokensAssumption, SongsAssumption
     DEF RInv, Inv, TypeOK, OneWorker, WorkerBusy, LocalsInv, InstallPcs, CommitInstall
<1>2. CASE WorkerEnds("Failed") /\ UNCHANGED library
  <2>1. worker'.path = NoPath
    BY <1>1, <1>2 DEF WorkerEnds, WorkerGoes, WorkerRecords
  <2>2. Added' <=> Added
    BY <1>1, <2>1 DEF Added
  <2> QED BY <1>1, <1>2, <2>2, Stutter
<1>3. CASE ~(WorkerEnds("Failed") /\ UNCHANGED library)
  <2>1. PICK n \in FirstFree(SongOf[worker.token]) :
          /\ library' = library \cup {<<SongOf[worker.token], n>>}
          /\ worker' = [worker EXCEPT !.pc = "publish",
                                      !.path = <<SongOf[worker.token], n>>]
    BY <1>3 DEF CommitInstall
  <2>2. PICK p : p = <<SongOf[worker.token], n>>
    OBVIOUS
  <2>3. p \in Paths /\ p \notin library /\ p # NoPath /\ p[1] = SongOf[active]
    BY <1>1, <2>1, <2>2, PathAssumption DEF Paths, FirstFree, FreeCopies
  <2>4. worker'.path = p
    BY <1>1, <2>1, <2>2 DEF WorkerRecords
  <2>5. /\ Running # NoToken /\ Running.kind = "install" /\ Running.token = active
        /\ Added = FALSE /\ Added' = TRUE
        /\ UNCHANGED <<Waiting, Running>>
    <3>1. /\ Running # NoToken /\ Running.kind = "install" /\ Running.token = active
      BY <1>1, IdleAssumption DEF Running
    <3>2. Added = FALSE /\ Added' = TRUE
      BY <1>1, <2>3, <2>4 DEF Added
    <3>3. UNCHANGED <<Waiting, Running>>
      BY <1>1 DEF Waiting, Running, MapQ, Request
    <3> QED BY <3>1, <3>2, <3>3
  <2>6. IQ!AddPackage(p)
    BY <2>1, <2>2, <2>3, <2>5 DEF IQ!AddPackage, Waiting, Running, Added, MapQ, Request
  <2> QED
    BY <2>3, <2>6 DEF IQ!Next
<1> QED BY <1>2, <1>3

\* The running deletion removes a package.
LEMMA DeleteRefines ==
  ASSUME RInv, DeletePackage PROVE IQ!Next
<1> USE DEF offerVars, jobVars, queueVars, warnVars, activeVars, flagVars, diskVars
<1>1. /\ worker \in WorkerRecords /\ worker.pc = "paths" /\ activeDel
      /\ active = worker.token /\ active \in Tokens /\ active # NoToken
      /\ UNCHANGED <<queue, deletions, active, activeDel>>
  BY TokensAssumption
     DEF RInv, Inv, TypeOK, OneWorker, WorkerBusy, LocalsInv, DeletePcs, DeletePackage
<1>2. PICK p \in worker.paths : library' = library \ {p}
  BY DEF DeletePackage
<1>3. p \in Paths /\ p[1] = SongOf[active]
  BY <1>1 DEF WorkerRecords, RInv, LocalsInv
<1>4. /\ Running # NoToken /\ Running.kind = "delete" /\ Running.token = active
      /\ Added = FALSE /\ Added' = FALSE
      /\ UNCHANGED <<Waiting, Running>>
  <2>1. Running # NoToken /\ Running.kind = "delete" /\ Running.token = active
    BY <1>1, IdleAssumption DEF Running
  <2>2. Added = FALSE /\ Added' = FALSE
    BY <1>1 DEF Added
  <2>3. UNCHANGED <<Waiting, Running>>
    BY <1>1 DEF Waiting, Running, MapQ, Request
  <2> QED BY <2>1, <2>2, <2>3
<1>5. IQ!RemovePackage(p)
  BY <1>2, <1>3, <1>4 DEF IQ!RemovePackage, Waiting, Running, Added, MapQ, Request
<1> QED
  BY <1>3, <1>5 DEF IQ!Next

\* The job ends.
LEMMA EndRefines ==
  ASSUME RInv, WorkerClears PROVE IQ!Next
<1> USE DEF offerVars, jobVars, queueVars, warnVars, activeVars, flagVars, diskVars
<1>1. /\ worker \in WorkerRecords /\ active = worker.token /\ active \in Tokens
      /\ active # NoToken /\ active' = NoToken
      /\ UNCHANGED <<queue, deletions, activeDel, library>>
  BY TokensAssumption
     DEF RInv, Inv, TypeOK, OneWorker, WorkerBusy, WorkerClears
<1>2. worker'.path = NoPath
  BY <1>1 DEF WorkerClears, WorkerRecords
<1>3. /\ Running # NoToken /\ Running' = NoToken /\ Added' = FALSE
      /\ UNCHANGED Waiting
  <2>1. Running # NoToken /\ Running' = NoToken
    BY <1>1, IdleAssumption DEF Running
  <2>2. Added' = FALSE
    BY <1>2 DEF Added
  <2>3. UNCHANGED Waiting
    BY <1>1 DEF Waiting, MapQ, Request
  <2> QED BY <2>1, <2>2, <2>3
<1>4. IQ!End
  BY <1>1, <1>3 DEF IQ!End, Waiting, Running, Added, MapQ, Request
<1> QED
  BY <1>4 DEF IQ!Next

-----------------------------------------------------------------------------
\* Every step of the service is a step of the abstract queue or none of its.
LEMMA StepRefines ==
  ASSUME RInv, Next PROVE IQ!Next \/ UNCHANGED IQ!vars
<1> USE DEF offerVars, jobVars, queueVars, warnVars, activeVars, flagVars, diskVars
<1>0. /\ TypeOK /\ QueueWellFormed /\ OneWorker /\ LocalsInv /\ worker \in WorkerRecords
      /\ deletions \subseteq Queued
  BY DEF RInv, Inv, TypeOK, QueueInv, QueueWellFormed
\* Steps that leave the queue and the disk alone and keep the job and its path.
<1>s. ASSUME UNCHANGED <<queue, deletions, active, activeDel, library>>,
             activeDel \/ worker'.path = worker.path
      PROVE  UNCHANGED IQ!vars
  BY <1>s, Stutter DEF Added
<1>1. ASSUME NEW t \in Tokens, NEW again \in BOOLEAN, Enqueue(t, again)
      PROVE  IQ!Next \/ UNCHANGED IQ!vars
  <2>1. \/ UNCHANGED queue
        \/ queue' = Append(queue, t) /\ t \notin Queued /\ t # active
    BY <1>1 DEF Enqueue
  <2>2. UNCHANGED <<deletions, active, activeDel, library, worker>>
    BY <1>1 DEF Enqueue
  <2>3. CASE UNCHANGED queue
    BY <2>2, <2>3, <1>s
  <2>4. CASE queue' = Append(queue, t) /\ t \notin Queued /\ t # active
    BY <2>2, <2>4, <1>0, AcceptRefines
  <2> QED BY <2>1, <2>3, <2>4
<1>2. ASSUME NEW t \in Tokens, DeleteNow(t) PROVE IQ!Next
  <2>1. t \notin Queued
    BY <1>2, EmptySeq DEF DeleteNow, Queued
  <2> QED BY <1>2, <2>1, <1>0, AcceptRefines DEF DeleteNow
<1>3. ASSUME NEW t \in Tokens, DeleteBusy(t) PROVE IQ!Next \/ UNCHANGED IQ!vars
  <2>1. UNCHANGED <<active, activeDel, library, worker>>
    BY <1>3 DEF DeleteBusy
  <2>2. CASE t \in Queued
    <3>1. deletions' = deletions \cup {t} /\ UNCHANGED queue
      BY <1>3, <2>2 DEF DeleteBusy
    <3> QED BY <2>1, <2>2, <3>1, <1>0, ReplaceRefines
  <2>3. CASE t \notin Queued /\ queue' = Append(queue, t)
                           /\ deletions' = deletions \cup {t}
    BY <2>1, <2>3, <1>0, AcceptRefines
  <2>4. CASE UNCHANGED <<queue, deletions>>
    BY <2>1, <2>4, <1>s
  <2> QED BY <1>3, <2>2, <2>3, <2>4 DEF DeleteBusy
<1>4. ASSUME NEW t \in Tokens, DeleteRefused(t) PROVE UNCHANGED IQ!vars
  BY <1>4, <1>s DEF DeleteRefused
<1>5. ASSUME NEW t \in Tokens, Cancel(t) PROVE IQ!Next \/ UNCHANGED IQ!vars
  <2>1. UNCHANGED <<active, activeDel, library, worker>>
    BY <1>5 DEF Cancel
  <2>2. CASE active = t
    BY <1>5, <2>1, <2>2, <1>s DEF Cancel
  <2>3. CASE active # t
    BY <1>5, <2>1, <2>3, <1>0, WithdrawRefines DEF Cancel, DropMark
  <2> QED BY <2>2, <2>3
<1>6. CASE StopDownloads
  <2>1. /\ queue' = <<>> /\ deletions' = {}
        /\ UNCHANGED <<active, activeDel, library, worker>>
    BY <1>6 DEF StopDownloads
  <2>2. Waiting' = <<>>
    BY <2>1, MapType, EmptySeq DEF Waiting
  <2>3. UNCHANGED <<Running, Added>>
    BY <2>1 DEF Running, Added
  <2>4. IQ!Drop
    BY <2>1, <2>2, <2>3 DEF IQ!Drop, Waiting, Running, Added, MapQ, Request
  <2> QED BY <2>4 DEF IQ!Next
<1>7. CASE DismissWarning \/ ClearStoreRefreshWarning \/ ExitRaise
  BY <1>7, <1>s DEF DismissWarning, ClearStoreRefreshWarning, ExitRaise
<1>8. CASE GuestStep
  <2>1. CASE StopJoined
    \* No worker, so no job was active.
    <3>1. active = NoToken
      BY <2>1, <1>0 DEF StopJoined, WorkerJoined, OneWorker, WorkerBusy
    <3> QED BY <2>1, <3>1, <1>s DEF StopJoined
  <2>2. CASE SpawnWorker
    <3>1. worker'.path = worker.path
      BY <2>2, <1>0 DEF SpawnWorker, WorkerGoes, WorkerRecords
    <3> QED BY <2>2, <3>1, <1>s DEF SpawnWorker
  <2>3. CASE GuestRaise \/ EnsureWorker \/ ExitLock \/ ExitJoined
    BY <2>3, <1>s DEF GuestRaise, EnsureWorker, ExitLock, ExitJoined
  <2> QED BY <1>8, <2>1, <2>2, <2>3 DEF GuestStep
<1>9. ASSUME NEW t \in Tokens, RegisterOffer(t) PROVE UNCHANGED IQ!vars
  BY <1>9, <1>s DEF RegisterOffer
<1>10. CASE Terminated
  BY <1>10, <1>s DEF Terminated, vars
<1>11. CASE WorkerTakes
  BY <1>11, BeginRefines
<1>12. CASE WorkerClears
  BY <1>12, EndRefines
<1>13. CASE CommitInstall
  BY <1>13, CommitRefines
<1>14. CASE DeletePackage
  BY <1>14, DeleteRefines
<1>15. CASE \/ WorkerExits \/ JobStart \/ JobAttempt \/ TransferDone \/ TransferStopped
            \/ TransferRetries \/ TransferFails \/ RetryDelay \/ PublishInstall
            \/ FinishInstall
  <2>1. worker'.path = worker.path
    BY <1>15, <1>0
       DEF WorkerExits, JobStart, JobAttempt, TransferDone, TransferStopped,
           TransferRetries, TransferFails, RetryDelay, PublishInstall, FinishInstall,
           WorkerEnds, WorkerGoes, WorkerRecords
  <2>2. UNCHANGED <<queue, deletions, active, activeDel, library>>
    BY <1>15
       DEF WorkerExits, JobStart, JobAttempt, TransferDone, TransferStopped,
           TransferRetries, TransferFails, RetryDelay, PublishInstall, FinishInstall
  <2> QED BY <2>1, <2>2, <1>s
<1>16. CASE DeleteStart \/ DeleteFails \/ DeleteForget \/ DeleteDone
  <2>1. activeDel
    BY <1>16, <1>0 DEF DeleteStart, DeleteFails, DeleteForget, DeleteDone, LocalsInv,
                       DeletePcs
  <2>2. UNCHANGED <<queue, deletions, active, activeDel, library>>
    BY <1>16 DEF DeleteStart, DeleteFails, DeleteForget, DeleteDone
  <2> QED BY <2>1, <2>2, <1>s
<1> QED BY <1>1, <1>2, <1>3, <1>4, <1>5, <1>6, <1>7, <1>8, <1>9, <1>10, <1>11,
           <1>12, <1>13, <1>14, <1>15, <1>16 DEF Next, GuestCall, WorkerStep

\* The download service, with its flags, its worker's thread and its mutex, is the
\* plain queue of typed requests to whoever watches the queue and the disk.
THEOREM ServiceImplementsInstallQueue == Spec => ImplementsInstallQueue
<1>1. Init => RInv
  BY InitInv, InitLocals, EmptySeq, BoundsAssumption
     DEF RInv, Init, QueueInv, QueueWellFormed, RoomForDeletion, Queued, DiskInv,
         InstalledIsOnDisk, CommittedIsFree
<1>2. RInv /\ [Next]_vars => RInv'
  <2> SUFFICES ASSUME RInv, [Next]_vars PROVE RInv'
    OBVIOUS
  <2>1. CASE Next
    BY <2>1, InvStep, QueueInvStep, DiskInvStep, LocalsStep DEF RInv
  <2>2. CASE UNCHANGED vars
    <3>1. Inv'
      BY <2>2, InvStep DEF RInv
    <3>2. QueueInv' /\ DiskInv' /\ LocalsInv'
      BY <2>2 DEF vars, queueVars, offerVars, activeVars, jobVars, diskVars, RInv,
         QueueInv, QueueWellFormed, RoomForDeletion, Queued, DiskInv,
         InstalledIsOnDisk, CommittedIsFree, LocalsInv
    <3> QED BY <3>1, <3>2 DEF RInv
  <2> QED BY <2>1, <2>2
<1>3. RInv /\ [Next]_vars => [IQ!Next]_IQ!vars
  <2> SUFFICES ASSUME RInv, [Next]_vars PROVE IQ!Next \/ UNCHANGED IQ!vars
    OBVIOUS
  <2>1. CASE UNCHANGED vars
    BY <2>1, Stutter DEF vars, queueVars, activeVars, diskVars, Added
  <2> QED BY <2>1, StepRefines
<1> QED
  BY <1>1, <1>2, <1>3, InitRefines, PTL
     DEF Spec, ImplementsInstallQueue, IQ!Spec
=============================================================================
