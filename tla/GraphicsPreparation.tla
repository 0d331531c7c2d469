-------------------------- MODULE GraphicsPreparation --------------------------
(***************************************************************************)
(* The graphics gate on the connect screen                                 *)
(* (src/src/graphics/preparation_loading.cpp): a worker extracts the       *)
(* shader inputs, the renderer then prepares a generation of pipelines,    *)
(* and the screen's script (settings/menu_payload.cpp) is held back until  *)
(* that generation is ready, or the player leaves, retries or ignores it.  *)
(*                                                                         *)
(* Four actors: the guest thread (script queries, the hooks' polls and the *)
(* publication of a new library), the extraction worker, the renderer's    *)
(* command processor (SDK patch 0027) and the host thread that closes the  *)
(* window.  A query is one step of the guest thread, cut where it takes    *)
(* the extraction's mutex or waits for a join, and before the renderer's   *)
(* Begin.                                                                  *)
(*                                                                         *)
(* Abstracted: the stores the worker writes (PreparationLedger); the       *)
(* renderer's phases before a terminal one; what the labels show; a        *)
(* configuration is the content epoch and whether the inputs were known,   *)
(* the settings and versions in it being fixed for a boot.                 *)
(***************************************************************************)
EXTENDS Naturals

CONSTANTS
  MaxEpoch,    \* bound: library changes
  MaxAttempts  \* bound: entries of the connect screen, and retries

ASSUME BoundsAssumption == MaxEpoch \in Nat /\ MaxAttempts \in Nat

VARIABLES
  screen,      \* the connect screen is up
  asked,       \* rbbz_graphics_pending, the script's property
  contentReady, pending, released, failed, ignored, seeded,  \* the gate's flags
  generation,  \* the generation the attempt owns, or 0
  progress,    \* the last snapshot of the renderer's controller
  extraction,  \* extraction_state: 0 idle, 1 working, 2 complete, 3 failed
  worker,      \* the extraction thread: running, and asked to stop
  inputs,      \* inputs_known
  epoch,       \* content_epoch
  gpu,         \* the renderer's controller
  guest,       \* where the guest thread is
  host,        \* the closing thread: open, join (holds the mutex), closed
  attempts

vars == <<screen, asked, contentReady, pending, released, failed, ignored, seeded,
          generation, progress, extraction, worker, inputs, epoch, gpu, guest,
          host, attempts>>

gateVars   == <<contentReady, pending, released, failed, ignored>>
scriptVars == <<screen, asked, attempts>>
workVars   == <<extraction, worker, inputs>>

Configs == [epoch : 0 .. MaxEpoch, inputs : BOOLEAN]
Phases  == {"idle", "active", "succeeded", "short", "cancelled"}
Views   == [gen : Nat, key : Configs, phase : Phases]
NoView  == [gen |-> 0, key |-> [epoch |-> 0, inputs |-> FALSE], phase |-> "idle"]

PreparationTypeOK ==
  /\ {screen, asked, contentReady, pending, released, failed, ignored, seeded,
      inputs} \subseteq BOOLEAN
  /\ generation \in Nat
  /\ progress \in Views
  /\ extraction \in 0 .. 3
  /\ worker \in [running : BOOLEAN, stop : BOOLEAN]
  /\ epoch \in 0 .. MaxEpoch
  /\ gpu \in [gen : Nat, key : Configs, phase : Phases, cancel : BOOLEAN]
  /\ guest \in {"idle", "start", "begin", "join to exit", "join to enter"}
  /\ host \in {"open", "closing", "join", "closed"}
  /\ attempts \in 0 .. MaxAttempts

Init ==
  /\ screen = FALSE /\ asked = FALSE /\ attempts = 0
  /\ contentReady = FALSE /\ pending = FALSE /\ released = FALSE
  /\ failed = FALSE /\ ignored = FALSE /\ seeded = FALSE
  /\ generation = 0 /\ progress = NoView
  /\ extraction = 0 /\ worker = [running |-> FALSE, stop |-> FALSE]
  /\ inputs = FALSE /\ epoch = 0
  /\ gpu = [gen |-> 0, key |-> NoView.key, phase |-> "idle", cancel |-> FALSE]
  /\ guest = "idle" /\ host = "open"

-----------------------------------------------------------------------------
Config  == [epoch |-> epoch, inputs |-> inputs]
View    == [gen |-> gpu.gen, key |-> gpu.key, phase |-> gpu.phase]
Closing == host # "open"
LockFree == guest \notin {"join to exit", "join to enter"} /\ host # "join"
Finished(view) == view.phase \in {"succeeded", "short", "cancelled"}
Ready(view) == view.gen = generation /\ view.phase = "succeeded"

-----------------------------------------------------------------------------
(* PollLoading                                                             *)

\* The entry checks that leave everything alone.
NothingToPoll == Closing \/ ~contentReady \/ failed \/ ignored

\* FailAttempt.
Fails == failed' = TRUE

MayStart == ~Closing /\ ~seeded /\ extraction = 0

\* No generation yet: the predecessor retires first, then the worker is started.
PollExtraction ==
  /\ ~NothingToPoll /\ generation = 0
  /\ progress' = View
  /\ guest' = IF gpu.phase = "active" THEN guest ELSE "start"
  /\ UNCHANGED <<extraction, worker, failed, seeded, generation, gpu>>

SeedStarted == seeded \/ extraction # 0  \* faulty variant
SeedDone == seeded \/ extraction = 2

\* StartExtraction, under the mutex and with a look at the flag of its own, then
\* what its state says: failed, still working, or the renderer's turn.
StartExtraction ==
  /\ guest = "start" /\ LockFree
  /\ IF MayStart
     THEN /\ extraction' = 1 /\ worker' = [running |-> TRUE, stop |-> FALSE]
          /\ guest' = "idle"
          /\ UNCHANGED <<failed, seeded>>
     ELSE /\ UNCHANGED <<extraction, worker>>
          /\ \/ extraction = 3 /\ Fails /\ guest' = "idle" /\ UNCHANGED seeded
             \/ /\ extraction # 3 /\ SeedDone
                /\ seeded' = TRUE /\ guest' = "begin" /\ UNCHANGED failed
             \/ /\ extraction # 3 /\ ~SeedDone
                /\ guest' = "idle" /\ UNCHANGED <<failed, seeded>>
  /\ UNCHANGED <<scriptVars, contentReady, pending, released, ignored, inputs,
                 generation, progress, epoch, gpu, host>>

\* BeginShaderStoragePreparation, and the generation it returned.  The window may
\* have closed since the poll's check.
Begins ==
  /\ guest = "begin" /\ guest' = "idle"
  /\ \/ /\ gpu.phase # "active"
        /\ gpu' = [gen |-> gpu.gen + 1, key |-> Config, phase |-> "active",
                   cancel |-> FALSE]
        /\ generation' = gpu'.gen
        /\ progress' = [gen |-> gpu'.gen, key |-> Config, phase |-> "active"]
        /\ UNCHANGED failed
     \/ Fails /\ UNCHANGED <<gpu, generation, progress>>
  /\ UNCHANGED <<scriptVars, contentReady, pending, released, ignored, seeded,
                 workVars, epoch, host>>

NeverMoved == FALSE  \* faulty variant: the comparison is dropped
Moved == gpu.gen = generation /\ gpu.key # Config

DropGeneration == generation' = 0

\* The generation is running or done: retire it when the configuration moved,
\* fail when it did not succeed.
PollGeneration ==
  /\ ~NothingToPoll /\ generation # 0
  /\ progress' = View
  /\ \/ /\ Moved
        /\ gpu' = [gpu EXCEPT !.cancel = TRUE]
        /\ DropGeneration
        /\ UNCHANGED failed
     \/ /\ ~Moved
        /\ IF gpu.gen # generation \/ gpu.phase \in {"short", "cancelled"}
           THEN Fails ELSE UNCHANGED failed
        /\ UNCHANGED <<gpu, generation>>
  /\ UNCHANGED <<extraction, worker, seeded, guest>>

NoPoll ==
  /\ NothingToPoll
  /\ UNCHANGED <<progress, generation, gpu, failed, extraction, worker, seeded,
                 guest>>

Polls == guest = "idle" /\ (NoPoll \/ PollExtraction \/ PollGeneration)

-----------------------------------------------------------------------------
(* The guest thread                                                        *)

\* The hooks' poll, and the script's queries that only read.
Poll ==
  /\ screen /\ Polls
  /\ UNCHANGED <<scriptVars, contentReady, pending, released, ignored, inputs,
                 epoch, host>>

\* ObserveContentLoading: the native content test has passed.
ContentLoadingReady ==
  /\ screen /\ guest = "idle" /\ ~Closing /\ ~contentReady
  /\ contentReady' = TRUE
  /\ UNCHANGED <<scriptVars, pending, released, failed, ignored, seeded, generation,
                 progress, workVars, epoch, gpu, guest, host>>

\* Confirm, Option or the automatic route: rbbz_begin_graphics.
Request ==
  /\ screen /\ guest = "idle" /\ ~asked
  /\ asked' = TRUE
  /\ pending' = (pending \/ ~released)
  /\ UNCHANGED <<screen, attempts, contentReady, released, failed, ignored, seeded,
                 generation, progress, workVars, epoch, gpu, guest, host>>

\* The ready query: the poll, then the release, in one call.
Releases == pending /\ contentReady /\ (ignored \/ (~failed' /\ generation' # 0
              /\ progress'.gen = generation' /\ progress'.phase = "succeeded"))

QueryReady ==
  /\ screen /\ asked /\ Polls
  /\ guest' = "idle" /\ Releases
  /\ released' = TRUE /\ pending' = FALSE /\ asked' = FALSE
  /\ UNCHANGED <<screen, attempts, contentReady, ignored, inputs, epoch, host>>

\* A on the failed screen: only the graphics part is tried again.
Retry ==
  /\ screen /\ asked /\ guest = "idle" /\ attempts < MaxAttempts
  /\ pending /\ contentReady /\ failed /\ ~released
  /\ LockFree /\ ~worker.running
  /\ attempts' = attempts + 1
  /\ seeded' = (seeded \/ extraction = 2)
  /\ extraction' = IF seeded' THEN extraction ELSE 0
  /\ gpu' = IF generation # 0 /\ ~Finished(progress)
            THEN [gpu EXCEPT !.cancel = TRUE] ELSE gpu
  /\ generation' = 0 /\ failed' = FALSE /\ progress' = NoView
  /\ UNCHANGED <<screen, asked, contentReady, pending, released, ignored, worker,
                 inputs, epoch, guest, host>>

\* B on the failed screen: the menu without preparation, for this process.  When
\* no storage was opened yet it is opened for learning.
Ignore ==
  /\ screen /\ asked /\ guest = "idle"
  /\ pending /\ contentReady /\ failed /\ ~released
  /\ ignored' = TRUE /\ released' = TRUE /\ pending' = FALSE /\ asked' = FALSE
  /\ IF generation = 0 /\ gpu.phase # "active"
     THEN gpu' = [gen |-> gpu.gen + 1, key |-> Config, phase |-> "active",
                  cancel |-> FALSE]
     ELSE UNCHANGED gpu
  /\ UNCHANGED <<screen, attempts, contentReady, failed, seeded, generation, progress,
                 workVars, epoch, guest, host>>

\* Cancel: the worker is asked to stop and waited for, under the mutex.
CancelStarts(next) ==
  /\ LockFree
  /\ pending' = FALSE /\ contentReady' = FALSE
  /\ worker' = [worker EXCEPT !.stop = worker.running]
  /\ guest' = next
  /\ UNCHANGED <<released, failed, ignored, seeded, generation, extraction, inputs,
                 epoch, gpu, host>>

Joined == ~worker.running

ForgetOutcome == extraction' = IF seeded' THEN extraction ELSE 0

CancelEnds ==
  /\ Joined
  /\ seeded' = (seeded \/ extraction = 2)
  /\ ForgetOutcome
  /\ IF generation # 0 /\ ~Finished(progress)
     THEN progress' = View /\ gpu' = [gpu EXCEPT !.cancel = TRUE]
     ELSE UNCHANGED <<progress, gpu>>
  /\ generation' = 0

\* BeginLoadingAttempt, as the screen comes up: a live ready generation is kept.
Fresh ==
  /\ contentReady' = FALSE /\ pending' = FALSE /\ released' = FALSE
  /\ failed' = FALSE

EnterScreen ==
  /\ ~screen /\ guest = "idle" /\ ~Closing /\ attempts < MaxAttempts
  /\ attempts' = attempts + 1 /\ screen' = TRUE /\ asked' = FALSE
  /\ progress' = IF generation # 0 THEN View ELSE progress
  /\ \/ /\ (generation # 0 /\ Ready(View)) \/ ignored
        /\ Fresh
        /\ UNCHANGED <<ignored, seeded, generation, workVars, epoch, gpu, guest, host>>
     \/ /\ ~((generation # 0 /\ Ready(View)) \/ ignored)
        /\ CancelStarts("join to enter")

AttemptBegins ==
  /\ guest = "join to enter" /\ guest' = "idle"
  /\ CancelEnds /\ Fresh
  /\ UNCHANGED <<scriptVars, ignored, worker, inputs, epoch, host>>

\* The screen is left: by the release, by Back, or by an error.
ExitScreen ==
  /\ screen /\ guest = "idle"
  /\ screen' = FALSE /\ asked' = FALSE
  /\ \/ /\ released
        /\ UNCHANGED <<gateVars, seeded, generation, workVars, epoch, gpu, guest,
                       host>>
     \/ /\ ~released /\ CancelStarts("join to exit")
  /\ UNCHANGED <<attempts, progress>>

ExitEnds ==
  /\ guest = "join to exit" /\ guest' = "idle"
  /\ CancelEnds
  /\ UNCHANGED <<scriptVars, gateVars, worker, inputs, epoch, host>>

\* NoteContentChanged: a new library was published, on a guest frame.
NoteContentChanged ==
  /\ guest = "idle" /\ epoch < MaxEpoch
  /\ epoch' = epoch + 1
  /\ UNCHANGED <<scriptVars, gateVars, seeded, generation, progress, workVars, gpu,
                 guest, host, attempts>>

-----------------------------------------------------------------------------
(* The worker, the renderer and the closing thread                         *)

EndsLocked == LockFree  \* faulty variant: the worker wants the mutex to end
EndsUnlocked == TRUE

\* The last look at the stop flag may come before or after the request.
WorkerEnds ==
  /\ worker.running /\ EndsUnlocked
  /\ \E end \in {2, 3} :
       /\ extraction' \in IF worker.stop THEN {0, end} ELSE {end}
       /\ inputs' = (inputs \/ end = 2)
  /\ worker' = [running |-> FALSE, stop |-> FALSE]
  /\ UNCHANGED <<scriptVars, gateVars, seeded, generation, progress, epoch, gpu,
                 guest, host>>

\* The controller's Finish, first terminal wins; a cancel is seen at a slice.
GpuEnds ==
  /\ gpu.phase = "active"
  /\ \E end \in {"succeeded", "short"} \cup (IF gpu.cancel THEN {"cancelled"} ELSE {}) :
       /\ gpu' = [gpu EXCEPT !.phase = end]
  /\ UNCHANGED <<scriptVars, gateVars, seeded, generation, progress, workVars, epoch,
                 guest, host>>

\* CloseLoading: the flag, the join under the mutex, the renderer's cancel.
CloseLoading ==
  /\ \/ host = "open" /\ host' = "closing" /\ UNCHANGED <<worker, gpu>>
     \/ /\ host = "closing" /\ LockFree /\ host' = "join"
        /\ worker' = [worker EXCEPT !.stop = worker.running]
        /\ UNCHANGED gpu
     \/ /\ host = "join" /\ ~worker.running /\ host' = "closed"
        /\ gpu' = [gpu EXCEPT !.cancel = TRUE]
        /\ UNCHANGED worker
  /\ UNCHANGED <<scriptVars, gateVars, seeded, generation, progress, extraction, inputs,
                 epoch, guest>>

GuestStep == Poll \/ QueryReady \/ StartExtraction \/ Begins \/ AttemptBegins \/ ExitEnds

Next ==
  \/ GuestStep \/ ContentLoadingReady \/ Request \/ Retry \/ Ignore
  \/ EnterScreen \/ ExitScreen \/ NoteContentChanged
  \/ WorkerEnds \/ GpuEnds \/ CloseLoading

Spec == Init /\ [][Next]_vars

\* The screen polls every frame; the extraction and the renderer finish; a close
\* that was begun goes on.
Fairness ==
  /\ WF_vars(Poll) /\ WF_vars(QueryReady)
  /\ WF_vars(StartExtraction) /\ WF_vars(Begins) /\ WF_vars(AttemptBegins \/ ExitEnds)
  /\ WF_vars(WorkerEnds) /\ WF_vars(GpuEnds)
  /\ WF_vars(Closing /\ CloseLoading)

FairSpec == Spec /\ Fairness

-----------------------------------------------------------------------------
(* Properties                                                              *)

\* The menu is released for the generation the attempt owns, succeeded, begun
\* with the inputs known and with the configuration of this moment; a generation
\* of an older library, a cancelled or a short one releases nothing.  Once the
\* window closes nothing is compared any more, and it no longer matters.
ReleasedIsCurrent ==
  [][~released /\ released' /\ ~ignored' /\ ~Closing =>
       /\ gpu.gen = generation' /\ gpu.phase = "succeeded"
       /\ gpu.key = Config /\ inputs]_vars

\* The ledger and the stores have one writer: while a generation is owned, whose
\* result the guest thread records there, no extraction runs, and none runs or
\* starts once the close has returned, whatever the guest thread was doing.
OneLedgerWriter == generation # 0 \/ host = "closed" => ~worker.running

\* A request at the gate is answered, by the menu or a failure, however the
\* library changes, unless the player leaves or the window closes; and the close
\* returns, for nobody who is waited for waits for the mutex.
GateAnswers ==
  /\ (pending /\ contentReady) ~> (released \/ failed \/ ~pending \/ Closing)
  /\ Closing ~> host = "closed"
=============================================================================
