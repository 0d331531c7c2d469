-------------------------- MODULE Application_proofs --------------------------
(***************************************************************************)
(* The safety of the parts of MCApplication, for every value of their      *)
(* constants: of each part's own specification, and of the behaviours of   *)
(* MCApplication, which take every step from one of the parts.             *)
(***************************************************************************)
EXTENDS MCApplication, Sequences, TLAPS, FiniteSetTheorems, WellFoundedInduction

\* What a step of the application is for each part: one of its own, or none.
LEMMA PartsStep ==
  ASSUME [AnyStep]_allVars
  PROVE  /\ [Restart!Next]_(Restart!vars) /\ [Next]_vars
         /\ IF which = "warm music" THEN [Music(WarmCount, WarmCaches)!Next]_musVars
            ELSE [Music(ColdCount, ColdCaches)!Next]_musVars
         /\ which' = which
BY DEF AnyStep, allVars, OnlyRestart, OnlyGate, OnlyMusic, OnlyWarm, rstVars, musVars,
       Restart!vars

-----------------------------------------------------------------------------
(* The restart.  Two facts make OneGame inductive: a child that was spawned*)
(* keeps the coordinator's request in flight for good, so that no later    *)
(* request spawns another, and the pid leaves the parent only when it has  *)
(* gone, so that a child that finds nobody there is alone.                 *)

SpawnStays == rstSpawned # 0 => rstRequested /\ rstPhase = "ready"

PidIsParents == rstPid # "parent" => ~Restart!Alive

RestartInv ==
  /\ Restart!RestartTypeOK
  /\ Restart!OneGame
  /\ SpawnStays
  /\ PidIsParents

LEMMA RestartInit == Restart!Init => RestartInv
<1> SUFFICES ASSUME Restart!Init PROVE RestartInv
  OBVIOUS
<1>1. Restart!RestartTypeOK
  <2>1. rstRequested \in BOOLEAN
    BY Zenon DEF Restart!Init
  <2>2. rstSpawned \in 0 .. 1 /\ rstAsks \in 0 .. MaxAsks
    BY AsksAssumption DEF Restart!Init
  <2> QED BY <2>1, <2>2 DEF Restart!Init, Restart!RestartTypeOK
<1>2. Restart!OneGame
  BY DEF Restart!Init, Restart!OneGame, Restart!Alive
<1>3. SpawnStays /\ PidIsParents
  BY DEF Restart!Init, SpawnStays, PidIsParents, Restart!Alive
<1> QED
  BY <1>1, <1>2, <1>3 DEF RestartInv

\* Every step keeps the invariant.
LEMMA RestartKeeps == RestartInv /\ [Restart!Next]_(Restart!vars) => RestartInv'
<1> USE AsksAssumption
        DEF RestartInv, Restart!RestartTypeOK, Restart!OneGame, SpawnStays, PidIsParents,
            Restart!Alive, Restart!coordinatorVars
<1> SUFFICES ASSUME RestartInv, [Restart!Next]_(Restart!vars) PROVE RestartInv'
  OBVIOUS
<1>1. CASE Restart!AskRestart
  BY <1>1 DEF Restart!AskRestart
<1>2. CASE Restart!RequestRefused
  <2>1. CASE Restart!InFlight
    BY <1>2, <2>1 DEF Restart!RequestRefused, Restart!Judge
  <2>2. CASE ~Restart!InFlight
    \* Nothing was spawned: a spawned child keeps the request in flight.
    <3>1. rstSpawned = 0
      BY <2>2 DEF Restart!InFlight
    <3> QED BY <1>2, <2>2, <3>1 DEF Restart!RequestRefused, Restart!Judge
  <2> QED BY <2>1, <2>2
<1>3. CASE Restart!RequestSpawns
  <2>1. rstSpawned = 0
    BY <1>3 DEF Restart!RequestSpawns, Restart!MaySpawn, Restart!InFlight
  <2> QED BY <1>3, <2>1 DEF Restart!RequestSpawns, Restart!Judge
<1>4. CASE Restart!PostClose
  BY <1>4 DEF Restart!PostClose
<1>5. CASE Restart!GameEnds
  BY <1>5 DEF Restart!GameEnds
<1>6. CASE Restart!PidReused
  BY <1>6 DEF Restart!PidReused
<1>7. CASE Restart!OpensParent
  BY <1>7 DEF Restart!OpensParent
<1>8. CASE Restart!WaitEnds
  BY <1>8 DEF Restart!WaitEnds, Restart!AfterTimeout
<1>9. CASE UNCHANGED Restart!vars
  BY <1>9 DEF Restart!vars
<1> QED
  BY <1>1, <1>2, <1>3, <1>4, <1>5, <1>6, <1>7, <1>8, <1>9
     DEF Restart!Next, Restart!ChildStep

\* The old process and its child are never the game at once, and one boot starts
\* one child, whatever requests, failed spawns, crashes and reused pids come.
THEOREM OneGameAlways == Restart!Spec => []OneGame
<1>1. RestartInv => OneGame
  BY DEF RestartInv, OneGame
<1> QED
  BY <1>1, RestartInit, RestartKeeps, PTL DEF Restart!Spec

-----------------------------------------------------------------------------
(* The graphics gate.  Why the ledger has one writer: a started extraction *)
(* holds the work state at 1 and finds the inputs unseeded, and the        *)
(* generation begins only with the inputs seeded, which only a finished    *)
(* extraction brings about and nothing takes back.                         *)

RecordsOK ==
  /\ worker \in [running : BOOLEAN, stop : BOOLEAN]
  /\ gpu.gen \in Nat
  /\ gpu = [gen |-> gpu.gen, key |-> gpu.key, phase |-> gpu.phase,
            cancel |-> gpu.cancel]

\* While the extraction runs its outcome is open and nothing is prepared.
ExtractionIsOpen ==
  worker.running => extraction = 1 /\ ~seeded /\ generation = 0

\* The guest thread is on its way to a generation, and has the inputs for it.
OnTheWay ==
  /\ guest \in {"start", "begin"} => generation = 0
  /\ guest = "begin" => seeded

\* A generation, and the inputs it is made from, come from a finished extraction.
InputsKnown ==
  /\ extraction = 2 => inputs
  /\ seeded => inputs
  /\ generation # 0 => seeded

ClosedIsQuiet == host = "closed" => ~worker.running

GateInv == RecordsOK /\ ExtractionIsOpen /\ OnTheWay /\ InputsKnown /\ ClosedIsQuiet

-----------------------------------------------------------------------------
\* Every step keeps the invariant.
LEMMA GateKeeps == GateInv /\ [Next]_vars => GateInv'
<1> USE DEF GateInv, RecordsOK, ExtractionIsOpen, OnTheWay, InputsKnown, ClosedIsQuiet,
            gateVars, scriptVars, workVars
<1> SUFFICES ASSUME GateInv, [Next]_vars PROVE GateInv'
  OBVIOUS
<1>p. ASSUME Polls, UNCHANGED <<inputs, host>>
      PROVE  GateInv' /\ guest' \in {"idle", "start"}
  <2>1. CASE NoPoll
    BY <1>p, <2>1 DEF Polls, NoPoll
  <2>2. CASE PollExtraction
    BY <1>p, <2>2 DEF Polls, PollExtraction
  <2>3. CASE PollGeneration
    BY <1>p, <2>3 DEF Polls, PollGeneration, DropGeneration
  <2> QED BY <1>p, <2>1, <2>2, <2>3 DEF Polls
<1>c. ASSUME CancelEnds, guest' = "idle", UNCHANGED <<worker, inputs, host>>
      PROVE  GateInv'
  BY <1>c DEF CancelEnds, Joined, ForgetOutcome
<1>s. ASSUME NEW next \in {"join to exit", "join to enter"}, CancelStarts(next)
      PROVE  GateInv'
  BY <1>s DEF CancelStarts
<1>1. CASE Poll
  BY <1>1, <1>p DEF Poll
<1>2. CASE QueryReady
  BY <1>2, <1>p DEF QueryReady
<1>3. CASE StartExtraction
  <2>1. CASE MayStart
    <3>1. /\ ~seeded /\ host = "open" /\ generation = 0
          /\ extraction' = 1 /\ worker' = [running |-> TRUE, stop |-> FALSE]
          /\ guest' = "idle" /\ UNCHANGED <<seeded, generation, gpu, inputs, host>>
      BY <1>3, <2>1 DEF StartExtraction, MayStart, Closing
    <3> QED BY <3>1
  <2>2. CASE ~MayStart
    BY <1>3, <2>2 DEF StartExtraction, SeedDone
  <2> QED BY <2>1, <2>2
<1>4. CASE Begins
  <2>1. ~worker.running /\ seeded
    BY <1>4 DEF Begins
  <2> QED BY <1>4, <2>1 DEF Begins
<1>5. CASE AttemptBegins
  BY <1>5, <1>c DEF AttemptBegins
<1>6. CASE ExitEnds
  BY <1>6, <1>c DEF ExitEnds
<1>7. CASE ContentLoadingReady \/ Request \/ NoteContentChanged
  BY <1>7 DEF ContentLoadingReady, Request, NoteContentChanged
<1>8. CASE Retry
  <2>1. /\ ~worker.running /\ guest = "idle" /\ generation' = 0
        /\ UNCHANGED <<worker, inputs, guest, host>>
        /\ gpu' \in {gpu, [gpu EXCEPT !.cancel = TRUE]}
        /\ extraction' \in {extraction, 0}
        /\ seeded' => seeded \/ extraction = 2
    BY <1>8 DEF Retry
  <2> QED BY <2>1
<1>9. CASE Ignore
  BY <1>9 DEF Ignore
<1>10. CASE EnterScreen
  <2>1. CASE CancelStarts("join to enter")
    BY <2>1, <1>s
  <2>2. CASE UNCHANGED <<seeded, generation, extraction, worker, inputs, gpu, guest, host>>
    BY <2>2
  <2> QED BY <1>10, <2>1, <2>2 DEF EnterScreen
<1>11. CASE ExitScreen
  <2>1. CASE CancelStarts("join to exit")
    BY <2>1, <1>s
  <2>2. CASE UNCHANGED <<seeded, generation, extraction, worker, inputs, gpu, guest, host>>
    BY <2>2
  <2> QED BY <1>11, <2>1, <2>2 DEF ExitScreen
<1>12. CASE WorkerEnds
  BY <1>12 DEF WorkerEnds
<1>13. CASE GpuEnds
  BY <1>13 DEF GpuEnds
<1>14. CASE CloseLoading
  BY <1>14 DEF CloseLoading
<1>15. CASE UNCHANGED vars
  BY <1>15 DEF vars
<1> QED
  BY <1>1, <1>2, <1>3, <1>4, <1>5, <1>6, <1>7, <1>8, <1>9, <1>10, <1>11, <1>12,
     <1>13, <1>14, <1>15 DEF Next, GuestStep

LEMMA GateInit == Init => GateInv
BY DEF Init, GateInv, RecordsOK, ExtractionIsOpen, OnTheWay, InputsKnown,
       ClosedIsQuiet, NoView

LEMMA GateInvAlways == Spec => []GateInv
BY GateInit, GateKeeps, PTL DEF Spec

\* The ledger has one writer and a closed window no extraction, however the
\* player enters, leaves, retries and closes.
THEOREM OneLedgerWriterAlways == Spec => []OneLedgerWriter
<1>1. GateInv => OneLedgerWriter
  BY DEF GateInv, ExtractionIsOpen, ClosedIsQuiet, OneLedgerWriter
<1> QED BY <1>1, GateInvAlways, PTL

-----------------------------------------------------------------------------
\* The only step that releases the menu without the player's Ignore is the ready
\* query, whose poll has just compared the generation's configuration.
LEMMA ReleaseStep ==
  ASSUME GateInv, Next, ~released, released', ~ignored', ~Closing
  PROVE  /\ gpu.gen = generation' /\ gpu.phase = "succeeded"
         /\ gpu.key = Config /\ inputs
<1> USE DEF gateVars, scriptVars, workVars
<1>1. QueryReady
  <2>1. ~Ignore
    BY DEF Ignore
  <2> QED BY <2>1
       DEF Next, GuestStep, Poll, StartExtraction, Begins, AttemptBegins, ExitEnds,
           ContentLoadingReady, Request, Retry, EnterScreen, ExitScreen,
           NoteContentChanged, WorkerEnds, GpuEnds, CloseLoading, CancelStarts, Fresh
<1>2. /\ ~failed' /\ generation' # 0 /\ contentReady /\ ~ignored
      /\ progress'.gen = generation' /\ progress'.phase = "succeeded"
  BY <1>1 DEF QueryReady, Releases
<1>3. PollGeneration /\ ~Moved
  <2>1. ~NoPoll
    BY <1>2 DEF NoPoll, NothingToPoll
  <2>2. ~PollExtraction
    BY <1>2 DEF PollExtraction
  <2>3. PollGeneration
    BY <1>1, <2>1, <2>2 DEF QueryReady, Polls
  <2> QED BY <1>2, <2>3 DEF PollGeneration, DropGeneration
<1>4. progress' = View /\ generation' = generation
  BY <1>3 DEF PollGeneration
<1>5. gpu.gen = generation' /\ gpu.phase = "succeeded"
  BY <1>2, <1>4 DEF View
<1>6. gpu.key = Config
  BY <1>3, <1>4, <1>5 DEF Moved
<1>7. inputs
  BY <1>2, <1>4 DEF GateInv, InputsKnown
<1> QED BY <1>5, <1>6, <1>7

\* The menu is released only for the current library's generation.
THEOREM ReleasedIsCurrentAlways == Spec => ReleasedIsCurrent
<1>1. GateInv /\ [Next]_vars =>
        [~released /\ released' /\ ~ignored' /\ ~Closing =>
           /\ gpu.gen = generation' /\ gpu.phase = "succeeded"
           /\ gpu.key = Config /\ inputs]_vars
  BY ReleaseStep
<1> QED BY <1>1, GateInvAlways, PTL DEF Spec, ReleasedIsCurrent

-----------------------------------------------------------------------------
(* The gate's types: the flags, and what is a number or a record.          *)

FlagsOK ==
  /\ screen \in BOOLEAN /\ asked \in BOOLEAN /\ contentReady \in BOOLEAN
  /\ pending \in BOOLEAN /\ released \in BOOLEAN /\ failed \in BOOLEAN
  /\ ignored \in BOOLEAN /\ seeded \in BOOLEAN /\ inputs \in BOOLEAN

Controllers == [gen : Nat, key : Configs, phase : Phases, cancel : BOOLEAN]
Workers == [running : BOOLEAN, stop : BOOLEAN]

ValuesOK ==
  /\ generation \in Nat
  /\ progress \in Views
  /\ extraction \in 0 .. 3
  /\ worker \in Workers
  /\ epoch \in 0 .. MaxEpoch
  /\ gpu \in Controllers
  /\ guest \in {"idle", "start", "begin", "join to exit", "join to enter"}
  /\ host \in {"open", "closing", "join", "closed"}
  /\ attempts \in 0 .. MaxAttempts

LEMMA PreparationTypes == PreparationTypeOK <=> FlagsOK /\ ValuesOK
BY DEF PreparationTypeOK, FlagsOK, ValuesOK, Controllers, Workers

LEMMA ViewTyped ==
  ASSUME FlagsOK, ValuesOK PROVE View \in Views /\ Config \in Configs /\ NoView \in Views
<1>1. Config \in Configs
  BY DEF FlagsOK, ValuesOK, Config, Configs
<1>2. View \in Views
  BY DEF ValuesOK, View, Views, Controllers
<1>3. NoView \in Views
  BY BoundsAssumption DEF NoView, Views, Configs, Phases
<1> QED BY <1>1, <1>2, <1>3

LEMMA FlagsKept == FlagsOK /\ [Next]_vars => FlagsOK'
<1> SUFFICES ASSUME FlagsOK, [Next]_vars PROVE FlagsOK'
  OBVIOUS
<1> USE DEF FlagsOK, gateVars, scriptVars, workVars
<1>1. CASE Poll
  BY <1>1, Zenon DEF Poll, Polls, NoPoll, PollExtraction, PollGeneration, Fails
<1>2. CASE QueryReady
  BY <1>2, Zenon DEF QueryReady, Polls, NoPoll, PollExtraction, PollGeneration, Fails
<1>3. CASE StartExtraction
  BY <1>3, Zenon DEF StartExtraction, Fails
<1>4. CASE Begins
  BY <1>4, Zenon DEF Begins, Fails
<1>5. CASE AttemptBegins
  BY <1>5, Zenon DEF AttemptBegins, CancelEnds, Fresh
<1>6. CASE ExitEnds
  BY <1>6, Zenon DEF ExitEnds, CancelEnds
<1>7. CASE ContentLoadingReady \/ Request \/ NoteContentChanged
  BY <1>7, Zenon DEF ContentLoadingReady, Request, NoteContentChanged
<1>8. CASE Retry
  BY <1>8, Zenon DEF Retry
<1>9. CASE Ignore
  BY <1>9, Zenon DEF Ignore
<1>10. CASE EnterScreen
  BY <1>10, Zenon DEF EnterScreen, CancelStarts, Fresh
<1>11. CASE ExitScreen
  BY <1>11, Zenon DEF ExitScreen, CancelStarts
<1>12. CASE WorkerEnds
  BY <1>12, Zenon DEF WorkerEnds
<1>13. CASE GpuEnds
  BY <1>13, Zenon DEF GpuEnds
<1>14. CASE CloseLoading
  BY <1>14, Zenon DEF CloseLoading
<1>15. CASE UNCHANGED vars
  BY <1>15, Zenon DEF vars
<1> QED
  BY <1>1, <1>2, <1>3, <1>4, <1>5, <1>6, <1>7, <1>8, <1>9, <1>10, <1>11, <1>12,
     <1>13, <1>14, <1>15 DEF Next, GuestStep

\* What the steps do to the renderer's controller keeps its type.
LEMMA ControllerTyped ==
  ASSUME FlagsOK, ValuesOK
  PROVE  /\ [gpu EXCEPT !.cancel = TRUE] \in Controllers
         /\ \A end \in Phases : [gpu EXCEPT !.phase = end] \in Controllers
         /\ [gen |-> gpu.gen + 1, key |-> Config, phase |-> "active", cancel |-> FALSE]
              \in Controllers
         /\ [gen |-> gpu.gen + 1, key |-> Config, phase |-> "active"] \in Views
<1>1. Config \in Configs
  BY ViewTyped
<1>2. gpu \in [gen : Nat, key : Configs, phase : Phases, cancel : BOOLEAN]
  BY DEF ValuesOK, Controllers
<1>3. gpu.gen + 1 \in Nat
  BY <1>2
<1>4. "active" \in Phases
  BY DEF Phases
<1>5. [gpu EXCEPT !.cancel = TRUE] \in Controllers
  BY <1>2 DEF Controllers
<1>6. \A end \in Phases : [gpu EXCEPT !.phase = end] \in Controllers
  BY <1>2 DEF Controllers
<1> QED BY <1>1, <1>3, <1>4, <1>5, <1>6 DEF Controllers, Views

LEMMA WorkerTyped ==
  ASSUME ValuesOK
  PROVE  /\ [worker EXCEPT !.stop = worker.running] \in Workers
         /\ \A r \in BOOLEAN : [running |-> r, stop |-> FALSE] \in Workers
BY DEF ValuesOK, Workers

LEMMA ValuesKept == FlagsOK /\ ValuesOK /\ [Next]_vars => ValuesOK'
<1> SUFFICES ASSUME FlagsOK, ValuesOK, [Next]_vars PROVE ValuesOK'
  OBVIOUS
<1>t. /\ generation \in Nat /\ progress \in Views /\ extraction \in 0 .. 3
      /\ worker \in Workers /\ gpu \in Controllers
  BY DEF ValuesOK
<1>e. epoch \in 0 .. MaxEpoch
  BY DEF ValuesOK
<1>a. attempts \in 0 .. MaxAttempts
  BY DEF ValuesOK
<1>n. /\ guest \in {"idle", "start", "begin", "join to exit", "join to enter"}
      /\ host \in {"open", "closing", "join", "closed"}
  BY DEF ValuesOK
<1>g. /\ [gpu EXCEPT !.cancel = TRUE] \in Controllers
      /\ \A end \in Phases : [gpu EXCEPT !.phase = end] \in Controllers
      /\ [gen |-> gpu.gen + 1, key |-> Config, phase |-> "active", cancel |-> FALSE]
           \in Controllers
      /\ [gen |-> gpu.gen + 1, key |-> Config, phase |-> "active"] \in Views
  BY ControllerTyped
<1>w. /\ [worker EXCEPT !.stop = worker.running] \in Workers
      /\ [running |-> TRUE, stop |-> FALSE] \in Workers
      /\ [running |-> FALSE, stop |-> FALSE] \in Workers
  BY WorkerTyped
<1>v. View \in Views /\ NoView \in Views
  BY ViewTyped
<1> USE DEF gateVars, scriptVars, workVars
<1>p. ASSUME Polls
      PROVE  /\ generation' \in Nat /\ progress' \in Views /\ extraction' \in 0 .. 3
             /\ worker' \in Workers /\ gpu' \in Controllers
             /\ guest' \in {"idle", "start"}
  <2>0. guest = "idle"
    BY <1>p DEF Polls
  <2>1. CASE NoPoll
    BY <1>t, <2>0, <2>1 DEF NoPoll
  <2>2. CASE PollExtraction
    <3>1. guest' \in {guest, "start"}
      BY <2>2 DEF PollExtraction
    <3> QED BY <1>t, <1>v, <2>0, <2>2, <3>1 DEF PollExtraction
  <2>3. CASE PollGeneration
    <3>1. gpu' \in {gpu, [gpu EXCEPT !.cancel = TRUE]}
      BY <2>3 DEF PollGeneration
    <3>2. generation' \in {0, generation}
      BY <2>3 DEF PollGeneration, DropGeneration
    <3>3. progress' = View /\ UNCHANGED <<extraction, worker, guest>>
      BY <2>3 DEF PollGeneration
    <3>4. generation' \in Nat
      BY <1>t, <3>2
    <3>5. gpu' \in Controllers
      BY <1>t, <1>g, <3>1
    <3>6. progress' \in Views /\ worker' \in Workers /\ guest' = "idle"
      BY <1>t, <1>v, <2>0, <3>3
    <3>7. extraction' \in 0 .. 3
      BY <1>t, <3>3
    <3> QED BY <3>4, <3>5, <3>6, <3>7
  <2> QED BY <1>p, <2>1, <2>2, <2>3 DEF Polls
<1>c. ASSUME CancelEnds
      PROVE  /\ gpu' \in Controllers /\ progress' \in Views /\ generation' = 0
             /\ extraction' \in 0 .. 3
  <2>1. gpu' \in {gpu, [gpu EXCEPT !.cancel = TRUE]} /\ progress' \in {progress, View}
    BY <1>c, Zenon DEF CancelEnds
  <2>2. extraction' = extraction \/ extraction' = 0
    BY <1>c, Zenon DEF CancelEnds, ForgetOutcome
  <2>3. generation' = 0
    BY <1>c, Zenon DEF CancelEnds
  <2>4. gpu' \in Controllers /\ progress' \in Views
    BY <1>t, <1>v, <1>g, <2>1
  <2>5. extraction' \in 0 .. 3
    BY <1>t, <2>2
  <2> QED BY <2>3, <2>4, <2>5
<1>1. attempts' \in 0 .. MaxAttempts
  <2>1. attempts' = attempts \/ (attempts' = attempts + 1 /\ attempts < MaxAttempts)
    <3>1. CASE Poll \/ QueryReady \/ StartExtraction \/ Begins \/ AttemptBegins \/ ExitEnds
      BY <3>1, Zenon DEF Poll, QueryReady, StartExtraction, Begins, AttemptBegins, ExitEnds
    <3>2. CASE ContentLoadingReady \/ Request \/ Retry \/ Ignore \/ EnterScreen
      BY <3>2, Zenon DEF ContentLoadingReady, Request, Retry, Ignore, EnterScreen
    <3>3. CASE ExitScreen \/ NoteContentChanged \/ WorkerEnds \/ GpuEnds \/ CloseLoading
      BY <3>3, Zenon DEF ExitScreen, NoteContentChanged, WorkerEnds, GpuEnds, CloseLoading
    <3>4. CASE UNCHANGED vars
      BY <3>4, Zenon DEF vars
    <3> QED BY <3>1, <3>2, <3>3, <3>4 DEF Next, GuestStep
  <2> QED BY <1>a, <2>1, BoundsAssumption
<1>2. epoch' \in 0 .. MaxEpoch
  <2>1. epoch' = epoch \/ (epoch' = epoch + 1 /\ epoch < MaxEpoch)
    <3>1. CASE Poll \/ QueryReady \/ StartExtraction \/ Begins \/ AttemptBegins \/ ExitEnds
      BY <3>1, Zenon DEF Poll, QueryReady, StartExtraction, Begins, AttemptBegins, ExitEnds
    <3>2. CASE ContentLoadingReady \/ Request \/ Retry \/ Ignore \/ EnterScreen
      BY <3>2, Zenon DEF ContentLoadingReady, Request, Retry, Ignore, EnterScreen,
                         CancelStarts
    <3>3. CASE ExitScreen \/ NoteContentChanged \/ WorkerEnds \/ GpuEnds \/ CloseLoading
      BY <3>3, Zenon DEF ExitScreen, NoteContentChanged, WorkerEnds, GpuEnds, CloseLoading,
                         CancelStarts
    <3>4. CASE UNCHANGED vars
      BY <3>4, Zenon DEF vars
    <3> QED BY <3>1, <3>2, <3>3, <3>4 DEF Next, GuestStep
  <2> QED BY <1>e, <2>1, BoundsAssumption
<1>3. host' \in {"open", "closing", "join", "closed"}
  <2>1. CASE Poll \/ QueryReady \/ StartExtraction \/ Begins \/ AttemptBegins \/ ExitEnds
    BY <1>n, <2>1, Zenon DEF Poll, QueryReady, StartExtraction, Begins, AttemptBegins, ExitEnds
  <2>2. CASE ContentLoadingReady \/ Request \/ Retry \/ Ignore \/ EnterScreen
    BY <1>n, <2>2, Zenon DEF ContentLoadingReady, Request, Retry, Ignore, EnterScreen,
                             CancelStarts
  <2>3. CASE ExitScreen \/ NoteContentChanged \/ WorkerEnds \/ GpuEnds \/ CloseLoading
    BY <1>n, <2>3, Zenon DEF ExitScreen, NoteContentChanged, WorkerEnds, GpuEnds,
                             CloseLoading, CancelStarts
  <2>4. CASE UNCHANGED vars
    BY <1>n, <2>4, Zenon DEF vars
  <2> QED BY <2>1, <2>2, <2>3, <2>4 DEF Next, GuestStep
<1> DEFINE Rest == /\ generation' \in Nat /\ progress' \in Views
                   /\ extraction' \in 0 .. 3
                   /\ worker' \in Workers /\ gpu' \in Controllers
                   /\ guest' \in {"idle", "start", "begin", "join to exit",
                                  "join to enter"}
<1>4. Rest
  <2>1. CASE Poll
    BY <1>p, <2>1 DEF Poll
  <2>2. CASE QueryReady
    BY <1>p, <2>2 DEF QueryReady
  <2>3. CASE StartExtraction
    <3>1. worker' \in {worker, [running |-> TRUE, stop |-> FALSE]}
      BY <2>3, Zenon DEF StartExtraction
    <3>2. guest' \in {"idle", "begin"} /\ extraction' \in {1, extraction}
      BY <2>3, Zenon DEF StartExtraction
    <3>3. UNCHANGED <<generation, progress, gpu>>
      BY <2>3, Zenon DEF StartExtraction
    <3>4. worker' \in Workers
      BY <1>t, <1>w, <3>1
    <3>5. extraction' \in 0 .. 3
      BY <1>t, <3>2
    <3>6. generation' \in Nat /\ progress' \in Views /\ gpu' \in Controllers
      BY <1>t, <3>3
    <3> QED BY <3>2, <3>4, <3>5, <3>6
  <2>4. CASE Begins
    <3>0. guest' = "idle" /\ UNCHANGED <<extraction, worker>>
      BY <2>4 DEF Begins
    <3>1. CASE UNCHANGED <<gpu, generation, progress>>
      BY <1>t, <3>0, <3>1
    <3>2. CASE /\ gpu' = [gen |-> gpu.gen + 1, key |-> Config, phase |-> "active",
                          cancel |-> FALSE]
               /\ generation' = gpu'.gen
               /\ progress' = [gen |-> gpu'.gen, key |-> Config, phase |-> "active"]
      <4>1. gpu'.gen = gpu.gen + 1
        BY <3>2
      <4>2. gpu' \in Controllers /\ progress' \in Views
        BY <1>g, <3>2, <4>1
      <4>3. generation' \in Nat
        BY <3>2, <4>2 DEF Controllers
      <4> QED BY <1>t, <3>0, <4>2, <4>3
    <3> QED BY <2>4, <3>1, <3>2, Zenon DEF Begins
  <2>5. CASE AttemptBegins
    <3>1. CancelEnds /\ UNCHANGED worker /\ guest' = "idle"
      BY <2>5 DEF AttemptBegins
    <3>2. worker' \in Workers
      BY <1>t, <3>1
    <3>3. 0 \in Nat
      OBVIOUS
    <3> QED BY <1>c, <3>1, <3>2, <3>3, Zenon
  <2>6. CASE ExitEnds
    <3>1. CancelEnds /\ UNCHANGED worker /\ guest' = "idle"
      BY <2>6 DEF ExitEnds
    <3>2. worker' \in Workers
      BY <1>t, <3>1
    <3>3. 0 \in Nat
      OBVIOUS
    <3> QED BY <1>c, <3>1, <3>2, <3>3, Zenon
  <2>7. CASE ContentLoadingReady \/ Request \/ NoteContentChanged \/ UNCHANGED vars
    <3>1. UNCHANGED <<generation, progress, extraction, worker, gpu, guest>>
      BY <2>7, Zenon DEF ContentLoadingReady, Request, NoteContentChanged, vars
    <3> QED BY <1>t, <1>n, <3>1
  <2>8. CASE Retry
    <3>1. gpu' \in {gpu, [gpu EXCEPT !.cancel = TRUE]} /\ extraction' \in {extraction, 0}
      BY <2>8, Zenon DEF Retry
    <3>2. generation' = 0 /\ progress' = NoView /\ UNCHANGED <<worker, guest>>
      BY <2>8, Zenon DEF Retry
    <3>3. gpu' \in Controllers
      BY <1>t, <1>g, <3>1
    <3>4. extraction' \in 0 .. 3
      BY <1>t, <3>1
    <3>5. generation' \in Nat /\ progress' \in Views /\ worker' \in Workers
      BY <1>t, <1>v, <3>2
    <3>6. guest' \in {"idle", "start", "begin", "join to exit", "join to enter"}
      BY <1>n, <3>2
    <3> QED BY <3>3, <3>4, <3>5, <3>6
  <2>9. CASE Ignore
    <3>1. gpu' \in {gpu, [gen |-> gpu.gen + 1, key |-> Config, phase |-> "active",
                          cancel |-> FALSE]}
      BY <2>9, Zenon DEF Ignore
    <3>2. UNCHANGED <<generation, progress, extraction, worker, guest>>
      BY <2>9, Zenon DEF Ignore
    <3> QED BY <1>t, <1>n, <1>g, <3>1, <3>2
  <2>10. CASE EnterScreen
    <3>1. worker' \in {worker, [worker EXCEPT !.stop = worker.running]}
      BY <2>10, Zenon DEF EnterScreen, CancelStarts
    <3>2. progress' \in {progress, View} /\ guest' \in {guest, "join to enter"}
      BY <2>10, Zenon DEF EnterScreen, CancelStarts
    <3>3. UNCHANGED <<generation, extraction, gpu>>
      BY <2>10, Zenon DEF EnterScreen, CancelStarts
    <3> QED BY <1>t, <1>n, <1>v, <1>w, <3>1, <3>2, <3>3
  <2>11. CASE ExitScreen
    <3>1. worker' \in {worker, [worker EXCEPT !.stop = worker.running]}
      BY <2>11, Zenon DEF ExitScreen, CancelStarts
    <3>2. guest' \in {guest, "join to exit"}
      BY <2>11, Zenon DEF ExitScreen, CancelStarts
    <3>3. UNCHANGED <<progress, generation, extraction, gpu>>
      BY <2>11, Zenon DEF ExitScreen, CancelStarts
    <3> QED BY <1>t, <1>n, <1>w, <3>1, <3>2, <3>3
  <2>12. CASE WorkerEnds
    <3>1. PICK end \in {2, 3} : extraction' \in IF worker.stop THEN {0, end} ELSE {end}
      BY <2>12, Zenon DEF WorkerEnds
    <3>2. extraction' = 0 \/ extraction' = end
      BY <3>1
    <3>3. worker' = [running |-> FALSE, stop |-> FALSE]
          /\ UNCHANGED <<generation, progress, gpu, guest>>
      BY <2>12, Zenon DEF WorkerEnds
    <3>4. extraction' \in 0 .. 3
      BY <3>2
    <3>5. worker' \in Workers
      BY <1>w, <3>3
    <3>6. generation' \in Nat /\ progress' \in Views /\ gpu' \in Controllers
      BY <1>t, <3>3
    <3>7. guest' \in {"idle", "start", "begin", "join to exit", "join to enter"}
      BY <1>n, <3>3
    <3> QED BY <3>4, <3>5, <3>6, <3>7
  <2>13. CASE GpuEnds
    <3>1. \E end \in Phases : gpu' = [gpu EXCEPT !.phase = end]
      BY <2>13 DEF GpuEnds, Phases
    <3>2. UNCHANGED <<generation, progress, extraction, worker, guest>>
      BY <2>13 DEF GpuEnds
    <3> QED BY <1>t, <1>n, <1>g, <3>1, <3>2
  <2>14. CASE CloseLoading
    <3>1. /\ worker' \in {worker, [worker EXCEPT !.stop = worker.running]}
          /\ gpu' \in {gpu, [gpu EXCEPT !.cancel = TRUE]}
      BY <2>14, Zenon DEF CloseLoading
    <3>2. UNCHANGED <<generation, progress, extraction, guest>>
      BY <2>14, Zenon DEF CloseLoading
    <3> QED BY <1>t, <1>n, <1>g, <1>w, <3>1, <3>2
  <2> QED
    BY <2>1, <2>2, <2>3, <2>4, <2>5, <2>6, <2>7, <2>8, <2>9, <2>10, <2>11, <2>12,
       <2>13, <2>14 DEF Next, GuestStep
<1> QED BY <1>1, <1>2, <1>3, <1>4, Zenon DEF ValuesOK

LEMMA TypesInit == Init => FlagsOK /\ ValuesOK
<1> SUFFICES ASSUME Init PROVE FlagsOK /\ ValuesOK
  OBVIOUS
<1>1. FlagsOK
  BY Zenon DEF Init, FlagsOK
<1>2. NoView.key \in Configs /\ "idle" \in Phases
  BY BoundsAssumption DEF NoView, Configs, Phases
<1>3. progress \in Views
  BY <1>2 DEF Init, NoView, Views
<1>4. gpu \in Controllers
  BY <1>2 DEF Init, Controllers
<1>5. worker \in Workers
  BY DEF Init, Workers
<1>6. epoch \in 0 .. MaxEpoch /\ attempts \in 0 .. MaxAttempts
  BY BoundsAssumption DEF Init
<1>7. /\ generation \in Nat /\ extraction \in 0 .. 3 
      /\ guest \in {"idle", "start", "begin", "join to exit", "join to enter"}
      /\ host \in {"open", "closing", "join", "closed"}
  BY DEF Init
<1> QED BY <1>1, <1>3, <1>4, <1>5, <1>6, <1>7, Zenon DEF ValuesOK

\* The gate's type invariant, for every bound on library changes and attempts.
THEOREM PreparationTypesAlways == Spec => []PreparationTypeOK
<1>1. Init => FlagsOK /\ ValuesOK
  BY TypesInit
<1>2. (FlagsOK /\ ValuesOK) /\ [Next]_vars => (FlagsOK /\ ValuesOK)'
  BY FlagsKept, ValuesKept
<1> QED BY <1>1, <1>2, PreparationTypes, PTL DEF Spec

-----------------------------------------------------------------------------
(* The music.  A step changes the stream or the mounted packages, never    *)
(* both: it evicts, and keeps what the stream pins, or it hands the stream *)
(* to a song of a package that is mounted.  Nothing of that depends on the *)
(* library, so both libraries of MCApplication satisfy it alike.           *)

\* All the argument needs of the music record: it has the stream.
MusicShape == "stream" \in DOMAIN musMusic

HeardFrom(s) == s[1] \in musMounted \cup {0}

\* The packages of the stream and of the player's target.
Pinned == {s[1] : s \in {musMusic.stream, musMusic.target} \ {Nothing}}

Keeps == \A p \in musMounted : p \in Pinned => p \in musMounted'

Evicts == Keeps /\ musMusic' = musMusic
Hands ==
  /\ musMounted' = musMounted
  /\ \/ musMusic'.stream \in {musMusic.stream, Nothing}
     \/ HeardFrom(musMusic'.stream)

\* What a handoff, to the successor or to silence, leaves to be heard.
LEMMA MusicStartsNext ==
  ASSUME NEW c, NEW k, NEW d, NEW m, "stream" \in DOMAIN m, Music(c, k)!StartsNext(d, m)
  PROVE  MusicShape' /\ (musMusic'.stream = Nothing \/ HeardFrom(musMusic'.stream))
<1>1. PICK e \in Music(c, k)!Planned(d) :
        LET s == Music(c, k)!NextSong(e) IN
        IF s # Nothing /\ Music(c, k)!Ready(s, musMounted)
        THEN musMusic' = Music(c, k)!Plays(m, s)
        ELSE musMusic' = [m EXCEPT !.mode = "waiting", !.stream = Nothing, !.active = FALSE]
  BY DEF Music!StartsNext
<1> DEFINE s == Music(c, k)!NextSong(e)
<1>2. CASE s # Nothing /\ Music(c, k)!Ready(s, musMounted)
  <2>1. musMusic' = [m EXCEPT !.mode = "playing", !.stream = s, !.active = TRUE]
    BY <1>1, <1>2 DEF Music!Plays
  <2>2. musMusic'.stream = s
    BY <2>1
  <2>3. "stream" \in DOMAIN musMusic'
    BY <2>1
  <2> QED BY <1>2, <2>2, <2>3 DEF MusicShape, HeardFrom, Music!Ready
<1>3. CASE ~(s # Nothing /\ Music(c, k)!Ready(s, musMounted))
  BY <1>1, <1>3 DEF MusicShape
<1> QED BY <1>2, <1>3

\* The guest's two steps that evict keep what the stream and the target pin.
LEMMA MusicMounts ==
  ASSUME NEW c, NEW k, NEW r, NEW d, Music(c, k)!Mounts(r, d) PROVE Keeps
<1>1. \A p \in musMounted : p \in Pinned => p \in Music(c, k)!RetireCold(musMounted, d)
  BY DEF Music!RetireCold, Music!Warm, Pinned
<1> QED BY <1>1 DEF Music!Mounts, Keeps

LEMMA MusicWarmsNext ==
  ASSUME NEW c, NEW k, Music(c, k)!WarmsNext PROVE Keeps
<1>1. \A d : \A p \in musMounted : p \in Pinned => p \in Music(c, k)!RetireCold(musMounted, d)
  BY DEF Music!RetireCold, Music!Warm, Pinned
<1> QED BY <1>1 DEF Music!WarmsNext, Keeps

LEMMA MusicSchedule ==
  ASSUME NEW c, NEW k, Music(c, k)!SchedulePreparation PROVE Keeps
<1>1. Keeps \/ UNCHANGED musMounted
  BY MusicWarmsNext DEF Music!SchedulePreparation, Music!Probes, Music!AsksCatalogue
<1> QED BY <1>1 DEF Keeps

LEMMA MusicStep ==
  ASSUME NEW c, NEW k, MusicShape, Music(c, k)!Next
  PROVE  MusicShape' /\ (Evicts \/ Hands)
<1> USE DEF Keeps, Evicts
<1> DEFINE Quiet == UNCHANGED <<musMounted, musMusic>>
<1>q. ASSUME Quiet PROVE MusicShape' /\ Evicts
  BY <1>q DEF MusicShape
<1>n. "stream" \in DOMAIN Music(c, k)!NoCommand(musMusic)
      /\ Music(c, k)!NoCommand(musMusic).stream = musMusic.stream
  BY DEF MusicShape, Music!NoCommand
<1>h. ASSUME musMusic' = Music(c, k)!NoCommand(musMusic), UNCHANGED musMounted
      PROVE  MusicShape' /\ Hands
  BY <1>h, <1>n DEF MusicShape, Hands
<1>s. ASSUME NEW d, NEW m, "stream" \in DOMAIN m, Music(c, k)!StartsNext(d, m), UNCHANGED musMounted
      PROVE  MusicShape' /\ Hands
  BY <1>s, MusicStartsNext DEF Hands
<1>1. CASE Music(c, k)!WorkerStep \/ Music(c, k)!WorkerStops
  <2>1. Quiet
    BY <1>1 DEF Music!WorkerStep, Music!WorkerStops, Music!WorkerTakes, Music!PreparesPackage,
                Music!ReadsRecord, Music!EndsBatch
  <2> QED BY <2>1, <1>q
<1>2. CASE \E why \in {"poll", "ask", "loading"} : Music(c, k)!GuestBegins(why)
  <2>1. Quiet
    BY <1>2 DEF Music!GuestBegins
  <2> QED BY <2>1, <1>q
<1>3. CASE Music(c, k)!Publishes
  <2>1. musMusic' = musMusic
    BY <1>3 DEF Music!Publishes
  <2>2. Keeps
    BY <1>3, MusicMounts DEF Music!Publishes, Music!PublishCatalogue, Music!PublishPackage
  <2> QED BY <2>1, <2>2 DEF MusicShape
<1>4. CASE Music(c, k)!Schedules
  <2>1. musMusic' = musMusic /\ Keeps
    BY <1>4, MusicSchedule DEF Music!Schedules
  <2> QED BY <2>1 DEF MusicShape
<1>5. CASE Music(c, k)!MenuLoads
  BY <1>5, <1>n, <1>s DEF Music!MenuLoads
<1>6. CASE Music(c, k)!Observes
  <2>0. UNCHANGED musMounted
    BY <1>6 DEF Music!Observes
  <2>1. CASE Music(c, k)!SongEnds
    <3>1. CASE \E d, m : "stream" \in DOMAIN m /\ Music(c, k)!StartsNext(d, m)
      BY <2>0, <3>1, <1>s
    <3>2. CASE musMusic' = [Music(c, k)!NoCommand(musMusic) EXCEPT !.mode = "off",
                                               !.stream = Nothing, !.active = FALSE]
      BY <2>0, <3>2, <1>n DEF MusicShape, Hands
    <3> QED BY <2>1, <3>1, <3>2, <1>n DEF Music!SongEnds
  <2>2. CASE Music(c, k)!SongFails
    BY <2>0, <2>2, <1>n, <1>s DEF Music!SongFails
  <2>3. CASE Music(c, k)!SongIsHeard
    <3>1. musMusic' = Music(c, k)!NoCommand(musMusic) \/ musMusic' = musMusic
      BY <2>3 DEF Music!SongIsHeard
    <3> QED BY <2>0, <3>1, <1>h, <1>q
  <2>4. CASE Music(c, k)!LibraryArrives
    BY <2>0, <2>4, <1>s DEF Music!LibraryArrives, MusicShape
  <2>5. CASE UNCHANGED musMusic
    BY <2>0, <2>5, <1>q
  <2> QED BY <1>6, <2>1, <2>2, <2>3, <2>4, <2>5 DEF Music!Observes
<1>7. CASE Music(c, k)!Navigates
  <2>1. CASE Music(c, k)!PassesCommand
    <3>1. UNCHANGED musMounted /\ (musMusic' = Music(c, k)!NoCommand(musMusic) \/ musMusic' = musMusic)
      BY <2>1 DEF Music!PassesCommand, Music!otherParts
    <3> QED BY <3>1, <1>h, <1>q
  <2>2. CASE Music(c, k)!TakesCommand
    <3>1. PICK cmd, t : musMusic' = [musMusic EXCEPT !.command = cmd, !.target = t]
      BY <2>2 DEF Music!TakesCommand
    <3>2. UNCHANGED musMounted
      BY <2>2 DEF Music!TakesCommand, Music!otherParts
    <3> QED BY <3>1, <3>2 DEF MusicShape, Hands
  <2>3. CASE Music(c, k)!FindsTarget
    <3>1. PICK t : musMusic' = [musMusic EXCEPT !.target = t]
      BY <2>3 DEF Music!FindsTarget
    <3>2. UNCHANGED musMounted
      BY <2>3 DEF Music!FindsTarget, Music!otherParts
    <3> QED BY <3>1, <3>2 DEF MusicShape, Hands
  <2>4. CASE Music(c, k)!WaitsForTarget
    <3>1. musMusic' = musMusic /\ Keeps
      BY <2>4, MusicSchedule DEF Music!WaitsForTarget
    <3> QED BY <3>1 DEF MusicShape
  <2>5. CASE Music(c, k)!GivesUpTarget
    BY <2>5, <1>h DEF Music!GivesUpTarget, Music!otherParts
  <2>6. CASE Music(c, k)!StartsTarget
    <3>1. musMusic' = [[musMusic EXCEPT !.mode = "playing", !.stream = musMusic.target,
                                        !.active = TRUE] EXCEPT !.started = TRUE]
      BY <2>6 DEF Music!StartsTarget, Music!Plays
    <3>2. UNCHANGED musMounted /\ HeardFrom(musMusic.target)
      BY <2>6 DEF Music!StartsTarget, Music!otherParts, Music!Ready, HeardFrom
    <3>3. musMusic'.stream = musMusic.target /\ "stream" \in DOMAIN musMusic'
      BY <3>1 DEF MusicShape
    <3> QED BY <3>2, <3>3 DEF MusicShape, Hands
  <2> QED BY <1>7, <2>1, <2>2, <2>3, <2>4, <2>5, <2>6 DEF Music!Navigates
<1>8. CASE Music(c, k)!ForgetMenuMusic
  <2>1. musMusic' = [Music(c, k)!NoCommand(musMusic) EXCEPT !.mode = "off", !.stream = Nothing,
                                               !.active = FALSE]
        /\ UNCHANGED musMounted
    BY <1>8 DEF Music!ForgetMenuMusic
  <2> QED BY <2>1, <1>n DEF MusicShape, Hands
<1>9. CASE Music(c, k)!CloseQueuedPool
  BY <1>9, <1>q DEF Music!CloseQueuedPool
<1>10. CASE Music(c, k)!FileCloses
  BY <1>10, <1>q DEF Music!FileCloses
<1> QED
  BY <1>1, <1>2, <1>3, <1>4, <1>5, <1>6, <1>7, <1>8, <1>9, <1>10
     DEF Music!Next, Music!GuestStep

MusicInv == MusicShape /\ StreamIsMounted

LEMMA MusicInit ==
  ASSUME NEW c, NEW k, Music(c, k)!Init PROVE MusicInv
BY DEF Music!Init, MusicInv, MusicShape, StreamIsMounted, Music!StreamIsMounted, Music!Streaming

LEMMA MusicKeeps ==
  ASSUME NEW c, NEW k, MusicInv, [Music(c, k)!Next]_musVars PROVE MusicInv'
<1> USE DEF MusicInv
<1>1. MusicShape' /\ (Evicts \/ Hands)
  <2>1. CASE UNCHANGED musVars
    BY <2>1 DEF musVars, MusicShape, Evicts, Keeps
  <2> QED BY <2>1, MusicStep
<1> DEFINE Streaming == IF musMusic.stream = Nothing THEN {} ELSE {musMusic.stream[1]}
<1>s. StreamIsMounted <=> Streaming \subseteq musMounted \cup {0}
  BY DEF StreamIsMounted, Music!StreamIsMounted, Music!Streaming
<1>t. StreamIsMounted' <=> Streaming' \subseteq musMounted' \cup {0}
  BY DEF StreamIsMounted, Music!StreamIsMounted, Music!Streaming
<1>2. Streaming \subseteq musMounted \cup {0}
  BY <1>s
<1>3. CASE Evicts
  <2>1. musMusic.stream # Nothing => musMusic.stream[1] \in Pinned
    BY DEF Pinned
  <2>2. Streaming \subseteq musMounted' \cup {0}
    BY <1>2, <1>3, <2>1 DEF Evicts, Keeps
  <2>3. Streaming' = Streaming
    BY <1>3 DEF Evicts
  <2> QED BY <1>1, <1>t, <2>2, <2>3
<1>4. CASE Hands
  BY <1>1, <1>2, <1>4, <1>t DEF Hands, HeardFrom
<1> QED BY <1>1, <1>3, <1>4

\* The package of the song that plays stays mounted, whatever the library, the
\* window and the number of places.
THEOREM StreamIsMountedAlways ==
  Music(ColdCount, ColdCaches)!Spec => []StreamIsMounted
<1>1. Music(ColdCount, ColdCaches)!Init => MusicInv
  BY MusicInit
<1>2. MusicInv /\ [Music(ColdCount, ColdCaches)!Next]_(Music(ColdCount, ColdCaches)!vars) => MusicInv'
  BY MusicKeeps DEF Music!vars, musVars
<1>3. MusicInv => StreamIsMounted
  BY DEF MusicInv
<1> QED BY <1>1, <1>2, <1>3, PTL DEF Music!Spec

-----------------------------------------------------------------------------
(* The types of the music.  The playlist is the hard part: what PlanAhead  *)
(* draws, what Select moves the cursor over and what a command waits for   *)
(* are songs of the library only because a target that Next or Previous    *)
(* was promised stays in the playlist until the cursor goes there (Linked),*)
(* whatever is drawn, discovered or blocked in between.  The lemmas are    *)
(* about any library: c is the number of songs of each package, k the      *)
(* caches a boot may find.                                                 *)

LEMMA Least ==
  ASSUME NEW T, T \subseteq Nat, T # {}
  PROVE  \E m \in T : \A n \in T : m <= n
<1>1. PICK m \in T : \A n \in T : ~(n < m)
  <2>1. PICK m \in T : \A n \in T : <<n, m>> \notin OpToRel(<, Nat)
    BY WFMin, NatLessThanWellFounded, Zenon
  <2> QED BY <2>1, Zenon DEF OpToRel
<1> QED BY <1>1

\* Of numbers up to n the greatest is n less the least of the distances to n.
LEMMA Greatest ==
  ASSUME NEW n \in Nat, NEW T, T \subseteq 0 .. n, T # {}
  PROVE  \E m \in T : \A i \in T : m >= i
<1> DEFINE D == {n - i : i \in T}
<1>1. D \subseteq Nat /\ D # {}
  <2>1. \A i \in T : n - i \in Nat
    OBVIOUS
  <2> QED BY <2>1
<1> HIDE DEF D
<1>2. PICK l \in D : \A j \in D : l <= j
  BY <1>1, Least, Zenon
<1>3. PICK m \in T : l = n - m
  BY <1>2 DEF D
<1>4. \A i \in T : m >= i
  BY <1>2, <1>3 DEF D
<1> QED BY <1>4

Lists(list, s) == \E i \in DOMAIN list : list[i] = s

SessionOK(c, k, d) ==
  /\ DOMAIN d = {"discovered", "blocked", "strikes", "remaining", "past", "current", "ahead", "complete"}
  /\ d.remaining \subseteq Music(c, k)!Songs
  /\ d.current \in Music(c, k)!Songs \cup {Nothing}
  /\ d.ahead \in Seq(Music(c, k)!Songs)
  /\ d.past \in Seq(Music(c, k)!Songs) /\ Len(d.past) <= Behind

Grown(c, k, d, e) ==
  /\ SessionOK(c, k, e)
  /\ e.current = d.current /\ e.past = d.past
  /\ \A s : Lists(d.ahead, s) => Lists(e.ahead, s)

LEMMA DrawGrows ==
  ASSUME NEW c, NEW k, NEW d, SessionOK(c, k, d), NEW e \in Music(c, k)!Draw(d)
  PROVE  Grown(c, k, d, e)
<1> DEFINE S == Music(c, k)!Songs
           deck == IF d.remaining # {} THEN d.remaining
                   ELSE {s \in Music(c, k)!SongsOf(d.discovered) : Music(c, k)!Usable(d, s)}
           rest == deck \ {Music(c, k)!LastPlanned(d)}
           Kept(s) == IF Music(c, k)!Usable(d, s) THEN Append(d.ahead, s) ELSE d.ahead
<1>1. deck \subseteq S
  BY DEF SessionOK, Music!SongsOf
<1>2. Music(c, k)!Draw(d) =
        IF Music(c, k)!Upcoming(d) >= Music(c, k)!Wanted(d) THEN {d}
        ELSE IF rest = {} THEN {[d EXCEPT !.remaining = deck]}
        ELSE {[d EXCEPT !.remaining = deck \ {s},
                        !.ahead = Kept(s)] : s \in rest}
  BY Zenon DEF Music!Draw
<1>3. rest \subseteq deck
  OBVIOUS
<1>k. \A s \in S : Kept(s) \in Seq(S) /\ \A t : Lists(d.ahead, t) => Lists(Kept(s), t)
  BY DEF SessionOK, Lists
<1> HIDE DEF deck, rest, S, Kept
<1>4. \/ e = d
      \/ e = [d EXCEPT !.remaining = deck]
      \/ \E s \in rest : e = [d EXCEPT !.remaining = deck \ {s}, !.ahead = Kept(s)]
  <2>1. CASE Music(c, k)!Upcoming(d) >= Music(c, k)!Wanted(d)
    <3>1. Music(c, k)!Draw(d) = {d}
      BY <1>2, <2>1, Zenon
    <3> QED BY <3>1, Zenon
  <2>2. CASE ~(Music(c, k)!Upcoming(d) >= Music(c, k)!Wanted(d)) /\ rest = {}
    <3>1. Music(c, k)!Draw(d) = {[d EXCEPT !.remaining = deck]}
      BY <1>2, <2>2, Zenon
    <3> QED BY <3>1, Zenon
  <2>3. CASE ~(Music(c, k)!Upcoming(d) >= Music(c, k)!Wanted(d)) /\ rest # {}
    <3>1. Music(c, k)!Draw(d)
            = {[d EXCEPT !.remaining = deck \ {s}, !.ahead = Kept(s)] : s \in rest}
      BY <1>2, <2>3, Zenon
    <3> QED BY <3>1, Zenon
  <2> QED BY <2>1, <2>2, <2>3, Zenon
<1>5. CASE e = d
  BY <1>5 DEF Grown
<1>6. CASE e = [d EXCEPT !.remaining = deck]
  BY <1>1, <1>6 DEF Grown, SessionOK, S
<1>7. ASSUME NEW s \in rest, e = [d EXCEPT !.remaining = deck \ {s}, !.ahead = Kept(s)]
      PROVE  Grown(c, k, d, e)
  BY <1>7, <1>1, <1>3, <1>k DEF Grown, SessionOK, S
<1> QED BY <1>4, <1>5, <1>6, <1>7

\* The instance's own copies of the library's operators.
LEMMA SameFinite == ASSUME NEW c, NEW k PROVE \A S : Music(c, k)!IsFiniteSet(S) = IsFiniteSet(S)
BY DEF Music!IsFiniteSet, IsFiniteSet

LEMMA SameCardinality ==
  ASSUME NEW c, NEW k PROVE \A S : Music(c, k)!Cardinality(S) = Cardinality(S)
BY Zenon DEF Music!Cardinality, Cardinality

\* A library has finitely many songs, and its packages are numbered from 1.
LEMMA LibraryIsFinite ==
  ASSUME NEW c, NEW k, IsLibrary(c, k)
  PROVE  /\ Cardinality(Music(c, k)!Songs) \in Nat
         /\ Cardinality(Music(c, k)!Packages) \in Nat
         /\ Music(c, k)!Packages = 1 .. Cardinality(Music(c, k)!Packages)
         /\ DOMAIN c \subseteq Nat /\ IsFiniteSet(DOMAIN c)
<1> DEFINE n == Cardinality(DOMAIN c) - 1
<1>1. IsFiniteSet(DOMAIN c) /\ 0 \in DOMAIN c /\ c \in [0 .. n -> Nat]
  BY DEF IsLibrary
<1>2. n \in Nat /\ DOMAIN c = 0 .. n
  <2>1. Cardinality(DOMAIN c) \in Nat
    BY <1>1, FS_CardinalityType
  <2> QED BY <1>1, <2>1
<1> HIDE DEF n
<1>3. Music(c, k)!Packages = 1 .. n
  BY <1>2 DEF Music!Packages
<1>4. Cardinality(1 .. n) = n
  BY <1>2, FS_Interval
<1> DEFINE Of(p) == {<<p, i>> : i \in 1 .. c[p]}
           Sets == {Of(p) : p \in DOMAIN c}
           f == [p \in DOMAIN c |-> Of(p)]
<1>5. \A T \in Sets : IsFiniteSet(T)
  <2>1. SUFFICES ASSUME NEW p \in DOMAIN c PROVE IsFiniteSet(Of(p))
    OBVIOUS
  <2>2. c[p] \in Int /\ 1 \in Int
    BY <1>1, <1>2
  <2>3. IsFiniteSet({p}) /\ IsFiniteSet(1 .. c[p])
    BY <2>2, FS_Singleton, FS_Interval
  <2>4. IsFiniteSet({p} \X (1 .. c[p]))
    BY <2>3, FS_Product
  <2>5. Of(p) \in SUBSET ({p} \X (1 .. c[p]))
    OBVIOUS
  <2> QED BY <2>4, <2>5, FS_Subset
<1>6. IsFiniteSet(Sets)
  <2>1. f \in Surjection(DOMAIN c, Sets)
    <3> HIDE DEF Of
    <3> QED BY DEF Surjection
  <2> QED BY <1>1, <2>1, FS_Surjection
<1>7. IsFiniteSet(UNION Sets)
  BY <1>5, <1>6, FS_UNION
<1>8. Music(c, k)!Songs = UNION Sets
  BY DEF Music!Songs
<1>9. Cardinality(Music(c, k)!Songs) \in Nat
  BY <1>7, <1>8, FS_CardinalityType
<1> QED BY <1>1, <1>2, <1>3, <1>4, <1>9

\* The first n turns of PlanAhead's loop: what it may have made of d after each.
Turns(c, k, d, f, n) ==
  f = [j \in 0 .. n |-> IF j = 0 THEN {d} ELSE UNION {Music(c, k)!Draw(e) : e \in f[j - 1]}]

LEMMA TurnsExist ==
  ASSUME NEW c, NEW k, NEW d, NEW n \in Nat PROVE \E f : Turns(c, k, d, f, n)
<1> DEFINE Bad == {j \in Nat : ~ \E f : Turns(c, k, d, f, j)}
<1> SUFFICES ASSUME Bad # {} PROVE FALSE
  BY Zenon
<1>1. PICK m \in Bad : \A j \in Bad : m <= j
  <2>1. Bad \subseteq Nat
    OBVIOUS
  <2> HIDE DEF Bad
  <2> QED BY <2>1, Least, Zenon
<1>2. CASE m = 0
  <2>1. Turns(c, k, d, [j \in 0 .. 0 |-> {d}], 0)
    BY DEF Turns
  <2> QED BY <1>2, <2>1, <1>1
<1>3. CASE m # 0
  <2>1. m \in Nat /\ m - 1 \in Nat /\ ~(m <= m - 1)
    BY <1>3, <1>1
  <2>2. PICK f : Turns(c, k, d, f, m - 1)
    BY <2>1, <1>1
  <2> DEFINE Step(T) == UNION {Music(c, k)!Draw(e) : e \in T}
             g == [j \in 0 .. m |-> IF j = 0 THEN {d} ELSE Step(f[j - 1])]
  <2>3. f = [j \in 0 .. (m - 1) |-> IF j = 0 THEN {d} ELSE Step(f[j - 1])]
    BY <2>2, Zenon DEF Turns
  <2> HIDE DEF Step
  <2>4. \A j \in 0 .. m : j # 0 => g[j - 1] = f[j - 1]
    <3>1. SUFFICES ASSUME NEW j \in 0 .. (m - 1) PROVE g[j] = f[j]
      <4> HIDE DEF g
      <4> QED BY <2>1
    <3>2. j \in 0 .. m
      BY <2>1
    <3>3. g[j] = IF j = 0 THEN {d} ELSE Step(f[j - 1])
      BY <3>2
    <3> QED BY <2>3, <3>3
  <2>5. g = [j \in 0 .. m |-> IF j = 0 THEN {d} ELSE Step(g[j - 1])]
    BY <2>4
  <2>6. Turns(c, k, d, g, m)
    <3> HIDE DEF g
    <3> QED BY <2>5, Zenon DEF Turns, Step
  <2> QED BY <2>6, <1>1
<1> QED BY <1>2, <1>3

\* PlanAhead changes what is ahead and left in the deck, and loses nothing ahead.
LEMMA PlannedGrows ==
  ASSUME NEW c, NEW k, IsLibrary(c, k), NEW d, SessionOK(c, k, d),
         NEW e \in Music(c, k)!Planned(d)
  PROVE  Grown(c, k, d, e)
<1> DEFINE n == Ahead + 1 + Cardinality(Music(c, k)!Songs)
           f == CHOOSE h : Turns(c, k, d, h, n)
<1>1. n \in Nat
  BY LibraryIsFinite, WindowAssumption
<1>2. Turns(c, k, d, f, n)
  <2> HIDE DEF n
  <2> QED BY <1>1, TurnsExist, Zenon
<1>3. Music(c, k)!Planned(d) = IF d.complete THEN f[n] ELSE {d}
  <2>1. Music(c, k)!Cardinality(Music(c, k)!Songs) = Cardinality(Music(c, k)!Songs)
    BY SameCardinality
  <2>2. Music(c, k)!Planned(d) =
          LET N == Ahead + 1 + Music(c, k)!Cardinality(Music(c, k)!Songs)
              h == CHOOSE h : Turns(c, k, d, h, N)
          IN  IF d.complete THEN h[N] ELSE {d}
    BY Zenon DEF Music!Planned, Turns
  <2> QED BY <2>1, <2>2, Zenon
<1>4. Grown(c, k, d, d)
  BY DEF Grown
<1> HIDE DEF n, f
<1> DEFINE Bad == {j \in 0 .. n : \E x \in f[j] : ~Grown(c, k, d, x)}
<1>5. Bad = {}
  <2>1. SUFFICES ASSUME Bad # {} PROVE FALSE
    OBVIOUS
  <2>2. PICK m \in Bad : \A j \in Bad : m <= j
    <3>1. Bad \subseteq Nat
      OBVIOUS
    <3> HIDE DEF Bad
    <3> QED BY <2>1, <3>1, Least, Zenon
  <2>3. PICK x \in f[m] : ~Grown(c, k, d, x)
    BY <2>2
  <2>4. f[m] = IF m = 0 THEN {d} ELSE UNION {Music(c, k)!Draw(y) : y \in f[m - 1]}
    BY <1>2, <2>2, Zenon DEF Turns
  <2>5. m # 0
    BY <1>4, <2>3, <2>4
  <2>6. PICK y \in f[m - 1] : x \in Music(c, k)!Draw(y)
    BY <2>3, <2>4, <2>5
  <2>7. Grown(c, k, d, y)
    <3>1. m - 1 \in 0 .. n /\ ~(m <= m - 1)
      BY <1>1, <2>2, <2>5
    <3> QED BY <2>2, <2>6, <3>1
  <2>8. Grown(c, k, y, x)
    BY <2>6, <2>7, DrawGrows DEF Grown
  <2> QED BY <2>3, <2>7, <2>8 DEF Grown
<1>6. n \in 0 .. n
  BY <1>1
<1> QED BY <1>3, <1>4, <1>5, <1>6

\* The least and the greatest place of a list that a condition picks.
LEMMA FirstPlace ==
  ASSUME NEW c, NEW k, NEW S, NEW list \in Seq(S), NEW T, T \subseteq DOMAIN list, T # {}
  PROVE  /\ Music(c, k)!Min(T) \in T
         /\ Music(c, k)!Max(T) \in T
<1>1. Len(list) \in Nat /\ T \subseteq 0 .. Len(list) /\ T \subseteq Nat
  OBVIOUS
<1>2. \E m \in T : \A n \in T : m <= n
  BY <1>1, Least
<1>3. \E m \in T : \A n \in T : m >= n
  BY <1>1, Greatest
<1> QED BY <1>2, <1>3, Zenon DEF Music!Min, Music!Max

\* The song Next leads to is ahead, the one Previous leads to has been played.
LEMMA NextIsAhead ==
  ASSUME NEW c, NEW k, NEW d, SessionOK(c, k, d), Music(c, k)!NextSong(d) # Nothing
  PROVE  /\ Music(c, k)!NextSong(d) \in Music(c, k)!Songs
         /\ Lists(d.ahead, Music(c, k)!NextSong(d))
<1> DEFINE T == Music(c, k)!UsableAt(d, d.ahead)
<1>1. T \subseteq DOMAIN d.ahead
  BY DEF Music!UsableAt
<1>2. T # {} /\ Music(c, k)!NextSong(d) = d.ahead[Music(c, k)!Min(T)]
  BY Zenon DEF Music!NextSong
<1> HIDE DEF T
<1>3. Music(c, k)!Min(T) \in DOMAIN d.ahead
  BY <1>1, <1>2, FirstPlace DEF SessionOK
<1> QED BY <1>2, <1>3 DEF SessionOK, Lists

LEMMA PreviousIsPast ==
  ASSUME NEW c, NEW k, NEW d, SessionOK(c, k, d), NEW s, s = Music(c, k)!PreviousSong(d)
  PROVE  s = d.current \/ (s \in Music(c, k)!Songs /\ Lists(d.past, s))
<1> DEFINE T == Music(c, k)!UsableAt(d, d.past)
<1>1. T \subseteq DOMAIN d.past
  BY DEF Music!UsableAt
<1>2. s = IF T = {} THEN d.current ELSE d.past[Music(c, k)!Max(T)]
  BY Zenon DEF Music!PreviousSong
<1> HIDE DEF T
<1>3. CASE T # {}
  <2>1. Music(c, k)!Max(T) \in DOMAIN d.past
    BY <1>1, <1>3, FirstPlace DEF SessionOK
  <2> QED BY <1>2, <1>3, <2>1 DEF SessionOK, Lists
<1> QED BY <1>2, <1>3

\* Select moves the cursor to a song of the playlist and keeps the playlist's songs.
LEMMA SelectNextOK ==
  ASSUME NEW c, NEW k, NEW d, SessionOK(c, k, d),
         NEW s \in Music(c, k)!Songs, Lists(d.ahead, s)
  PROVE  /\ SessionOK(c, k, Music(c, k)!SelectNext(d, s))
         /\ Music(c, k)!SelectNext(d, s).current = s
<1> DEFINE S == Music(c, k)!Songs
           at == Music(c, k)!Min({i \in DOMAIN d.ahead : d.ahead[i] = s})
           passed == Music(c, k)!Played(d) \o SubSeq(d.ahead, 1, at - 1)
           past == Music(c, k)!Recent(passed)
           ahead == SubSeq(d.ahead, at + 1, Len(d.ahead))
<1>1. Music(c, k)!SelectNext(d, s) = [d EXCEPT !.past = past, !.current = s, !.ahead = ahead]
  BY Zenon DEF Music!SelectNext
<1>2. at \in DOMAIN d.ahead
  <2> DEFINE T == {i \in DOMAIN d.ahead : d.ahead[i] = s}
  <2>1. T \subseteq DOMAIN d.ahead /\ T # {}
    BY DEF Lists
  <2> HIDE DEF T
  <2>2. Music(c, k)!Min(T) \in DOMAIN d.ahead
    BY <2>1, FirstPlace DEF SessionOK
  <2> QED BY <2>2 DEF T
<1> HIDE DEF at
<1>3. d.ahead \in Seq(S) /\ d.past \in Seq(S) /\ d.current \in S \cup {Nothing}
      /\ Behind \in Nat
  BY WindowAssumption DEF SessionOK
<1>4. Music(c, k)!Played(d) \in Seq(S)
  BY <1>3 DEF Music!Played
<1>5. ahead \in Seq(S) /\ SubSeq(d.ahead, 1, at - 1) \in Seq(S)
  BY <1>2, <1>3
<1>6. passed \in Seq(S)
  BY <1>4, <1>5
<1> HIDE DEF passed, ahead
<1>7. past \in Seq(S) /\ Len(past) <= Behind
  BY <1>3, <1>6 DEF Music!Recent
<1> HIDE DEF past
<1> QED BY <1>1, <1>5, <1>7 DEF SessionOK

LEMMA SelectPreviousOK ==
  ASSUME NEW c, NEW k, NEW d, SessionOK(c, k, d), d.current \in Music(c, k)!Songs,
         NEW s \in Music(c, k)!Songs, s = d.current \/ Lists(d.past, s)
  PROVE  /\ SessionOK(c, k, Music(c, k)!SelectPrevious(d, s))
         /\ Music(c, k)!SelectPrevious(d, s).current = s
<1> DEFINE S == Music(c, k)!Songs
           at == Music(c, k)!Max({i \in DOMAIN d.past : d.past[i] = s})
           past == SubSeq(d.past, 1, at - 1)
           ahead == SubSeq(d.past, at + 1, Len(d.past)) \o <<d.current>> \o d.ahead
<1>1. Music(c, k)!SelectPrevious(d, s) =
        IF s = d.current THEN d
        ELSE [d EXCEPT !.past = past, !.current = s, !.ahead = ahead]
  BY Zenon DEF Music!SelectPrevious
<1>2. CASE s = d.current
  <2>1. Music(c, k)!SelectPrevious(d, s) = d
    BY <1>1, <1>2, Zenon
  <2> QED BY <1>2, <2>1
<1>3. CASE s # d.current
  <2>1. at \in DOMAIN d.past
    <3> DEFINE T == {i \in DOMAIN d.past : d.past[i] = s}
    <3>1. T \subseteq DOMAIN d.past /\ T # {}
      BY <1>3 DEF Lists
    <3> HIDE DEF T
    <3>2. Music(c, k)!Max(T) \in DOMAIN d.past
      BY <3>1, FirstPlace DEF SessionOK
    <3> QED BY <3>2 DEF T
  <2> HIDE DEF at
  <2>2. d.ahead \in Seq(S) /\ d.past \in Seq(S) /\ d.current \in S
    BY DEF SessionOK
  <2>3. past \in Seq(S) /\ Len(past) <= Len(d.past) /\ SubSeq(d.past, at + 1, Len(d.past)) \in Seq(S)
    BY <2>1, <2>2
  <2>4. ahead \in Seq(S)
    BY <2>2, <2>3
  <2>5. Len(past) <= Behind
    BY <2>2, <2>3, WindowAssumption DEF SessionOK
  <2> HIDE DEF past, ahead
  <2>6. Music(c, k)!SelectPrevious(d, s)
          = [d EXCEPT !.past = past, !.current = s, !.ahead = ahead]
    BY <1>1, <1>3, Zenon
  <2> QED BY <2>3, <2>4, <2>5, <2>6 DEF SessionOK
<1> QED BY <1>2, <1>3

-----------------------------------------------------------------------------
QueueOK(c, k, q) ==
  /\ DOMAIN q = {"requests", "ready", "outstanding", "paused", "stopped"}
  /\ q.requests \in Seq(DOMAIN c)
  /\ q.ready \in Seq(Music(c, k)!Prepared \cup Music(c, k)!CatalogResult)
  /\ q.outstanding \subseteq DOMAIN c /\ Cardinality(q.outstanding) <= 2

WorkerOK(c, k, w) == w \in [job : DOMAIN c \cup {Nothing}, read : 0 .. Batch]

CatalogueOK(c, k, x) ==
  /\ DOMAIN x = {"pending", "known", "cursor", "opening", "probing"}
  /\ x.known \subseteq Music(c, k)!Packages /\ x.opening \subseteq Music(c, k)!Packages
  /\ x.probing \in Music(c, k)!Packages \cup {Nothing}
  /\ x.cursor \in 0 .. Cardinality(Music(c, k)!Packages)

HeldOK(c, k, h) == h \in Music(c, k)!Prepared \cup {Nothing}
MountedOK(c, k, m) == m \subseteq Music(c, k)!Packages /\ Cardinality(m) <= Resident
FilesOK(c, k, f) == f \subseteq Music(c, k)!Packages

\* A command belongs to a stream, and Previous always knows its song.
StreamOK(c, k, m) ==
  /\ DOMAIN m = {"mode", "stream", "active", "command", "target", "started"}
  /\ m.target \in Music(c, k)!Songs \cup {Nothing}
  /\ m.stream \in Music(c, k)!Songs \cup {Nothing}
  /\ m.mode # "playing" => m.target = Nothing
  /\ m.command \in {Nothing, "next", "previous"}
  /\ m.command = "previous" => m.target # Nothing
  /\ m.command = Nothing => m.target = Nothing

\* A stream has a current song, and the song a command waits for is in the playlist.
Linked(m, d) ==
  /\ m.mode = "playing" => d.current # Nothing
  /\ m.target # Nothing /\ ~m.started =>
       IF m.command = "next" THEN Lists(d.ahead, m.target)
       ELSE m.target = d.current \/ Lists(d.past, m.target)

MusicTyped(c, k) ==
  /\ QueueOK(c, k, musQueue) /\ WorkerOK(c, k, musWorker) /\ CatalogueOK(c, k, musCatalogue)
  /\ SessionOK(c, k, musSession) /\ HeldOK(c, k, musHeld) /\ MountedOK(c, k, musMounted)
  /\ FilesOK(c, k, musFiles) /\ StreamOK(c, k, musMusic) /\ Linked(musMusic, musSession)

LEMMA TypedMusic ==
  ASSUME NEW c, NEW k, MusicTyped(c, k) PROVE Music(c, k)!MusicTypeOK
<1>1. \A S : Music(c, k)!Cardinality(S) = Cardinality(S)
  BY SameCardinality
<1>2. /\ musQueue.requests \in Seq(DOMAIN c)
      /\ musQueue.ready \in Seq(Music(c, k)!Prepared \cup Music(c, k)!CatalogResult)
      /\ musQueue.outstanding \subseteq DOMAIN c
      /\ Music(c, k)!Cardinality(musQueue.outstanding) <= 2
  BY <1>1, Zenon DEF MusicTyped, QueueOK
<1>3. /\ musMounted \subseteq Music(c, k)!Packages
      /\ Music(c, k)!Cardinality(musMounted) <= Resident
      /\ musFiles \subseteq Music(c, k)!Packages
      /\ musHeld \in Music(c, k)!Prepared \cup {Nothing}
  BY <1>1, Zenon DEF MusicTyped, MountedOK, FilesOK, HeldOK
<1> QED
  BY <1>2, <1>3, Zenon
     DEF MusicTyped, WorkerOK, CatalogueOK, SessionOK, StreamOK, Music!MusicTypeOK

LEMMA GrownStaysLinked ==
  ASSUME NEW c, NEW k, NEW m, NEW d, NEW e, Linked(m, d), Grown(c, k, d, e)
  PROVE  Linked(m, e)
BY Zenon DEF Linked, Grown

LEMMA GrowsOn ==
  ASSUME NEW c, NEW k, NEW d, NEW e, NEW f, Grown(c, k, d, e), Grown(c, k, e, f)
  PROVE  Grown(c, k, d, f)
BY Zenon DEF Grown

\* A song is one of a package of the library.
LEMMA SongHasPackage ==
  ASSUME NEW c, NEW k, NEW s \in Music(c, k)!Songs PROVE s[1] \in DOMAIN c
BY DEF Music!Songs

LEMMA SongIsNotNothing ==
  ASSUME NEW c, NEW k, IsLibrary(c, k) PROVE \A s \in Music(c, k)!Songs : s # Nothing
<1>1. ASSUME NEW p \in DOMAIN c, NEW i \in 1 .. c[p] PROVE <<p, i>> # Nothing
  <2>1. p \in Nat /\ i \in Nat
    <3>1. DOMAIN c \subseteq Nat
      BY LibraryIsFinite
    <3>2. c[p] \in Nat
      BY DEF IsLibrary
    <3> QED BY <3>1, <3>2
  <2> QED BY <2>1, NothingAssumption
<1> QED BY <1>1 DEF Music!Songs

LEMMA WarmIsKnown ==
  ASSUME NEW c, NEW k, NEW d, SessionOK(c, k, d), StreamOK(c, k, musMusic)
  PROVE  Music(c, k)!Warm(d) \subseteq DOMAIN c
<1> DEFINE S == Music(c, k)!Songs
<1>1. \A x \in Music(c, k)!Warm(d) : \E s \in S : x = s[1]
  <2>1. SUFFICES ASSUME NEW x \in Music(c, k)!Warm(d) PROVE \E s \in S : x = s[1]
    OBVIOUS
  <2>2. PICK s : /\ x = s[1]
                 /\ \/ \E i \in Music(c, k)!UsableAt(d, d.ahead) : s = d.ahead[i]
                    \/ \E i \in Music(c, k)!UsableAt(d, d.past) : s = d.past[i]
                    \/ s \in {d.current, musMusic.stream, musMusic.target} \ {Nothing}
    BY <2>1, Zenon DEF Music!Warm
  <2>3. CASE \E i \in Music(c, k)!UsableAt(d, d.ahead) : s = d.ahead[i]
    BY <2>2, <2>3 DEF Music!UsableAt, SessionOK
  <2>4. CASE \E i \in Music(c, k)!UsableAt(d, d.past) : s = d.past[i]
    BY <2>2, <2>4 DEF Music!UsableAt, SessionOK
  <2>5. CASE s \in {d.current, musMusic.stream, musMusic.target} \ {Nothing}
    BY <2>2, <2>5 DEF SessionOK, StreamOK
  <2> QED BY <2>2, <2>3, <2>4, <2>5
<1> QED BY <1>1, SongHasPackage

\* A request for a package of the library, taken or refused, leaves a queue.
LEMMA RequestOK ==
  ASSUME NEW c, NEW k, IsLibrary(c, k), NEW q, QueueOK(c, k, q), NEW key \in DOMAIN c,
         NEW first \in BOOLEAN
  PROVE  QueueOK(c, k, Music(c, k)!Request(q, key, first))
<1> DEFINE out == q.outstanding \cup {key}
           req == IF first THEN <<key>> \o q.requests ELSE Append(q.requests, key)
<1>1. Music(c, k)!Request(q, key, first) =
        IF ~Music(c, k)!CanRequest(q, key) THEN q
        ELSE [q EXCEPT !.outstanding = out, !.requests = req]
  BY Zenon DEF Music!Request
<1>2. CASE ~Music(c, k)!CanRequest(q, key)
  BY <1>1, <1>2, Zenon
<1>3. CASE Music(c, k)!CanRequest(q, key)
  <2>1. /\ q.outstanding \subseteq DOMAIN c /\ Cardinality(q.outstanding) <= 2
        /\ q.requests \in Seq(DOMAIN c)
    BY Zenon DEF QueueOK
  <2>2. IsFiniteSet(q.outstanding) /\ Cardinality(q.outstanding) \in Nat
    BY <2>1, LibraryIsFinite, FS_Subset, FS_CardinalityType, Zenon
  <2>3. key \notin q.outstanding /\ Cardinality(q.outstanding) < 2
    <3>1. Music(c, k)!Cardinality(q.outstanding) = Cardinality(q.outstanding)
      BY SameCardinality, Zenon
    <3> QED BY <1>3, <3>1, Zenon DEF Music!CanRequest
  <2>4. Cardinality(out) = Cardinality(q.outstanding) + 1
    BY <2>2, <2>3, FS_AddElement, Zenon
  <2>5. req \in Seq(DOMAIN c)
    <3>1. <<key>> \in Seq(DOMAIN c)
      OBVIOUS
    <3>2. <<key>> \o q.requests \in Seq(DOMAIN c) /\ Append(q.requests, key) \in Seq(DOMAIN c)
      BY <2>1, <3>1
    <3> QED BY <3>2
  <2>6. out \subseteq DOMAIN c
    BY <2>1
  <2> HIDE DEF out, req
  <2>7. Cardinality(out) <= 2
    BY <2>2, <2>3, <2>4
  <2>8. Music(c, k)!Request(q, key, first) = [q EXCEPT !.outstanding = out, !.requests = req]
    BY <1>1, <1>3, Zenon
  <2> QED BY <2>5, <2>6, <2>7, <2>8 DEF QueueOK
<1> QED BY <1>2, <1>3

\* StartNextTrack plays the successor, or waits; either way no command is left.
LEMMA StartsNextOK ==
  ASSUME NEW c, NEW k, IsLibrary(c, k), NEW d, SessionOK(c, k, d),
         NEW m, StreamOK(c, k, m), m.target = Nothing,
         FilesOK(c, k, musFiles), Music(c, k)!StartsNext(d, m)
  PROVE  /\ SessionOK(c, k, musSession') /\ StreamOK(c, k, musMusic')
         /\ Linked(musMusic', musSession') /\ FilesOK(c, k, musFiles')
<1> DEFINE s(e) == Music(c, k)!NextSong(e)
           Goes(e) == s(e) # Nothing /\ Music(c, k)!Ready(s(e), musMounted)
<1>1. PICK e \in Music(c, k)!Planned(d) :
         IF Goes(e)
         THEN /\ musSession' = Music(c, k)!SelectNext(e, s(e))
              /\ musMusic' = Music(c, k)!Plays(m, s(e)) /\ Music(c, k)!OpensFile(s(e))
         ELSE /\ musSession' = e /\ UNCHANGED musFiles
              /\ musMusic' = [m EXCEPT !.mode = "waiting", !.stream = Nothing, !.active = FALSE]
  BY Zenon DEF Music!StartsNext
<1>2. SessionOK(c, k, e)
  BY PlannedGrows DEF Grown
<1>3. CASE Goes(e)
  <2>1. s(e) \in Music(c, k)!Songs /\ Lists(e.ahead, s(e)) /\ s(e) # Nothing
    BY <1>2, <1>3, NextIsAhead, Zenon
  <2>2. /\ musSession' = Music(c, k)!SelectNext(e, s(e))
        /\ musMusic' = Music(c, k)!Plays(m, s(e)) /\ Music(c, k)!OpensFile(s(e))
    BY <1>1, <1>3, Zenon
  <2>3. SessionOK(c, k, musSession') /\ musSession'.current = s(e)
    BY <1>2, <2>1, <2>2, SelectNextOK, Zenon
  <2> HIDE DEF s
  <2>4. musMusic' = [m EXCEPT !.mode = "playing", !.stream = s(e), !.active = TRUE]
    BY <2>2, Zenon DEF Music!Plays
  <2>5. StreamOK(c, k, musMusic') /\ musMusic'.target = Nothing
    BY <2>1, <2>4 DEF StreamOK
  <2>6. FilesOK(c, k, musFiles')
    <3>1. musFiles' = musFiles \cup ({s(e)[1]} \ {0})
      BY <2>2, Zenon DEF Music!OpensFile
    <3>2. s(e)[1] \in DOMAIN c
      BY <2>1, SongHasPackage, Zenon
    <3> QED BY <3>1, <3>2 DEF FilesOK, Music!Packages
  <2> QED BY <2>1, <2>3, <2>5, <2>6, Zenon DEF Linked
<1>4. CASE ~Goes(e)
  <2>1. /\ musSession' = e /\ musFiles' = musFiles
        /\ musMusic' = [m EXCEPT !.mode = "waiting", !.stream = Nothing, !.active = FALSE]
    BY <1>1, <1>4, Zenon
  <2>2. StreamOK(c, k, musMusic') /\ musMusic'.target = Nothing /\ musMusic'.mode # "playing"
    BY <2>1 DEF StreamOK
  <2> QED BY <1>2, <2>1, <2>2, Zenon DEF Linked, FilesOK
<1> QED BY <1>3, <1>4

\* What Discover adds are songs of the library.
LEMMA DiscoverGrows ==
  ASSUME NEW c, NEW k, NEW d, SessionOK(c, k, d), NEW P
  PROVE  Grown(c, k, d, Music(c, k)!Discover(d, P))
<1> DEFINE new == Music(c, k)!SongsOf(P \ d.discovered)
<1>1. new \subseteq Music(c, k)!Songs
  BY DEF Music!SongsOf
<1> HIDE DEF new
<1>2. Music(c, k)!Discover(d, P)
        = [d EXCEPT !.discovered = d.discovered \cup P, !.remaining = d.remaining \cup new]
  BY Zenon DEF Music!Discover, new
<1> QED BY <1>1, <1>2 DEF Grown, SessionOK

\* Evicting what is cold leaves fewer packages, and a free place takes one more.
LEMMA RetireColdOK ==
  ASSUME NEW c, NEW k, IsLibrary(c, k), NEW m, MountedOK(c, k, m), NEW d
  PROVE  /\ MountedOK(c, k, Music(c, k)!RetireCold(m, d))
         /\ \A p \in Music(c, k)!Packages :
              ~(Music(c, k)!Cardinality(Music(c, k)!RetireCold(m, d)) >= Resident)
                => MountedOK(c, k, Music(c, k)!RetireCold(m, d) \cup {p})
<1> DEFINE r == Music(c, k)!RetireCold(m, d)
<1>1. r \subseteq m
  BY DEF Music!RetireCold
<1>2. m \subseteq Music(c, k)!Packages /\ Cardinality(m) <= Resident /\ Resident \in Nat
  BY WindowAssumption, Zenon DEF MountedOK
<1>3. Music(c, k)!Packages \subseteq DOMAIN c
  BY DEF Music!Packages
<1>4. IsFiniteSet(m)
  BY <1>2, <1>3, LibraryIsFinite, FS_Subset
<1>5. IsFiniteSet(r) /\ Cardinality(r) <= Cardinality(m)
  BY <1>1, <1>4, FS_Subset
<1>6. Cardinality(m) \in Nat /\ Cardinality(r) \in Nat
  BY <1>4, <1>5, FS_CardinalityType
<1>7. Music(c, k)!Cardinality(r) = Cardinality(r)
  BY SameCardinality, Zenon
<1> HIDE DEF r
<1>8. MountedOK(c, k, r)
  BY <1>1, <1>2, <1>5, <1>6 DEF MountedOK
<1>9. ASSUME NEW p \in Music(c, k)!Packages, ~(Music(c, k)!Cardinality(r) >= Resident)
      PROVE  MountedOK(c, k, r \cup {p})
  <2>1. Cardinality(r \cup {p}) = IF p \in r THEN Cardinality(r) ELSE Cardinality(r) + 1
    BY <1>5, FS_AddElement, Zenon
  <2>2. Cardinality(r \cup {p}) <= Resident
    BY <1>2, <1>6, <1>7, <1>9, <2>1
  <2> QED BY <1>1, <1>2, <2>2 DEF MountedOK
<1> QED BY <1>8, <1>9, Zenon DEF r

\* What is asked for next is a package of the library.
LEMMA NextToWarmOK ==
  ASSUME NEW c, NEW k, IsLibrary(c, k), NEW d, SessionOK(c, k, d), StreamOK(c, k, musMusic), NEW m
  PROVE  Music(c, k)!NextToWarm(d, m) \subseteq DOMAIN c
<1> DEFINE cold == {p \in Music(c, k)!Warm(d) \ (d.blocked \cup {0}) : p \notin m}
           next == Music(c, k)!NextSong(d)
           first == {s \in {musMusic.target, next} \ {Nothing} :
                       Music(c, k)!Usable(d, s) /\ s[1] \in cold}
<1>1. Music(c, k)!NextToWarm(d, m) =
        IF musMusic.target \in first THEN {musMusic.target[1]}
        ELSE IF first # {} THEN {next[1]}
        ELSE IF cold # {} THEN {Music(c, k)!Min(cold)} ELSE {}
  BY Zenon DEF Music!NextToWarm
<1>2. cold \subseteq DOMAIN c
  BY WarmIsKnown
<1>3. \A s \in first : s \in {musMusic.target, next} /\ s[1] \in cold
  OBVIOUS
<1> HIDE DEF cold, next, first
<1>4. cold # {} => Music(c, k)!Min(cold) \in cold
  <2>1. SUFFICES ASSUME cold # {} PROVE Music(c, k)!Min(cold) \in cold
    OBVIOUS
  <2>2. cold \subseteq Nat
    BY <1>2, LibraryIsFinite
  <2>3. \E a \in cold : \A b \in cold : a <= b
    BY <2>1, <2>2, Least, Zenon
  <2> QED BY <2>3, Zenon DEF Music!Min
<1> QED BY <1>1, <1>2, <1>3, <1>4

\* The parts of a state of the music, one after the step at hand.
Stays(c, k) ==
  /\ QueueOK(c, k, musQueue') /\ WorkerOK(c, k, musWorker') /\ CatalogueOK(c, k, musCatalogue')
  /\ SessionOK(c, k, musSession') /\ HeldOK(c, k, musHeld') /\ MountedOK(c, k, musMounted')
  /\ FilesOK(c, k, musFiles') /\ StreamOK(c, k, musMusic') /\ Linked(musMusic', musSession')

LEMMA InitTyped ==
  ASSUME NEW c, NEW k, IsLibrary(c, k), Music(c, k)!Init PROVE MusicTyped(c, k)
<1>1. PICK known \in k :
        /\ musCatalogue = [pending |-> known # Music(c, k)!Packages, known |-> known, cursor |-> 0,
              opening |-> IF known = Music(c, k)!Packages THEN {} ELSE Music(c, k)!Packages,
              probing |-> Nothing]
        /\ musSession = Music(c, k)!NewSession(known)
  BY Zenon DEF Music!Init
<1>2. known \subseteq Music(c, k)!Packages
  BY DEF IsLibrary, Music!Packages
<1>3. CatalogueOK(c, k, musCatalogue)
  BY <1>1, <1>2, LibraryIsFinite DEF CatalogueOK
<1>4. SessionOK(c, k, musSession)
  <2> DEFINE left == Music(c, k)!SongsOf(known \cup {0})
             none == [s \in Music(c, k)!Songs |-> 0]
             all == known = Music(c, k)!Packages
  <2>1. left \subseteq Music(c, k)!Songs
    BY DEF Music!SongsOf
  <2>2. musSession = [discovered |-> known \cup {0}, blocked |-> {}, strikes |-> none,
           remaining |-> left, past |-> <<>>, current |-> Nothing, ahead |-> <<>>,
           complete |-> all]
    BY <1>1, Zenon DEF Music!NewSession
  <2> HIDE DEF left, none, all
  <2> QED BY <2>1, <2>2, WindowAssumption DEF SessionOK
<1>5. /\ musQueue = [requests |-> <<>>, ready |-> <<>>, outstanding |-> {},
                     paused |-> FALSE, stopped |-> FALSE]
      /\ musWorker = [job |-> Nothing, read |-> 0]
      /\ musHeld = Nothing /\ musMounted = {} /\ musFiles = {}
      /\ musMusic = [mode |-> "off", stream |-> Nothing, active |-> FALSE,
                     command |-> Nothing, target |-> Nothing, started |-> FALSE]
  BY Zenon DEF Music!Init
<1>6. Cardinality({}) = 0
  BY FS_EmptySet
<1>7. QueueOK(c, k, musQueue)
  BY <1>5, <1>6 DEF QueueOK
<1>8. WorkerOK(c, k, musWorker) /\ HeldOK(c, k, musHeld)
  BY <1>5, WindowAssumption DEF WorkerOK, HeldOK
<1>9. MountedOK(c, k, musMounted) /\ FilesOK(c, k, musFiles)
  BY <1>5, <1>6, WindowAssumption DEF MountedOK, FilesOK
<1>10. StreamOK(c, k, musMusic)
  BY <1>5, NothingAssumption DEF StreamOK
<1>11. Linked(musMusic, musSession)
  BY <1>5 DEF Linked
<1> QED BY <1>3, <1>4, <1>7, <1>8, <1>9, <1>10, <1>11, Zenon DEF MusicTyped

\* The worker takes what was asked for, and delivers a result of its job.
LEMMA HeadAndTail ==
  ASSUME NEW S, NEW q \in Seq(S), q # <<>> PROVE Head(q) \in S /\ Tail(q) \in Seq(S)
OBVIOUS

LEMMA WorkerTakesTyped ==
  ASSUME NEW c, NEW k, IsLibrary(c, k), MusicTyped(c, k), Music(c, k)!WorkerTakes
  PROVE  Stays(c, k)
<1>1. /\ musQueue.requests # <<>>
      /\ musWorker' = [job |-> Head(musQueue.requests), read |-> 0]
      /\ musQueue' = [musQueue EXCEPT !.requests = Tail(@)]
      /\ UNCHANGED <<musCatalogue, musSession, musHeld, musMounted, musFiles, musMusic>>
  BY Zenon DEF Music!WorkerTakes
<1>2. QueueOK(c, k, musQueue) /\ musQueue.requests \in Seq(DOMAIN c)
  BY Zenon DEF MusicTyped, QueueOK
<1>3. Head(musQueue.requests) \in DOMAIN c /\ Tail(musQueue.requests) \in Seq(DOMAIN c)
  BY <1>1, <1>2, HeadAndTail, Zenon
<1>4. QueueOK(c, k, musQueue')
  BY <1>1, <1>2, <1>3 DEF QueueOK
<1>5. WorkerOK(c, k, musWorker')
  BY <1>1, <1>3, WindowAssumption DEF WorkerOK
<1> QED BY <1>1, <1>4, <1>5, Zenon DEF MusicTyped, Stays

LEMMA DeliversOK ==
  ASSUME NEW c, NEW k, QueueOK(c, k, musQueue),
         NEW r \in Music(c, k)!Prepared \cup Music(c, k)!CatalogResult \cup {Nothing},
         IsLibrary(c, k), Music(c, k)!Delivers(r)
  PROVE  QueueOK(c, k, musQueue')
<1> DEFINE left == musQueue.outstanding \ {musWorker.job}
           ready == Append(musQueue.ready, r)
<1>1. musQueue' = IF musQueue.stopped THEN musQueue
                  ELSE IF r = Nothing THEN [musQueue EXCEPT !.outstanding = left]
                  ELSE [musQueue EXCEPT !.ready = ready]
  BY Zenon DEF Music!Delivers
<1>2. /\ musQueue.outstanding \subseteq DOMAIN c /\ Cardinality(musQueue.outstanding) <= 2
      /\ musQueue.ready \in Seq(Music(c, k)!Prepared \cup Music(c, k)!CatalogResult)
  BY Zenon DEF QueueOK
<1>3. left \subseteq DOMAIN c /\ Cardinality(left) <= 2
  <2>1. IsFiniteSet(musQueue.outstanding)
    BY <1>2, LibraryIsFinite, FS_Subset
  <2>2. IsFiniteSet(left) /\ Cardinality(left) <= Cardinality(musQueue.outstanding)
    BY <2>1, FS_Subset
  <2>3. Cardinality(musQueue.outstanding) \in Nat /\ Cardinality(left) \in Nat
    BY <2>1, <2>2, FS_CardinalityType
  <2> HIDE DEF left
  <2>4. Cardinality(left) <= 2
    BY <1>2, <2>2, <2>3
  <2> QED BY <1>2, <2>4 DEF left
<1>4. r # Nothing => ready \in Seq(Music(c, k)!Prepared \cup Music(c, k)!CatalogResult)
  BY <1>2
<1> HIDE DEF left, ready
<1>5. CASE musQueue' = musQueue
  BY <1>5, Zenon
<1>6. CASE r = Nothing /\ musQueue' = [musQueue EXCEPT !.outstanding = left]
  BY <1>3, <1>6 DEF QueueOK
<1>7. CASE r # Nothing /\ musQueue' = [musQueue EXCEPT !.ready = ready]
  BY <1>4, <1>7 DEF QueueOK
<1> QED BY <1>1, <1>5, <1>6, <1>7, Zenon

LEMMA PreparesPackageTyped ==
  ASSUME NEW c, NEW k, IsLibrary(c, k), MusicTyped(c, k), Music(c, k)!PreparesPackage
  PROVE  Stays(c, k)
<1>1. PICK ok \in BOOLEAN : Music(c, k)!Delivers([package |-> musWorker.job, ok |-> ok])
  BY Zenon DEF Music!PreparesPackage
<1>2. /\ musWorker.job \in Music(c, k)!Packages /\ musWorker' = [job |-> Nothing, read |-> 0]
      /\ UNCHANGED <<musCatalogue, musSession, musHeld, musMounted, musFiles, musMusic>>
  BY Zenon DEF Music!PreparesPackage
<1>3. [package |-> musWorker.job, ok |-> ok] \in Music(c, k)!Prepared
  BY <1>2 DEF Music!Prepared
<1>4. QueueOK(c, k, musQueue')
  BY <1>1, <1>3, DeliversOK DEF MusicTyped
<1>5. WorkerOK(c, k, musWorker')
  BY <1>2, WindowAssumption DEF WorkerOK
<1> QED BY <1>2, <1>4, <1>5, Zenon DEF MusicTyped, Stays

LEMMA ReadsRecordTyped ==
  ASSUME NEW c, NEW k, IsLibrary(c, k), MusicTyped(c, k), Music(c, k)!ReadsRecord
  PROVE  Stays(c, k)
<1> DEFINE p == musCatalogue.cursor + 1
           P == Music(c, k)!Packages
<1>1. PICK ok \in BOOLEAN :
        /\ musCatalogue' = [musCatalogue EXCEPT !.cursor = p,
                              !.known = IF ok THEN @ \cup {p} ELSE @]
        /\ musWorker' = [musWorker EXCEPT !.read = IF p \in musCatalogue.known THEN @ ELSE @ + 1]
  BY Zenon DEF Music!ReadsRecord
<1>2. /\ musWorker.read < Batch /\ musCatalogue.cursor < Music(c, k)!Cardinality(P)
      /\ UNCHANGED <<musQueue, musSession, musHeld, musMounted, musFiles, musMusic>>
  BY Zenon DEF Music!ReadsRecord
<1>3. Music(c, k)!Cardinality(P) = Cardinality(P) /\ Cardinality(P) \in Nat
      /\ P = 1 .. Cardinality(P)
  BY SameCardinality, LibraryIsFinite
<1>4. /\ musCatalogue.known \subseteq P /\ musCatalogue.cursor \in 0 .. Cardinality(P)
      /\ CatalogueOK(c, k, musCatalogue) /\ WorkerOK(c, k, musWorker)
  BY Zenon DEF MusicTyped, CatalogueOK
<1>5. p \in P /\ p \in 0 .. Cardinality(P)
  BY <1>2, <1>3, <1>4
<1> DEFINE known == IF ok THEN musCatalogue.known \cup {p} ELSE musCatalogue.known
<1>6. known \subseteq P
  BY <1>4, <1>5
<1>7. musCatalogue' = [musCatalogue EXCEPT !.cursor = p, !.known = known]
  BY <1>1
<1> HIDE DEF p, P, known
<1>8. CatalogueOK(c, k, musCatalogue')
  BY <1>4, <1>5, <1>6, <1>7 DEF CatalogueOK, P
<1>9. WorkerOK(c, k, musWorker')
  BY <1>1, <1>2, <1>4, WindowAssumption DEF WorkerOK
<1> QED BY <1>2, <1>8, <1>9, Zenon DEF MusicTyped, Stays

LEMMA EndsBatchTyped ==
  ASSUME NEW c, NEW k, IsLibrary(c, k), MusicTyped(c, k), Music(c, k)!EndsBatch
  PROVE  Stays(c, k)
<1> DEFINE all == musCatalogue.cursor = Music(c, k)!Cardinality(Music(c, k)!Packages)
           r == [package |-> Music(c, k)!CatalogJob, ok |-> all]
<1>1. /\ Music(c, k)!Delivers(Nothing) \/ Music(c, k)!Delivers(r)
      /\ musWorker' = [job |-> Nothing, read |-> 0]
      /\ UNCHANGED <<musCatalogue, musSession, musHeld, musMounted, musFiles, musMusic>>
  BY Zenon DEF Music!EndsBatch
<1>2. all \in BOOLEAN
  OBVIOUS
<1> HIDE DEF all
<1>3. r \in Music(c, k)!CatalogResult
  BY <1>2 DEF Music!CatalogResult
<1> HIDE DEF r
<1>4. QueueOK(c, k, musQueue)
  BY Zenon DEF MusicTyped
<1>5. QueueOK(c, k, musQueue')
  BY <1>1, <1>3, <1>4, DeliversOK
<1>6. WorkerOK(c, k, musWorker')
  BY <1>1, WindowAssumption DEF WorkerOK
<1> QED BY <1>1, <1>5, <1>6, Zenon DEF MusicTyped, Stays

\* Stopping, pausing or emptying the queue leaves its requests in order.
LEMMA QueueFlagsOK ==
  ASSUME NEW c, NEW k, NEW q, QueueOK(c, k, q)
  PROVE  /\ \A b : QueueOK(c, k, [q EXCEPT !.paused = b])
         /\ \A b : QueueOK(c, k, [q EXCEPT !.stopped = b])
         /\ QueueOK(c, k, [q EXCEPT !.requests = <<>>, !.ready = <<>>, !.outstanding = {}])
<1>1. Cardinality({}) = 0
  BY FS_EmptySet
<1>2. QueueOK(c, k, [q EXCEPT !.requests = <<>>, !.ready = <<>>, !.outstanding = {}])
  BY <1>1 DEF QueueOK
<1> QED BY <1>2 DEF QueueOK

\* The stream at rest: no mode but waiting or off, no command.
LEMMA NoCommandOK ==
  ASSUME NEW c, NEW k, NEW m, StreamOK(c, k, m)
  PROVE  /\ StreamOK(c, k, Music(c, k)!NoCommand(m))
         /\ Music(c, k)!NoCommand(m).target = Nothing
         /\ Music(c, k)!NoCommand(m).mode = m.mode
         /\ StreamOK(c, k, [Music(c, k)!NoCommand(m)
                              EXCEPT !.mode = "off", !.stream = Nothing, !.active = FALSE])
<1> DEFINE n == Music(c, k)!NoCommand(m)
<1>1. n = [m EXCEPT !.command = Nothing, !.target = Nothing, !.started = FALSE]
  BY Zenon DEF Music!NoCommand
<1> HIDE DEF n
<1>2. StreamOK(c, k, n) /\ n.target = Nothing /\ n.mode = m.mode
  BY <1>1, NothingAssumption DEF StreamOK
<1>3. StreamOK(c, k, [n EXCEPT !.mode = "off", !.stream = Nothing, !.active = FALSE])
  BY <1>2 DEF StreamOK
<1> QED BY <1>2, <1>3, Zenon DEF n

LEMMA WorkerStopsTyped ==
  ASSUME NEW c, NEW k, MusicTyped(c, k), Music(c, k)!WorkerStops PROVE Stays(c, k)
<1>1. musQueue' = [musQueue EXCEPT !.requests = <<>>, !.ready = <<>>, !.outstanding = {}]
      /\ UNCHANGED <<musWorker, musCatalogue, musSession, musHeld, musMounted, musFiles, musMusic>>
  BY Zenon DEF Music!WorkerStops
<1>2. QueueOK(c, k, musQueue')
  BY <1>1, QueueFlagsOK DEF MusicTyped
<1> QED BY <1>1, <1>2, Zenon DEF MusicTyped, Stays

LEMMA GuestBeginsTyped ==
  ASSUME NEW c, NEW k, MusicTyped(c, k), NEW why, Music(c, k)!GuestBegins(why)
  PROVE  Stays(c, k)
<1>1. \/ musQueue' = musQueue
      \/ \E b : musQueue' = [musQueue EXCEPT !.paused = b]
  BY Zenon DEF Music!GuestBegins
<1>2. UNCHANGED <<musWorker, musCatalogue, musSession, musHeld, musMounted, musFiles, musMusic>>
  BY Zenon DEF Music!GuestBegins
<1>3. QueueOK(c, k, musQueue')
  <2>1. QueueOK(c, k, musQueue)
    BY Zenon DEF MusicTyped
  <2>2. \A b : QueueOK(c, k, [musQueue EXCEPT !.paused = b])
    BY <2>1, QueueFlagsOK
  <2> QED BY <1>1, <2>1, <2>2
<1> QED BY <1>2, <1>3, Zenon DEF MusicTyped, Stays

\* PublishPackage's end mounts one package of the library, or keeps it.
LEMMA MountsOK ==
  ASSUME NEW c, NEW k, IsLibrary(c, k), MountedOK(c, k, musMounted),
         NEW r \in Music(c, k)!Prepared, NEW d, Music(c, k)!Mounts(r, d)
  PROVE  MountedOK(c, k, musMounted') /\ HeldOK(c, k, musHeld')
<1> DEFINE kept == Music(c, k)!RetireCold(musMounted, d)
           full == Music(c, k)!Cardinality(kept) >= Resident
<1>1. \/ musHeld' = Nothing /\ musMounted' = musMounted
      \/ /\ musMounted' = IF full THEN kept ELSE kept \cup {r.package}
         /\ musHeld' = IF full THEN r ELSE Nothing
  BY Zenon DEF Music!Mounts
<1>2. HeldOK(c, k, musHeld')
  BY <1>1, Zenon DEF HeldOK
<1>3. r.package \in Music(c, k)!Packages
  BY DEF Music!Prepared
<1>4. MountedOK(c, k, kept) /\ (~full => MountedOK(c, k, kept \cup {r.package}))
  BY <1>3, RetireColdOK, Zenon
<1> HIDE DEF kept, full
<1>5. MountedOK(c, k, musMounted')
  <2>1. CASE full
    BY <1>1, <1>4, <2>1, Zenon
  <2>2. CASE ~full
    BY <1>1, <1>4, <2>2, Zenon
  <2> QED BY <2>1, <2>2
<1> QED BY <1>2, <1>5

LEMMA PublishCatalogueOK ==
  ASSUME NEW c, NEW k, IsLibrary(c, k), MusicTyped(c, k), NEW r, Music(c, k)!PublishCatalogue(r)
  PROVE  /\ CatalogueOK(c, k, musCatalogue') /\ Grown(c, k, musSession, musSession')
         /\ MountedOK(c, k, musMounted') /\ HeldOK(c, k, musHeld')
<1>1. musHeld' = Nothing /\ musMounted' = musMounted
  BY Zenon DEF Music!PublishCatalogue
<1>2. MountedOK(c, k, musMounted') /\ HeldOK(c, k, musHeld')
  BY <1>1, Zenon DEF MusicTyped, HeldOK
<1>3. SessionOK(c, k, musSession) /\ CatalogueOK(c, k, musCatalogue)
  BY Zenon DEF MusicTyped
<1> DEFINE found == Music(c, k)!Discover(musSession, Music(c, k)!Packages)
           whole == [found EXCEPT !.complete = TRUE]
<1>4. CASE r.ok
  <2>1. musSession' \in Music(c, k)!Planned(whole)
        /\ musCatalogue' = [musCatalogue EXCEPT !.pending = FALSE, !.probing = Nothing]
    BY <1>4, Zenon DEF Music!PublishCatalogue
  <2>2. CatalogueOK(c, k, musCatalogue')
    BY <1>3, <2>1 DEF CatalogueOK
  <2>3. Grown(c, k, musSession, found)
    BY <1>3, DiscoverGrows, Zenon
  <2> HIDE DEF found
  <2>4. Grown(c, k, found, whole)
    BY <2>3 DEF Grown, SessionOK
  <2> HIDE DEF whole
  <2>5. Grown(c, k, whole, musSession')
    BY <2>1, <2>4, PlannedGrows, Zenon DEF Grown
  <2>6. Grown(c, k, musSession, musSession')
    BY <2>3, <2>4, <2>5, GrowsOn, Zenon
  <2> QED BY <1>2, <2>2, <2>6
<1>5. CASE ~r.ok
  <2>1. musSession' = musSession /\ musCatalogue' = musCatalogue
    BY <1>5, Zenon DEF Music!PublishCatalogue
  <2> QED BY <1>2, <1>3, <2>1, Zenon DEF Grown
<1> QED BY <1>4, <1>5

LEMMA PublishPackageOK ==
  ASSUME NEW c, NEW k, IsLibrary(c, k), MusicTyped(c, k), NEW r \in Music(c, k)!Prepared,
         Music(c, k)!PublishPackage(r)
  PROVE  /\ CatalogueOK(c, k, musCatalogue') /\ Grown(c, k, musSession, musSession')
         /\ MountedOK(c, k, musMounted') /\ HeldOK(c, k, musHeld')
<1> DEFINE p == r.package
           ended == Music(c, k)!EndProbe(p)
           probe == musCatalogue.pending /\ musCatalogue.probing = p
           found == Music(c, k)!Discover(musSession, {p})
           picks == {s \in Music(c, k)!SongsOf({p}) : Music(c, k)!Usable(found, s)}
           Picked(s) == [found EXCEPT !.ahead = Append(@, s), !.remaining = @ \ {s}]
<1>1. SessionOK(c, k, musSession) /\ CatalogueOK(c, k, musCatalogue)
      /\ MountedOK(c, k, musMounted)
  BY Zenon DEF MusicTyped
<1>2. p \in Music(c, k)!Packages
  BY DEF Music!Prepared
<1>3. CatalogueOK(c, k, ended)
  <2>1. ended = [musCatalogue EXCEPT !.probing = IF @ = p THEN Nothing ELSE @]
    BY Zenon DEF Music!EndProbe
  <2> HIDE DEF ended
  <2> QED BY <1>1, <2>1 DEF CatalogueOK
<1>4. Grown(c, k, musSession, found)
  BY <1>1, DiscoverGrows, Zenon
<1>5. \A s \in picks : s \in Music(c, k)!Songs
  BY DEF Music!SongsOf
<1>6. CASE ~r.ok
  <2>1. /\ musSession' = [musSession EXCEPT !.blocked = @ \cup {p}]
        /\ musCatalogue' = ended /\ musHeld' = Nothing /\ musMounted' = musMounted
    BY <1>6, Zenon DEF Music!PublishPackage
  <2>2. Grown(c, k, musSession, musSession')
    BY <1>1, <2>1 DEF Grown, SessionOK
  <2> QED BY <1>1, <1>3, <2>1, <2>2, Zenon DEF HeldOK
<1>7. CASE r.ok
  <2>1. /\ musCatalogue' = [ended EXCEPT !.known = IF probe THEN @ \cup {p} ELSE @]
        /\ \/ musSession' = found /\ musHeld' = Nothing /\ musMounted' = musMounted
           \/ \E s \in picks : musSession' = Picked(s) /\ Music(c, k)!Mounts(r, Picked(s))
           \/ \E d \in Music(c, k)!Planned(found) : musSession' = d /\ Music(c, k)!Mounts(r, d)
    <3>1. /\ musCatalogue' = [ended EXCEPT !.known = IF probe THEN @ \cup {p} ELSE @]
          /\ IF probe /\ picks = {}
             THEN musSession' = found /\ musHeld' = Nothing /\ musMounted' = musMounted
             ELSE \E d \in IF probe THEN {Picked(s) : s \in picks} ELSE Music(c, k)!Planned(found) :
                    musSession' = d /\ Music(c, k)!Mounts(r, d)
      BY <1>7, Zenon DEF Music!PublishPackage
    <3> HIDE DEF ended, found, picks, Picked, probe
    <3>2. CASE probe
      BY <3>1, <3>2, Zenon
    <3>3. CASE ~probe
      BY <3>1, <3>3, Zenon
    <3> QED BY <3>2, <3>3
  <2> HIDE DEF ended, found, picks, probe
  <2>2. CatalogueOK(c, k, musCatalogue')
    BY <1>2, <1>3, <2>1 DEF CatalogueOK
  <2>3. \A s \in picks : Grown(c, k, found, Picked(s))
    BY <1>4, <1>5 DEF Grown, SessionOK, Lists
  <2> HIDE DEF Picked
  <2>4. \A d \in Music(c, k)!Planned(found) : Grown(c, k, found, d)
    BY <1>4, PlannedGrows, Zenon DEF Grown
  <2>5. Grown(c, k, musSession, musSession')
    BY <1>4, <2>1, <2>3, <2>4, GrowsOn, Zenon
  <2>6. MountedOK(c, k, musMounted') /\ HeldOK(c, k, musHeld')
    BY <1>1, <2>1, MountsOK, Zenon DEF HeldOK
  <2> QED BY <2>2, <2>5, <2>6
<1> QED BY <1>6, <1>7

LEMMA PublishesTyped ==
  ASSUME NEW c, NEW k, IsLibrary(c, k), MusicTyped(c, k), Music(c, k)!Publishes
  PROVE  Stays(c, k)
<1>1. UNCHANGED <<musWorker, musFiles, musMusic>>
  BY Zenon DEF Music!Publishes
<1>2. QueueOK(c, k, musQueue) /\ HeldOK(c, k, musHeld)
  BY Zenon DEF MusicTyped
<1> DEFINE some == ~(musHeld = Nothing /\ musQueue.ready = <<>>)
           r == IF musHeld # Nothing THEN musHeld ELSE Head(musQueue.ready)
           left == musQueue.outstanding \ {r.package}
<1>3. CASE ~some
  <2>1. UNCHANGED <<musQueue, musCatalogue, musSession, musHeld, musMounted>>
    BY <1>3, Zenon DEF Music!Publishes
  <2> QED BY <1>1, <2>1, Zenon DEF MusicTyped, Stays
<1>4. CASE some
  <2>1. /\ musQueue' = IF musHeld # Nothing THEN musQueue
                       ELSE [musQueue EXCEPT !.ready = Tail(@), !.outstanding = left]
        /\ Music(c, k)!PublishCatalogue(r) \/ Music(c, k)!PublishPackage(r)
    BY <1>4, Zenon DEF Music!Publishes
  <2>2. /\ musQueue.ready \in Seq(Music(c, k)!Prepared \cup Music(c, k)!CatalogResult)
        /\ musQueue.outstanding \subseteq DOMAIN c /\ Cardinality(musQueue.outstanding) <= 2
    BY <1>2, Zenon DEF QueueOK
  <2>3. r \in Music(c, k)!Prepared \cup Music(c, k)!CatalogResult
    BY <1>2, <1>4, <2>2, HeadAndTail, Zenon DEF HeldOK
  <2>4. left \subseteq DOMAIN c /\ Cardinality(left) <= 2
    <3>1. IsFiniteSet(musQueue.outstanding)
      BY <2>2, LibraryIsFinite, FS_Subset
    <3> HIDE DEF r
    <3>2. IsFiniteSet(left) /\ Cardinality(left) <= Cardinality(musQueue.outstanding)
      BY <3>1, FS_Subset
    <3>3. Cardinality(musQueue.outstanding) \in Nat /\ Cardinality(left) \in Nat
      BY <3>1, <3>2, FS_CardinalityType
    <3>4. left \subseteq DOMAIN c
      BY <2>2
    <3> HIDE DEF left
    <3> QED BY <2>2, <3>2, <3>3, <3>4
  <2> HIDE DEF r, left
  <2>5. QueueOK(c, k, musQueue')
    <3>1. CASE musHeld # Nothing
      BY <1>2, <2>1, <3>1, Zenon
    <3>2. CASE musHeld = Nothing
      <4>1. Tail(musQueue.ready) \in Seq(Music(c, k)!Prepared \cup Music(c, k)!CatalogResult)
        BY <1>4, <2>2, <3>2, HeadAndTail, Zenon
      <4>2. musQueue' = [musQueue EXCEPT !.ready = Tail(@), !.outstanding = left]
        BY <2>1, <3>2, Zenon
      <4> QED BY <1>2, <2>4, <4>1, <4>2 DEF QueueOK
    <3> QED BY <3>1, <3>2
  <2>6. /\ CatalogueOK(c, k, musCatalogue') /\ Grown(c, k, musSession, musSession')
        /\ MountedOK(c, k, musMounted') /\ HeldOK(c, k, musHeld')
    <3>1. CASE Music(c, k)!PublishCatalogue(r)
      BY <3>1, PublishCatalogueOK
    <3>2. CASE Music(c, k)!PublishPackage(r)
      <4>1. r.package \in Music(c, k)!Packages
        BY <3>2, Zenon DEF Music!PublishPackage
      <4>2. r \in Music(c, k)!Prepared
        BY <2>3, <4>1 DEF Music!Prepared, Music!CatalogResult, Music!CatalogJob, Music!Packages
      <4> QED BY <3>2, <4>2, PublishPackageOK
    <3> QED BY <2>1, <3>1, <3>2
  <2>7. SessionOK(c, k, musSession') /\ Linked(musMusic', musSession')
    BY <1>1, <2>6, GrownStaysLinked, Zenon DEF MusicTyped, Grown
  <2> QED BY <1>1, <2>5, <2>6, <2>7, Zenon DEF MusicTyped, Stays
<1> QED BY <1>3, <1>4

-----------------------------------------------------------------------------
LEMMA ProbesOK ==
  ASSUME NEW c, NEW k, IsLibrary(c, k), MusicTyped(c, k), Music(c, k)!Probes
  PROVE  QueueOK(c, k, musQueue') /\ CatalogueOK(c, k, musCatalogue')
<1>1. QueueOK(c, k, musQueue) /\ CatalogueOK(c, k, musCatalogue)
  BY Zenon DEF MusicTyped
<1>2. \/ musQueue' = musQueue /\ musCatalogue' = musCatalogue
      \/ \E p \in musCatalogue.opening :
           /\ musQueue' = Music(c, k)!Request(musQueue, p, TRUE)
           /\ musCatalogue' = IF Music(c, k)!CanRequest(musQueue, p)
                              THEN [musCatalogue EXCEPT !.probing = p, !.opening = @ \ {p}]
                              ELSE musCatalogue
  BY Zenon DEF Music!Probes
<1>3. ASSUME NEW p \in musCatalogue.opening,
             musQueue' = Music(c, k)!Request(musQueue, p, TRUE),
             \/ musCatalogue' = [musCatalogue EXCEPT !.probing = p, !.opening = @ \ {p}]
             \/ musCatalogue' = musCatalogue
      PROVE  QueueOK(c, k, musQueue') /\ CatalogueOK(c, k, musCatalogue')
  <2>1. p \in Music(c, k)!Packages
    BY <1>1 DEF CatalogueOK
  <2>2. p \in DOMAIN c
    BY <2>1 DEF Music!Packages
  <2>3. QueueOK(c, k, musQueue')
    BY <1>1, <1>3, <2>2, RequestOK
  <2>4. CatalogueOK(c, k, musCatalogue')
    BY <1>1, <1>3, <2>1 DEF CatalogueOK
  <2> QED BY <2>3, <2>4
<1> QED BY <1>1, <1>2, <1>3, Zenon

\* SchedulePreparationLocked asks for packages of the library and loses no song ahead.
LEMMA SchedulesOK ==
  ASSUME NEW c, NEW k, IsLibrary(c, k), MusicTyped(c, k), Music(c, k)!SchedulePreparation
  PROVE  /\ QueueOK(c, k, musQueue') /\ CatalogueOK(c, k, musCatalogue')
         /\ Grown(c, k, musSession, musSession') /\ MountedOK(c, k, musMounted')
         /\ musWorker' = musWorker /\ musHeld' = musHeld /\ musFiles' = musFiles
<1>1. musWorker' = musWorker /\ musHeld' = musHeld /\ musFiles' = musFiles
  BY Zenon DEF Music!SchedulePreparation
<1>2. /\ QueueOK(c, k, musQueue) /\ CatalogueOK(c, k, musCatalogue)
      /\ Grown(c, k, musSession, musSession) /\ MountedOK(c, k, musMounted)
      /\ SessionOK(c, k, musSession) /\ StreamOK(c, k, musMusic)
  BY Zenon DEF MusicTyped, Grown
<1>3. \/ UNCHANGED <<musQueue, musCatalogue, musSession, musMounted>>
      \/ Music(c, k)!Probes \/ Music(c, k)!AsksCatalogue \/ Music(c, k)!WarmsNext
  BY Zenon DEF Music!SchedulePreparation
<1>4. CASE UNCHANGED <<musQueue, musCatalogue, musSession, musMounted>>
  BY <1>1, <1>2, <1>4, Zenon
<1>5. CASE Music(c, k)!Probes
  <2>1. UNCHANGED <<musSession, musMounted>>
    BY <1>5, Zenon DEF Music!Probes
  <2>2. QueueOK(c, k, musQueue') /\ CatalogueOK(c, k, musCatalogue')
    BY <1>5, ProbesOK
  <2> QED BY <1>1, <1>2, <2>1, <2>2, Zenon
<1>6. CASE Music(c, k)!AsksCatalogue
  <2>1. UNCHANGED <<musCatalogue, musSession, musMounted>>
        /\ (musQueue' = musQueue \/ musQueue' = Music(c, k)!Request(musQueue, Music(c, k)!CatalogJob, FALSE))
    BY <1>6, Zenon DEF Music!AsksCatalogue
  <2>2. Music(c, k)!CatalogJob \in DOMAIN c
    BY DEF Music!CatalogJob, IsLibrary
  <2>3. QueueOK(c, k, Music(c, k)!Request(musQueue, Music(c, k)!CatalogJob, FALSE))
    BY <1>2, <2>2, RequestOK
  <2> QED BY <1>1, <1>2, <2>1, <2>3, Zenon
<1>7. CASE Music(c, k)!WarmsNext
  <2>1. musCatalogue' = musCatalogue
    BY <1>7, Zenon DEF Music!WarmsNext
  <2>2. \/ UNCHANGED <<musQueue, musSession, musMounted>>
        \/ \E d \in Music(c, k)!Planned(musSession) :
             /\ musSession' = d /\ musMounted' = Music(c, k)!RetireCold(musMounted, d)
             /\ \/ musQueue' = musQueue
                \/ \E p \in Music(c, k)!NextToWarm(d, Music(c, k)!RetireCold(musMounted, d)) :
                     musQueue' = Music(c, k)!Request(musQueue, p, TRUE)
    BY <1>7, Zenon DEF Music!WarmsNext
  <2>3. ASSUME NEW d \in Music(c, k)!Planned(musSession),
               musSession' = d, musMounted' = Music(c, k)!RetireCold(musMounted, d),
               \/ musQueue' = musQueue
               \/ \E p \in Music(c, k)!NextToWarm(d, Music(c, k)!RetireCold(musMounted, d)) :
                    musQueue' = Music(c, k)!Request(musQueue, p, TRUE)
        PROVE  /\ QueueOK(c, k, musQueue') /\ Grown(c, k, musSession, musSession')
               /\ MountedOK(c, k, musMounted')
    <3>1. Grown(c, k, musSession, d)
      BY <1>2, PlannedGrows, Zenon
    <3>2. SessionOK(c, k, d)
      BY <3>1, Zenon DEF Grown
    <3>3. MountedOK(c, k, musMounted')
      BY <1>2, <2>3, RetireColdOK, Zenon
    <3>4. Music(c, k)!NextToWarm(d, Music(c, k)!RetireCold(musMounted, d)) \subseteq DOMAIN c
      BY <1>2, <3>2, NextToWarmOK, Zenon
    <3>5. ASSUME NEW p \in Music(c, k)!NextToWarm(d, Music(c, k)!RetireCold(musMounted, d))
          PROVE  QueueOK(c, k, Music(c, k)!Request(musQueue, p, TRUE))
      <4>1. p \in DOMAIN c
        BY <3>4
      <4> QED BY <1>2, <4>1, RequestOK
    <3>6. QueueOK(c, k, musQueue')
      BY <1>2, <2>3, <3>5, Zenon
    <3> QED BY <2>3, <3>1, <3>3, <3>6, Zenon
  <2> QED BY <1>1, <1>2, <2>1, <2>2, <2>3, Zenon
<1> QED BY <1>3, <1>4, <1>5, <1>6, <1>7

LEMMA SchedulesTyped ==
  ASSUME NEW c, NEW k, IsLibrary(c, k), MusicTyped(c, k), Music(c, k)!SchedulePreparation,
         musMusic' = musMusic
  PROVE  Stays(c, k)
<1>1. /\ QueueOK(c, k, musQueue') /\ CatalogueOK(c, k, musCatalogue')
      /\ Grown(c, k, musSession, musSession') /\ MountedOK(c, k, musMounted')
      /\ musWorker' = musWorker /\ musHeld' = musHeld /\ musFiles' = musFiles
  BY SchedulesOK
<1>2. SessionOK(c, k, musSession') /\ Linked(musMusic', musSession')
  BY <1>1, GrownStaysLinked, Zenon DEF MusicTyped, Grown
<1> QED BY <1>1, <1>2, Zenon DEF MusicTyped, Stays

LEMMA MenuLoadsTyped ==
  ASSUME NEW c, NEW k, IsLibrary(c, k), MusicTyped(c, k), Music(c, k)!MenuLoads
  PROVE  Stays(c, k)
<1>1. /\ Music(c, k)!StartsNext(musSession, Music(c, k)!NoCommand(musMusic))
      /\ UNCHANGED <<musQueue, musWorker, musCatalogue, musHeld, musMounted>>
  BY Zenon DEF Music!MenuLoads
<1>2. StreamOK(c, k, Music(c, k)!NoCommand(musMusic)) /\ Music(c, k)!NoCommand(musMusic).target = Nothing
  BY NoCommandOK, Zenon DEF MusicTyped
<1>3. /\ SessionOK(c, k, musSession') /\ StreamOK(c, k, musMusic')
      /\ Linked(musMusic', musSession') /\ FilesOK(c, k, musFiles')
  BY <1>1, <1>2, StartsNextOK, Zenon DEF MusicTyped
<1> QED BY <1>1, <1>3, Zenon DEF MusicTyped, Stays

\* Strikes change nothing of the playlist.
LEMMA StrikesGrow ==
  ASSUME NEW c, NEW k, NEW d, SessionOK(c, k, d), NEW f
  PROVE  Grown(c, k, d, [d EXCEPT !.strikes = f])
BY DEF Grown, SessionOK

LEMMA ObservesTyped ==
  ASSUME NEW c, NEW k, IsLibrary(c, k), MusicTyped(c, k), Music(c, k)!Observes
  PROVE  Stays(c, k)
<1> DEFINE rest == Music(c, k)!NoCommand(musMusic)
           off == [rest EXCEPT !.mode = "off", !.stream = Nothing, !.active = FALSE]
           Part == /\ SessionOK(c, k, musSession') /\ StreamOK(c, k, musMusic')
                   /\ Linked(musMusic', musSession') /\ FilesOK(c, k, musFiles')
                   /\ QueueOK(c, k, musQueue')
<1>1. /\ QueueOK(c, k, musQueue) /\ SessionOK(c, k, musSession) /\ StreamOK(c, k, musMusic)
      /\ Linked(musMusic, musSession) /\ FilesOK(c, k, musFiles)
  BY Zenon DEF MusicTyped
<1>2. /\ StreamOK(c, k, rest) /\ rest.target = Nothing /\ rest.mode = musMusic.mode
      /\ StreamOK(c, k, off)
  BY <1>1, NoCommandOK, Zenon
<1>3. UNCHANGED <<musWorker, musCatalogue, musHeld, musMounted>>
  BY Zenon DEF Music!Observes
<1>4. \/ Music(c, k)!SongEnds \/ Music(c, k)!SongFails \/ Music(c, k)!SongIsHeard
      \/ Music(c, k)!LibraryArrives \/ UNCHANGED <<musSession, musMusic, musFiles, musQueue>>
  BY Zenon DEF Music!Observes
<1>5. ASSUME Music(c, k)!SongEnds PROVE Part
  <2>1. \/ /\ musMusic' = off /\ musQueue' = [musQueue EXCEPT !.paused = TRUE]
           /\ UNCHANGED <<musSession, musFiles>>
        \/ Music(c, k)!StartsNext(musSession, rest) /\ musQueue' = musQueue
    BY <1>5, Zenon DEF Music!SongEnds
  <2>2. CASE /\ musMusic' = off /\ musQueue' = [musQueue EXCEPT !.paused = TRUE]
             /\ UNCHANGED <<musSession, musFiles>>
    <3>1. DOMAIN rest = {"mode", "stream", "active", "command", "target", "started"}
      BY <1>2, Zenon DEF StreamOK
    <3>2. QueueOK(c, k, [musQueue EXCEPT !.paused = TRUE])
      BY <1>1, QueueFlagsOK
    <3> HIDE DEF rest
    <3>3. off.mode # "playing" /\ off.target = Nothing
      BY <1>2, <3>1
    <3> HIDE DEF off
    <3> QED BY <1>1, <1>2, <2>2, <3>2, <3>3, Zenon DEF Linked
  <2>3. CASE Music(c, k)!StartsNext(musSession, rest) /\ musQueue' = musQueue
    BY <1>1, <1>2, <2>3, StartsNextOK, Zenon
  <2> QED BY <2>1, <2>2, <2>3
<1>6. ASSUME Music(c, k)!SongFails PROVE Part
  <2> DEFINE f == [musSession.strikes EXCEPT ![musSession.current] = @ + 1]
             d == [musSession EXCEPT !.strikes = f]
  <2>1. Music(c, k)!StartsNext([musSession EXCEPT !.strikes[musSession.current] = @ + 1], rest)
        /\ musQueue' = musQueue
    BY <1>6, Zenon DEF Music!SongFails
  <2>2. [musSession EXCEPT !.strikes[musSession.current] = @ + 1] = d
    BY <1>1 DEF SessionOK
  <2>3. Music(c, k)!StartsNext(d, rest)
    BY <2>1, <2>2, Zenon
  <2>4. SessionOK(c, k, d)
    BY <1>1, StrikesGrow, Zenon DEF Grown
  <2> HIDE DEF d, rest
  <2> QED BY <1>1, <1>2, <2>1, <2>3, <2>4, StartsNextOK, Zenon
<1>7. ASSUME Music(c, k)!SongIsHeard PROVE Part
  <2> DEFINE f == [musSession.strikes EXCEPT ![musSession.current] = 0]
  <2>1. /\ musSession' = [musSession EXCEPT !.strikes[musSession.current] = 0]
        /\ musMusic' = rest \/ musMusic' = musMusic
        /\ UNCHANGED <<musQueue, musFiles>>
    BY <1>7, Zenon DEF Music!SongIsHeard
  <2>2. musSession' = [musSession EXCEPT !.strikes = f]
    BY <1>1, <2>1 DEF SessionOK
  <2>3. Grown(c, k, musSession, musSession')
    BY <1>1, <2>2, StrikesGrow, Zenon
  <2> HIDE DEF rest
  <2>4. StreamOK(c, k, musMusic') /\ Linked(musMusic', musSession)
    BY <1>1, <1>2, <2>1, Zenon DEF Linked
  <2> QED BY <1>1, <2>1, <2>3, <2>4, GrownStaysLinked, Zenon DEF Grown
<1>8. ASSUME Music(c, k)!LibraryArrives PROVE Part
  <2>1. /\ musMusic.mode = "waiting" /\ Music(c, k)!StartsNext(musSession, musMusic)
        /\ musQueue' = musQueue
    BY <1>8, Zenon DEF Music!LibraryArrives
  <2>2. musMusic.target = Nothing
    BY <1>1, <2>1 DEF StreamOK
  <2> QED BY <1>1, <2>1, <2>2, StartsNextOK, Zenon
<1>9. Part
  <2>1. CASE UNCHANGED <<musSession, musMusic, musFiles, musQueue>>
    BY <1>1, <2>1, Zenon
  <2> QED BY <1>4, <1>5, <1>6, <1>7, <1>8, <2>1
<1> QED BY <1>3, <1>9, Zenon DEF MusicTyped, Stays

\* The guest's navigation changes the playlist, the stream and the files it opens.
LEMMA TakesCommandOK ==
  ASSUME NEW c, NEW k, IsLibrary(c, k), MusicTyped(c, k), Music(c, k)!TakesCommand
  PROVE  Stays(c, k)
<1>1. /\ musMusic.mode = "playing" /\ musMusic.command = Nothing
      /\ UNCHANGED <<musQueue, musCatalogue, musMounted, musWorker, musHeld, musFiles>>
  BY Zenon DEF Music!TakesCommand, Music!otherParts, Music!navRest
<1>2. PICK cmd \in {"next", "previous"}, d \in Music(c, k)!Planned(musSession) :
        /\ musSession' = d
        /\ musMusic' = [musMusic EXCEPT !.command = cmd,
             !.target = IF cmd = "next" THEN Music(c, k)!NextSong(d) ELSE Music(c, k)!PreviousSong(d)]
  BY <1>1, Zenon DEF Music!TakesCommand
<1> DEFINE n == Music(c, k)!NextSong(d)
           p == Music(c, k)!PreviousSong(d)
<1>3. /\ SessionOK(c, k, musSession) /\ StreamOK(c, k, musMusic) /\ Linked(musMusic, musSession)
  BY Zenon DEF MusicTyped
<1>4. Grown(c, k, musSession, d)
  BY <1>3, PlannedGrows, Zenon
<1>5. SessionOK(c, k, d) /\ d.current # Nothing
  BY <1>1, <1>3, <1>4, Zenon DEF Grown, Linked
<1>6. n # Nothing => n \in Music(c, k)!Songs /\ Lists(d.ahead, n)
  BY <1>5, NextIsAhead, Zenon
<1>7. p = d.current \/ (p \in Music(c, k)!Songs /\ Lists(d.past, p))
  BY <1>5, PreviousIsPast, Zenon
<1>8. d.current \in Music(c, k)!Songs
  BY <1>5 DEF SessionOK
<1>9. p \in Music(c, k)!Songs /\ p # Nothing
  BY <1>5, <1>7, <1>8, SongIsNotNothing, Zenon
<1>10. musMusic' = [musMusic EXCEPT !.command = cmd, !.target = IF cmd = "next" THEN n ELSE p]
  BY <1>2, Zenon
<1> HIDE DEF n, p
<1>11. StreamOK(c, k, musMusic')
  BY <1>1, <1>3, <1>6, <1>9, <1>10, NothingAssumption DEF StreamOK
<1>12. Linked(musMusic', d)
  <2>1. musMusic'.command = cmd /\ musMusic'.target = (IF cmd = "next" THEN n ELSE p)
    BY <1>3, <1>10 DEF StreamOK
  <2> QED BY <1>5, <1>6, <1>7, <2>1, Zenon DEF Linked
<1> QED BY <1>1, <1>2, <1>5, <1>11, <1>12, Zenon DEF MusicTyped, Stays

LEMMA FindsTargetOK ==
  ASSUME NEW c, NEW k, IsLibrary(c, k), MusicTyped(c, k), Music(c, k)!FindsTarget
  PROVE  Stays(c, k)
<1>1. /\ musMusic.mode = "playing" /\ musMusic.command # Nothing /\ musMusic.target = Nothing
      /\ UNCHANGED <<musQueue, musCatalogue, musMounted, musWorker, musHeld, musFiles>>
  BY Zenon DEF Music!FindsTarget, Music!Pending, Music!otherParts, Music!navRest
<1>2. PICK d \in Music(c, k)!Planned(musSession) :
        /\ musSession' = d /\ Music(c, k)!NextSong(d) # Nothing
        /\ musMusic' = [musMusic EXCEPT !.target = Music(c, k)!NextSong(d)]
  BY Zenon DEF Music!FindsTarget
<1> DEFINE n == Music(c, k)!NextSong(d)
<1>3. /\ SessionOK(c, k, musSession) /\ StreamOK(c, k, musMusic) /\ Linked(musMusic, musSession)
  BY Zenon DEF MusicTyped
<1>4. Grown(c, k, musSession, d)
  BY <1>3, PlannedGrows, Zenon
<1>5. SessionOK(c, k, d) /\ d.current # Nothing
  BY <1>1, <1>3, <1>4, Zenon DEF Grown, Linked
<1>6. n \in Music(c, k)!Songs /\ Lists(d.ahead, n) /\ n # Nothing
  BY <1>2, <1>5, NextIsAhead, Zenon
<1>7. musMusic.command = "next"
  BY <1>1, <1>3 DEF StreamOK
<1>8. musMusic' = [musMusic EXCEPT !.target = n]
  BY <1>2, Zenon
<1> HIDE DEF n
<1>9. StreamOK(c, k, musMusic') /\ musMusic'.command = "next" /\ musMusic'.target = n
  BY <1>1, <1>3, <1>6, <1>7, <1>8, NothingAssumption DEF StreamOK
<1>10. Linked(musMusic', d)
  BY <1>5, <1>6, <1>9, Zenon DEF Linked
<1> QED BY <1>1, <1>2, <1>5, <1>9, <1>10, Zenon DEF MusicTyped, Stays

LEMMA StartsTargetOK ==
  ASSUME NEW c, NEW k, IsLibrary(c, k), MusicTyped(c, k), Music(c, k)!StartsTarget
  PROVE  Stays(c, k)
<1> DEFINE t == musMusic.target
<1>1. /\ musMusic.mode = "playing" /\ musMusic.command # Nothing /\ ~musMusic.started
      /\ t # Nothing
      /\ UNCHANGED <<musQueue, musCatalogue, musMounted, musWorker, musHeld>>
  BY Zenon DEF Music!StartsTarget, Music!Pending, Music!otherParts
<1>2. /\ musSession' = IF musMusic.command = "next" THEN Music(c, k)!SelectNext(musSession, t)
                       ELSE Music(c, k)!SelectPrevious(musSession, t)
      /\ musMusic' = [Music(c, k)!Plays(musMusic, t) EXCEPT !.started = TRUE]
      /\ Music(c, k)!OpensFile(t)
  BY Zenon DEF Music!StartsTarget
<1>3. /\ SessionOK(c, k, musSession) /\ StreamOK(c, k, musMusic) /\ Linked(musMusic, musSession)
      /\ FilesOK(c, k, musFiles)
  BY Zenon DEF MusicTyped
<1>4. t \in Music(c, k)!Songs /\ musMusic.command \in {"next", "previous"}
  BY <1>1, <1>3 DEF StreamOK
<1>5. musSession.current \in Music(c, k)!Songs
  BY <1>1, <1>3 DEF SessionOK, Linked
<1>6. SessionOK(c, k, musSession') /\ musSession'.current = t
  <2>1. CASE musMusic.command = "next"
    <3>1. Lists(musSession.ahead, t)
      BY <1>1, <1>3, <2>1, Zenon DEF Linked
    <3>2. musSession' = Music(c, k)!SelectNext(musSession, t)
      BY <1>2, <2>1, Zenon
    <3>3. SessionOK(c, k, musSession)
      BY <1>3
    <3> HIDE DEF t
    <3>4. /\ SessionOK(c, k, Music(c, k)!SelectNext(musSession, t))
          /\ Music(c, k)!SelectNext(musSession, t).current = t
      BY <1>4, <3>1, <3>3, SelectNextOK
    <3> QED BY <3>2, <3>4, Zenon
  <2>2. CASE musMusic.command # "next"
    <3>1. t = musSession.current \/ Lists(musSession.past, t)
      BY <1>1, <1>3, <2>2, Zenon DEF Linked
    <3>2. musSession' = Music(c, k)!SelectPrevious(musSession, t)
      BY <1>2, <2>2, Zenon
    <3>3. SessionOK(c, k, musSession)
      BY <1>3
    <3> HIDE DEF t
    <3>4. /\ SessionOK(c, k, Music(c, k)!SelectPrevious(musSession, t))
          /\ Music(c, k)!SelectPrevious(musSession, t).current = t
      BY <1>4, <1>5, <3>1, <3>3, SelectPreviousOK
    <3> QED BY <3>2, <3>4, Zenon
  <2> QED BY <2>1, <2>2
<1>7. musMusic' = [musMusic EXCEPT !.mode = "playing", !.stream = t, !.active = TRUE, !.started = TRUE]
  <2>1. Music(c, k)!Plays(musMusic, t)
          = [musMusic EXCEPT !.mode = "playing", !.stream = t, !.active = TRUE]
    BY Zenon DEF Music!Plays
  <2> QED BY <1>2, <1>3, <2>1 DEF StreamOK
<1>8. StreamOK(c, k, musMusic') /\ musMusic'.started
  BY <1>1, <1>3, <1>4, <1>7 DEF StreamOK
<1>9. Linked(musMusic', musSession')
  BY <1>1, <1>6, <1>8, Zenon DEF Linked
<1>10. FilesOK(c, k, musFiles')
  <2>1. musFiles' = musFiles \cup ({t[1]} \ {0})
    BY <1>2, Zenon DEF Music!OpensFile
  <2>2. t[1] \in DOMAIN c
    BY <1>4, SongHasPackage, Zenon
  <2> HIDE DEF t
  <2> QED BY <1>3, <2>1, <2>2 DEF FilesOK, Music!Packages
<1> QED BY <1>1, <1>6, <1>8, <1>9, <1>10, Zenon DEF MusicTyped, Stays

\* The command is dropped, perhaps with the stream.
Drops(c, k, m, n) ==
  \/ n = m \/ n = Music(c, k)!NoCommand(m)
  \/ n = [Music(c, k)!NoCommand(m) EXCEPT !.mode = "off", !.stream = Nothing, !.active = FALSE]

LEMMA DropsOK ==
  ASSUME NEW c, NEW k, NEW m, StreamOK(c, k, m), NEW d, Linked(m, d), NEW n, Drops(c, k, m, n)
  PROVE  StreamOK(c, k, n) /\ Linked(n, d)
<1> DEFINE rest == Music(c, k)!NoCommand(m)
           off == [rest EXCEPT !.mode = "off", !.stream = Nothing, !.active = FALSE]
<1>2. /\ StreamOK(c, k, rest) /\ rest.target = Nothing /\ rest.mode = m.mode
      /\ StreamOK(c, k, off)
  BY NoCommandOK, Zenon
<1>4. off.mode = "off" /\ off.target = Nothing
  <2>1. DOMAIN rest = {"mode", "stream", "active", "command", "target", "started"}
    BY <1>2, Zenon DEF StreamOK
  <2> HIDE DEF rest
  <2> QED BY <1>2, <2>1
<1> HIDE DEF rest, off
<1>5. Linked(rest, d)
  BY <1>2, Zenon DEF Linked
<1>6. Linked(off, d)
  <2>1. off.mode # "playing"
    BY <1>4
  <2> QED BY <1>4, <2>1, Zenon DEF Linked
<1> QED BY <1>2, <1>5, <1>6, Zenon DEF Drops, rest, off

\* A step that drops the command and touches no other part but the queue's flags.
LEMMA DropsCommand ==
  ASSUME NEW c, NEW k, MusicTyped(c, k), Drops(c, k, musMusic, musMusic'),
         \/ musQueue' = musQueue
         \/ \E b : musQueue' = [musQueue EXCEPT !.paused = b]
         \/ \E b : musQueue' = [musQueue EXCEPT !.stopped = b],
         UNCHANGED <<musWorker, musCatalogue, musSession, musHeld, musMounted, musFiles>>
  PROVE  Stays(c, k)
<1>1. QueueOK(c, k, musQueue) /\ StreamOK(c, k, musMusic) /\ Linked(musMusic, musSession)
  BY Zenon DEF MusicTyped
<1>2. QueueOK(c, k, musQueue')
  <2>1. /\ \A b : QueueOK(c, k, [musQueue EXCEPT !.paused = b])
        /\ \A b : QueueOK(c, k, [musQueue EXCEPT !.stopped = b])
    BY <1>1, QueueFlagsOK
  <2> QED BY <1>1, <2>1
<1>3. StreamOK(c, k, musMusic') /\ Linked(musMusic', musSession)
  BY <1>1, DropsOK, Zenon
<1> QED BY <1>2, <1>3, Zenon DEF MusicTyped, Stays

LEMMA NavigatesTyped ==
  ASSUME NEW c, NEW k, IsLibrary(c, k), MusicTyped(c, k), Music(c, k)!Navigates
  PROVE  Stays(c, k)
<1>1. CASE Music(c, k)!PassesCommand
  BY <1>1, DropsCommand, Zenon DEF Drops, Music!PassesCommand, Music!otherParts, Music!navRest
<1>2. CASE Music(c, k)!GivesUpTarget
  BY <1>2, DropsCommand, Zenon DEF Drops, Music!GivesUpTarget, Music!otherParts, Music!navRest
<1>3. CASE Music(c, k)!WaitsForTarget
  BY <1>3, SchedulesTyped, Zenon DEF Music!WaitsForTarget
<1> QED
  BY <1>1, <1>2, <1>3, TakesCommandOK, FindsTargetOK, StartsTargetOK, Zenon DEF Music!Navigates

LEMMA LeavesTyped ==
  ASSUME NEW c, NEW k, MusicTyped(c, k),
         Music(c, k)!ForgetMenuMusic \/ Music(c, k)!CloseQueuedPool \/ Music(c, k)!FileCloses
  PROVE  Stays(c, k)
<1>1. CASE Music(c, k)!ForgetMenuMusic
  BY <1>1, DropsCommand, Zenon DEF Drops, Music!ForgetMenuMusic
<1>2. CASE Music(c, k)!CloseQueuedPool
  BY <1>2, DropsCommand, Zenon DEF Drops, Music!CloseQueuedPool
<1>3. CASE Music(c, k)!FileCloses
  <2>1. /\ \E p \in musFiles : musFiles' = musFiles \ {p}
        /\ UNCHANGED <<musQueue, musWorker, musCatalogue, musSession, musHeld, musMounted, musMusic>>
    BY <1>3, Zenon DEF Music!FileCloses
  <2>2. musFiles \subseteq Music(c, k)!Packages
    BY Zenon DEF MusicTyped, FilesOK
  <2>3. FilesOK(c, k, musFiles')
    BY <2>1, <2>2 DEF FilesOK
  <2> QED BY <2>1, <2>3, Zenon DEF MusicTyped, Stays
<1> QED BY <1>1, <1>2, <1>3

\* The music's types are an inductive invariant, for every library.
LEMMA MusicStaysTyped ==
  ASSUME NEW c, NEW k, IsLibrary(c, k), MusicTyped(c, k),
         Music(c, k)!Next \/ UNCHANGED musVars
  PROVE  MusicTyped(c, k)'
<1>1. CASE UNCHANGED musVars
  BY <1>1, Zenon DEF musVars, MusicTyped
<1>2. SUFFICES ASSUME Music(c, k)!Next PROVE Stays(c, k)
  BY <1>1, Zenon DEF MusicTyped, Stays
<1>3. CASE Music(c, k)!WorkerStep
  BY <1>3, WorkerTakesTyped, PreparesPackageTyped, ReadsRecordTyped, EndsBatchTyped, Zenon
     DEF Music!WorkerStep
<1>4. CASE Music(c, k)!WorkerStops
  BY <1>4, WorkerStopsTyped
<1>5. CASE \E why \in {"poll", "ask", "loading"} : Music(c, k)!GuestBegins(why)
  BY <1>5, GuestBeginsTyped, Zenon
<1>6. CASE Music(c, k)!GuestStep
  <2>1. CASE Music(c, k)!Schedules
    BY <2>1, SchedulesTyped, Zenon DEF Music!Schedules
  <2> QED BY <1>6, <2>1, PublishesTyped, MenuLoadsTyped, NavigatesTyped, ObservesTyped, Zenon
             DEF Music!GuestStep
<1>7. CASE Music(c, k)!ForgetMenuMusic \/ Music(c, k)!CloseQueuedPool \/ Music(c, k)!FileCloses
  BY <1>7, LeavesTyped
<1> QED BY <1>2, <1>3, <1>4, <1>5, <1>6, <1>7, Zenon DEF Music!Next

\* The types of the music, for every library, window and number of places.
THEOREM MusicTypesAlways ==
  Music(ColdCount, ColdCaches)!Spec => []Music(ColdCount, ColdCaches)!MusicTypeOK
<1> DEFINE Typed == MusicTyped(ColdCount, ColdCaches)
<1>1. Music(ColdCount, ColdCaches)!Init => Typed
  BY InitTyped, LibrariesAssumption
<1>2. Typed /\ [Music(ColdCount, ColdCaches)!Next]_(Music(ColdCount, ColdCaches)!vars) => Typed'
  BY MusicStaysTyped, LibrariesAssumption DEF Music!vars, musVars
<1>3. Typed => Music(ColdCount, ColdCaches)!MusicTypeOK
  BY TypedMusic
<1> QED BY <1>1, <1>2, <1>3, PTL DEF Music!Spec

-----------------------------------------------------------------------------
(* The application: every step is one of a part's, or none.                *)

LibraryTyped ==
  IF which = "warm music" THEN MusicTyped(WarmCount, WarmCaches)
  ELSE MusicTyped(ColdCount, ColdCaches)

AppInv == RestartInv /\ GateInv /\ FlagsOK /\ ValuesOK /\ MusicInv /\ LibraryTyped

LEMMA AppInit == Chosen => AppInv
<1> SUFFICES ASSUME Chosen PROVE AppInv
  OBVIOUS
<1>1. /\ Restart!Init /\ Init
      /\ IF which = "warm music" THEN Music(WarmCount, WarmCaches)!Init
         ELSE Music(ColdCount, ColdCaches)!Init
  BY Zenon DEF Chosen
<1>2. RestartInv /\ GateInv /\ FlagsOK /\ ValuesOK
  BY <1>1, RestartInit, GateInit, TypesInit, Zenon
<1>3. MusicInv
  BY <1>1, MusicInit, Zenon
<1>4. LibraryTyped
  BY <1>1, InitTyped, LibrariesAssumption, Zenon DEF LibraryTyped
<1> QED BY <1>2, <1>3, <1>4, Zenon DEF AppInv

LEMMA AppKeeps == AppInv /\ [AnyStep]_allVars => AppInv'
<1> SUFFICES ASSUME AppInv, [AnyStep]_allVars PROVE AppInv'
  OBVIOUS
<1>1. /\ [Restart!Next]_(Restart!vars) /\ [Next]_vars
      /\ IF which = "warm music" THEN [Music(WarmCount, WarmCaches)!Next]_musVars
         ELSE [Music(ColdCount, ColdCaches)!Next]_musVars
      /\ which' = which
  BY PartsStep, Zenon
<1>2. RestartInv' /\ GateInv' /\ FlagsOK' /\ ValuesOK'
  BY <1>1, RestartKeeps, GateKeeps, FlagsKept, ValuesKept, Zenon DEF AppInv
<1>3. MusicInv'
  BY <1>1, MusicKeeps, Zenon DEF AppInv
<1>4. LibraryTyped'
  <2>1. CASE which = "warm music"
    <3>1. MusicTyped(WarmCount, WarmCaches)
      BY <2>1, Zenon DEF AppInv, LibraryTyped
    <3>2. MusicTyped(WarmCount, WarmCaches)'
      BY <1>1, <2>1, <3>1, MusicStaysTyped, LibrariesAssumption, Zenon
    <3> QED BY <1>1, <2>1, <3>2, Zenon DEF LibraryTyped
  <2>2. CASE which # "warm music"
    <3>1. MusicTyped(ColdCount, ColdCaches)
      BY <2>2, Zenon DEF AppInv, LibraryTyped
    <3>2. MusicTyped(ColdCount, ColdCaches)'
      BY <1>1, <2>2, <3>1, MusicStaysTyped, LibrariesAssumption, Zenon
    <3> QED BY <1>1, <2>2, <3>2, Zenon DEF LibraryTyped
  <2> QED BY <2>1, <2>2
<1> QED BY <1>2, <1>3, <1>4, Zenon DEF AppInv

\* The variables of the part that runs have their types: of the restart, the gate
\* and the music, of either library.
THEOREM ApplicationTypesAlways == Application => []ApplicationTypeOK
<1>1. AppInv => ApplicationTypeOK
  <2>1. AppInv => Restart!RestartTypeOK /\ PreparationTypeOK
    BY PreparationTypes, Zenon DEF AppInv, RestartInv
  <2>2. AppInv /\ which = "music" => Music(ColdCount, ColdCaches)!MusicTypeOK
    BY TypedMusic DEF AppInv, LibraryTyped
  <2>3. AppInv /\ which = "warm music" => Music(WarmCount, WarmCaches)!MusicTypeOK
    BY TypedMusic DEF AppInv, LibraryTyped
  <2> QED BY <2>1, <2>2, <2>3, Zenon DEF ApplicationTypeOK
<1> QED BY <1>1, AppInit, AppKeeps, PTL DEF Application

\* The parts' invariants hold together of the whole application.
THEOREM ApplicationIsSafe == Application => [](OneGame /\ OneLedgerWriter /\ StreamIsMounted)
<1>1. AppInv => OneGame /\ OneLedgerWriter /\ StreamIsMounted
  BY DEF AppInv, RestartInv, OneGame, GateInv, MusicInv, ExtractionIsOpen, ClosedIsQuiet,
         OneLedgerWriter
<1> QED BY <1>1, AppInit, AppKeeps, PTL DEF Application

=============================================================================
