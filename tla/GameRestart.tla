----------------------------- MODULE GameRestart ------------------------------
(***************************************************************************)
(* The restart coordinator (src/src/platform/game_restart.cpp), the        *)
(* handler that drives it (rb_blitz_app.h) and the bootstrap the child     *)
(* runs before its own wWinMain (main.cpp): two processes that must never  *)
(* be the game at once.                                                    *)
(*                                                                         *)
(* The guest thread runs the handler and waits for its UI call; the UI     *)
(* thread closes the window; the child looks at the pid its handoff names, *)
(* opens it and waits.  A process that ends gives its pid back, and the    *)
(* system may hand it to another process.                                  *)
(*                                                                         *)
(* Abstracted: the token's text and the rebuilt command line (a child's    *)
(* token is well formed), the drain of the library refresh                 *)
(* (LibraryRefresh), request ids, and the clock: the bootstrap's 30 s pass *)
(* at any time while the parent lives.                                     *)
(***************************************************************************)
EXTENDS Naturals

CONSTANT MaxAsks  \* bound: restart requests

VARIABLES
  game,       \* the old process: running, closing (RequestClose posted), gone
  pid,        \* who has the pid the token names
  handler,    \* the guest thread inside the restart handler
  phase,      \* RestartCoordinator::phase_
  requested,  \* requested_
  spawned,    \* spawned_
  child,      \* the child process
  asks        \* requests so far

vars == <<game, pid, handler, phase, requested, spawned, child, asks>>

coordinatorVars == <<phase, requested, spawned>>

RestartTypeOK ==
  /\ game \in {"running", "closing", "gone"}
  /\ pid \in {"parent", "nobody", "stranger"}
  /\ handler \in {"idle", "ui", "post"}
  /\ phase \in {"idle", "ready", "failed"}
  /\ requested \in BOOLEAN
  /\ spawned \in 0 .. 1
  /\ child \in {"none", "start", "wait", "game", "refused"}
  /\ asks \in 0 .. MaxAsks

Init ==
  /\ game = "running" /\ pid = "parent"
  /\ handler = "idle"
  /\ phase = "idle" /\ requested = FALSE /\ spawned = 0
  /\ child = "none"
  /\ asks = 0

-----------------------------------------------------------------------------
(* The old process                                                         *)

Alive == game # "gone"

\* The settings sink calls the handler on the guest thread.
AskRestart ==
  /\ Alive /\ handler = "idle" /\ asks < MaxAsks
  /\ handler' = "ui" /\ asks' = asks + 1
  /\ UNCHANGED <<game, pid, coordinatorVars, child>>

\* ResetAfterFailure, then what Request finds.
InFlight == requested /\ phase # "failed"

\* Whether a child process is there already: one per boot.
SpawnAgain == TRUE  \* faulty variant: nobody looks
MaySpawn == ~InFlight

\* The handler goes on to post the close when the phase is ready, whichever
\* request made it so.
JudgeAlways == handler' = "post"  \* faulty variant: the phase is not asked
Judge == handler' = IF phase' = "ready" THEN "post" ELSE "idle"

\* Request refuses: one is in flight, or the revision is stale or not saved.
RequestRefused ==
  /\ Alive /\ handler = "ui"
  /\ IF InFlight
     THEN UNCHANGED coordinatorVars
     ELSE phase' = "idle" /\ requested' = FALSE /\ UNCHANGED spawned
  /\ Judge
  /\ UNCHANGED <<game, pid, child, asks>>

\* Request takes the restart: CreateProcess starts the child, or fails, which
\* keeps the game and can be asked for again.
RequestSpawns ==
  /\ Alive /\ handler = "ui" /\ MaySpawn
  /\ requested' = TRUE
  /\ \/ /\ phase' = "ready" /\ spawned' = spawned + 1
        /\ child' = "start"
     \/ /\ phase' = "failed" /\ UNCHANGED <<spawned, child>>
  /\ Judge
  /\ UNCHANGED <<game, pid, asks>>

\* CallInUIThreadDeferred posts RequestClose, or the UI loop has ended.
PostClose ==
  /\ Alive /\ handler = "post"
  /\ game' \in {game, "closing"}
  /\ handler' = "idle"
  /\ UNCHANGED <<pid, coordinatorVars, child, asks>>

\* The window closes, _Exit(0); or the player closes it, or it crashes.
GameEnds ==
  /\ Alive
  /\ game' = "gone" /\ pid' = "nobody"
  /\ UNCHANGED <<handler, coordinatorVars, child, asks>>

PidReused ==
  /\ pid = "nobody"
  /\ pid' = "stranger"
  /\ UNCHANGED <<game, handler, coordinatorVars, child, asks>>

-----------------------------------------------------------------------------
(* The child's bootstrap                                                   *)

\* WaitForExit's outcomes, as RunBootstrap and main.cpp take them: main exits
\* on any reported error, the reused pid's included.
OpensParent ==
  /\ child = "start"
  /\ \/ pid = "parent" /\ child' = "wait"
     \/ pid = "nobody" /\ child' = "game"
     \/ pid = "stranger" /\ child' = "refused"
     \/ pid # "nobody" /\ child' = "refused"  \* OpenProcess fails
  /\ UNCHANGED <<game, pid, handler, coordinatorVars, asks>>

TimeoutStarts == "game"  \* faulty variant
AfterTimeout == "refused"

\* The open handle keeps the wait bound to the parent itself.
WaitEnds ==
  /\ child = "wait"
  /\ \/ ~Alive /\ child' = "game"
     \/ Alive /\ child' = AfterTimeout
  /\ UNCHANGED <<game, pid, handler, coordinatorVars, asks>>

ChildStep == OpensParent \/ WaitEnds

-----------------------------------------------------------------------------
Next == AskRestart \/ RequestRefused \/ RequestSpawns \/ PostClose \/ GameEnds
        \/ PidReused \/ ChildStep

Spec == Init /\ [][Next]_vars

\* The child runs, the handler's UI call returns, and a posted close is served.
Fairness ==
  /\ WF_vars(ChildStep)
  /\ WF_vars(RequestRefused \/ RequestSpawns \/ PostClose)
  /\ WF_vars(game = "closing" /\ GameEnds)

FairSpec == Spec /\ Fairness

-----------------------------------------------------------------------------
(* Properties                                                              *)

\* Two processes are never the game at once, however long the close takes, and
\* one boot starts one child, however often it is asked and fails.
OneGame ==
  /\ child = "game" => ~Alive
  /\ spawned <= 1
  /\ spawned = 0 <=> child = "none"

\* A close for a restart ends with the child as the game or with a child that
\* refused; it does not leave one waiting.
ChildDecides == (game = "closing") ~> (child \in {"game", "refused"})

-----------------------------------------------------------------------------
(* A claim of the code's comments that the code does not keep              *)

\* game_restart.cpp, on a reused pid: "the process we were told to wait for no
\* longer exists. Starting is correct".  RunBootstrap answers kStartGame with
\* the observation in error, and main.cpp exits on any error.
ReusedPidStarts ==
  [][child = "start" /\ pid = "stranger" /\ child' # child => child' = "game"]_vars
=============================================================================
