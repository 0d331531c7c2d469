---------------------------- MODULE MCApplication -----------------------------
(***************************************************************************)
(* Three parts of the application beside the store, one per behaviour: the *)
(* restart of the game (GameRestart), the graphics gate                    *)
(* (GraphicsPreparation) and the menu's music (MenuMusic).  They share no  *)
(* state, so a behaviour picks one of them and the others keep their       *)
(* initial state; the modules are checked together only to be checked in   *)
(* one run.  The music's library is unknown at boot, or ("warm music") all  *)
(* of it is in the catalogue's cache, and places run out.                  *)
(***************************************************************************)
EXTENDS GraphicsPreparation, FiniteSets

CONSTANTS
  MaxAsks,                                  \* GameRestart
  ColdCount, WarmCount,                     \* MenuMusic's Count, by library
  ColdCaches, WarmCaches,                   \* its Caches
  Ahead, Behind, Resident, Strikes, Batch, Nothing

ASSUME AsksAssumption == MaxAsks \in Nat

\* Packages are numbered without a gap from the game's own, and a cache knows some of them.
IsLibrary(count, caches) ==
  /\ IsFiniteSet(DOMAIN count) /\ 0 \in DOMAIN count
  /\ count \in [0..(Cardinality(DOMAIN count) - 1) -> Nat]
  /\ caches \subseteq SUBSET (DOMAIN count \ {0})
ASSUME LibrariesAssumption ==
  IsLibrary(ColdCount, ColdCaches) /\ IsLibrary(WarmCount, WarmCaches)
ASSUME WindowAssumption ==
  Ahead \in Nat /\ Behind \in Nat /\ Resident \in Nat /\ Batch \in Nat
\* Neither a command nor a song is Nothing.
ASSUME NothingAssumption == Nothing \notin {"next", "previous"} \cup (Nat \X Nat)

\* The libraries of the run: two packages of a song each, and three of which two
\* may be mounted.
TwoPackages == [x \in 0..2 |-> 1]
ThreePackages == [x \in 0..3 |-> IF x = 0 THEN 0 ELSE 1]
NoCache == {{}}
FullCache == {{1, 2, 3}}

VARIABLES
  which,  \* the part of this behaviour
  rstGame, rstPid, rstHandler, rstPhase, rstRequested, rstSpawned, rstChild,
  rstAsks,
  musQueue, musWorker, musCatalogue, musSession, musHeld, musMounted,
  musFiles, musMusic, musGuest, musAllowed, musClosing

Restart == INSTANCE GameRestart WITH game <- rstGame,
  pid <- rstPid, handler <- rstHandler, phase <- rstPhase,
  requested <- rstRequested, spawned <- rstSpawned, child <- rstChild,
  asks <- rstAsks

\* One library each: the songs of its packages and what its cache may hold.
Music(Count, Caches) == INSTANCE MenuMusic WITH
  queue <- musQueue, worker <- musWorker,
  catalogue <- musCatalogue, session <- musSession, held <- musHeld,
  mounted <- musMounted, files <- musFiles, music <- musMusic,
  guest <- musGuest, allowed <- musAllowed, closing <- musClosing

rstVars == <<rstGame, rstPid, rstHandler, rstPhase, rstRequested, rstSpawned,
             rstChild, rstAsks>>
musVars == <<musQueue, musWorker, musCatalogue, musSession, musHeld,
             musMounted, musFiles, musMusic, musGuest, musAllowed, musClosing>>

allVars == <<which, rstVars, vars, musVars>>

\* A component that is not picked starts, and stays, in one initial state.
Chosen ==
  /\ which \in {"restart", "graphics", "music", "warm music"}
  /\ Restart!Init /\ Init
  /\ IF which = "warm music" THEN Music(WarmCount, WarmCaches)!Init ELSE Music(ColdCount, ColdCaches)!Init

OnlyRestart ==
  which = "restart" /\ UNCHANGED <<which, vars, musVars>>
OnlyGate ==
  which = "graphics" /\ UNCHANGED <<which, rstVars, musVars>>
OnlyMusic ==
  which = "music" /\ UNCHANGED <<which, rstVars, vars>>
OnlyWarm ==
  which = "warm music" /\ UNCHANGED <<which, rstVars, vars>>

AnyStep ==
  \/ OnlyRestart /\ Restart!Next
  \/ OnlyGate /\ Next
  \/ OnlyMusic /\ Music(ColdCount, ColdCaches)!Next
  \/ OnlyWarm /\ Music(WarmCount, WarmCaches)!Next

\* Each part's own fairness.
PartsFairness ==
  /\ WF_allVars(OnlyRestart /\ Restart!ChildStep)
  /\ WF_allVars(OnlyRestart /\ (Restart!RequestRefused \/ Restart!RequestSpawns \/ Restart!PostClose))
  /\ WF_allVars(OnlyRestart /\ rstGame = "closing" /\ Restart!GameEnds)
  /\ WF_allVars(OnlyGate /\ Poll)
  /\ WF_allVars(OnlyGate /\ QueryReady)
  /\ WF_allVars(OnlyGate /\ StartExtraction)
  /\ WF_allVars(OnlyGate /\ Begins)
  /\ WF_allVars(OnlyGate /\ (AttemptBegins \/ ExitEnds))
  /\ WF_allVars(OnlyGate /\ WorkerEnds)
  /\ WF_allVars(OnlyGate /\ GpuEnds)
  /\ WF_allVars(OnlyGate /\ (Closing /\ CloseLoading))
  /\ WF_allVars(OnlyMusic /\ Music(ColdCount, ColdCaches)!Polls)
  /\ WF_allVars(OnlyWarm /\ Music(WarmCount, WarmCaches)!Polls)
  /\ WF_allVars(OnlyMusic /\ Music(ColdCount, ColdCaches)!GuestStep)
  /\ WF_allVars(OnlyWarm /\ Music(WarmCount, WarmCaches)!GuestStep)
  /\ WF_allVars(OnlyMusic /\ Music(ColdCount, ColdCaches)!WorkerStep)
  /\ WF_allVars(OnlyWarm /\ Music(WarmCount, WarmCaches)!WorkerStep)
  /\ WF_allVars(OnlyMusic /\ Music(ColdCount, ColdCaches)!FileCloses)
  /\ WF_allVars(OnlyWarm /\ Music(WarmCount, WarmCaches)!FileCloses)

Application == Chosen /\ [][AnyStep]_allVars /\ PartsFairness

-----------------------------------------------------------------------------
(* The properties, as their modules state them                             *)

\* Every variable of the part that runs has its type.
ApplicationTypeOK ==
  /\ which = "restart" => Restart!RestartTypeOK
  /\ which = "graphics" => PreparationTypeOK
  /\ which = "music" => Music(ColdCount, ColdCaches)!MusicTypeOK
  /\ which = "warm music" => Music(WarmCount, WarmCaches)!MusicTypeOK

\* GameRestart: two processes are never the game, one boot starts one child.
OneGame == Restart!OneGame
\* GameRestart: a close for a restart leaves no child waiting.
ChildDecides == which = "restart" => Restart!ChildDecides

\* MenuMusic: the package of the song that plays stays mounted.
StreamIsMounted == Music(ColdCount, ColdCaches)!StreamIsMounted
\* MenuMusic: the wait for the library ends.
WaitsWithSongs ==
  IF which = "warm music" THEN Music(WarmCount, WarmCaches)!WaitsWithSongs ELSE Music(ColdCount, ColdCaches)!WaitsWithSongs
LibraryPlaysOn ==
  which \in {"music", "warm music"} => (WaitsWithSongs ~> ~WaitsWithSongs)
=============================================================================
