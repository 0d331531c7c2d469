---------------------------- MODULE SongLoadMonitor ----------------------------
(***************************************************************************)
(* The song-load watchdog of platform/song_load_monitor.cpp: the game and  *)
(* a small monitor process share one page of three words.  The game arms   *)
(* it when a loading screen is set up and retires it when the load         *)
(* completes or is left (loading/crash_recovery.cpp, called from the hooks *)
(* of loading/load_trace.cpp and from the window's close handler); the     *)
(* monitor polls it, claims a load whose deadline has passed, terminates   *)
(* the game, waits until it is gone and starts a replacement.              *)
(*                                                                         *)
(* No lock covers the page: each read, write and compare-exchange of it is *)
(* one step here.  The clock counts whole deadlines' units; the guard's    *)
(* Off, 30 s and 60 s are members of Timeouts (0 is Off).                  *)
(***************************************************************************)
EXTENDS Naturals

CONSTANTS
    Timeouts,       \* the guard's settings, in clock units; 0 is "off"
    RecoverCrashes, \* the cvar song_load_crash_recovery of this boot
    MaxClock,       \* bound: the clock stops here, and no load is due later
    MaxLoads        \* bound: loads the game begins

ASSUME MonitorAssumption ==
    /\ Timeouts \subseteq Nat
    /\ RecoverCrashes \in BOOLEAN
    /\ MaxClock \in Nat \ {0}
    /\ MaxLoads \in Nat

Retired == 0
Active  == 1
Claimed == 2

\* The guest's user-interface thread runs the hooks; the host's window thread
\* runs OnWindowCloseRequested.
Guest  == "guest"
Window == "window"
Threads == {Guest, Window}

VARIABLES
    now,            \* QueryUnbiasedInterruptTime
    attempt,        \* page: generation and tag of the current attempt
    deadline,       \* page: when it is due; 0 is never
    timeout,        \* page: the setting it was armed with
    policy,         \* load_guard_seconds, published by the settings
    configured,     \* the session's Start: "starting", "yes" or "no"
    generation,     \* Impl::generation
    call,           \* each thread's SetLoading call
    exit,           \* how the game process ended; "running" before
    mon,            \* the monitor's program counter
    local,          \* what the monitor's loop has read
    replacement,    \* the replacement process
    inLoad,         \* history: the guest is between a begin and its end
    due,            \* history: what the current load was armed with
    exitInLoad      \* history: the guest was in a load when the game ended

pageVars == <<attempt, deadline, timeout>>
gameVars == <<policy, configured, generation, call, exit>>
monitorVars == <<mon, local, replacement>>
historyVars == <<inLoad, due, exitInLoad>>
vars == <<now, pageVars, gameVars, monitorVars, historyVars>>

Attempts == [gen : 0..MaxLoads, tag : {Retired, Active, Claimed}]
Snapshots == [deadline : 0..MaxClock, timeout : Timeouts \cup {0}]
Idle == [at |-> "idle", loading |-> FALSE, seconds |-> 0, seen |-> [gen |-> 0, tag |-> Retired]]
Nothing == [seen |-> [gen |-> 0, tag |-> Retired], deadline |-> 0, timeout |-> 0,
            termination |-> "none"]

Init ==
    /\ now = 1
    /\ attempt = [gen |-> 0, tag |-> Retired]
    /\ deadline = 0
    /\ timeout = 0
    /\ policy \in Timeouts
    /\ configured = "starting"
    /\ generation = 0
    /\ call = [t \in Threads |-> Idle]
    /\ exit = "running"
    /\ mon = "init"
    /\ local = Nothing
    /\ replacement = "none"
    /\ inLoad = FALSE
    /\ due = [deadline |-> 0, timeout |-> 0]
    /\ exitInLoad = FALSE

--------------------------------------------------------------------------------
(* The game process.                                                       *)

Running == exit = "running"

\* Session::Start returns when the monitor has set its ready event; or it gives
\* up (no process, or no answer in ten seconds) and drops its view of the page.
\* A monitor that was only slow still runs then.
SessionStarts ==
    /\ Running
    /\ configured = "starting"
    /\ \/ /\ mon \notin {"init", "over"}
          /\ configured' = "yes"
       \/ configured' = "no"
    /\ UNCHANGED <<now, pageVars, policy, generation, call, exit, monitorVars, historyVars>>

\* The settings publish another limit: it is the next load's.
PublishLoadGuardPolicy ==
    /\ Running
    /\ \E s \in Timeouts \ {policy} : policy' = s
    /\ UNCHANGED <<now, pageVars, configured, generation, call, exit, monitorVars, historyVars>>

\* BeginCrashRecoveryAttempt takes the limit's snapshot, and SetLoading its first
\* read of the word.
BeginCrashRecoveryAttempt ==
    /\ Running
    /\ configured = "yes"
    /\ call[Guest].at = "idle"
    /\ generation < MaxLoads
    /\ call' = [call EXCEPT ![Guest] =
          [at |-> "retire", loading |-> TRUE, seconds |-> policy, seen |-> attempt]]
    /\ inLoad' = TRUE
    /\ UNCHANGED <<now, pageVars, policy, configured, generation, exit, monitorVars,
                   due, exitInLoad>>

\* EndCrashRecoveryAttempt: the load completed, was left, or the window closes.
EndCrashRecoveryAttempt(t) ==
    /\ Running
    /\ configured = "yes"
    /\ call[t].at = "idle"
    /\ call' = [call EXCEPT ![t] =
          [at |-> "retire", loading |-> FALSE, seconds |-> 0, seen |-> attempt]]
    /\ UNCHANGED <<now, pageVars, policy, configured, generation, exit, monitorVars,
                   historyVars>>

\* One turn of SetLoading's loop: the completion wins unless the word has moved.
Retires(t) ==
    /\ Running
    /\ call[t].at = "retire"
    /\ call[t].seen.tag = Active
    /\ IF attempt = call[t].seen
         THEN /\ attempt' = [attempt EXCEPT !.tag = Retired]
              /\ call' = [call EXCEPT ![t].seen = attempt']
         ELSE /\ call' = [call EXCEPT ![t].seen = attempt]
              /\ UNCHANGED attempt
    /\ UNCHANGED <<now, deadline, timeout, policy, configured, generation, exit,
                   monitorVars, historyVars>>

\* The loop is over: an end returns, and so does a begin that finds a claim.
SetLoadingReturns(t) ==
    /\ Running
    /\ call[t].at = "retire"
    /\ call[t].seen.tag # Active
    /\ ~call[t].loading \/ call[t].seen.tag = Claimed
    /\ call' = [call EXCEPT ![t] = Idle]
    /\ inLoad' = IF t = Guest THEN call[t].loading ELSE inLoad
    /\ UNCHANGED <<now, pageVars, policy, configured, generation, exit, monitorVars,
                   due, exitInLoad>>

DueAt(seconds) == IF seconds = 0 THEN 0 ELSE now + seconds

ArmsDeadline(t) ==
    /\ Running
    /\ call[t].at = "retire"
    /\ call[t].seen.tag = Retired
    /\ call[t].loading
    /\ DueAt(call[t].seconds) <= MaxClock
    /\ deadline' = DueAt(call[t].seconds)
    /\ due' = [deadline |-> deadline', timeout |-> call[t].seconds]
    /\ call' = [call EXCEPT ![t].at = "timeout"]
    /\ UNCHANGED <<now, attempt, timeout, policy, configured, generation, exit,
                   monitorVars, inLoad, exitInLoad>>

ArmsTimeout(t) ==
    /\ Running
    /\ call[t].at = "timeout"
    /\ timeout' = call[t].seconds
    /\ call' = [call EXCEPT ![t].at = "attempt"]
    /\ UNCHANGED <<now, attempt, deadline, policy, configured, generation, exit,
                   monitorVars, historyVars>>

\* The word is written last: what the monitor reads after it belongs to it.
ArmsAttempt(t) ==
    /\ Running
    /\ call[t].at = "attempt"
    /\ generation' = generation + 1
    /\ attempt' = [gen |-> generation', tag |-> Active]
    /\ call' = [call EXCEPT ![t] = Idle]
    /\ UNCHANGED <<now, deadline, timeout, policy, configured, exit, monitorVars, historyVars>>

\* The process ends by itself at any point: a clean exit or a fatal one.
Exits ==
    /\ Running
    /\ exit' \in {"clean", "fatal"}
    /\ exitInLoad' = inLoad
    /\ UNCHANGED <<now, pageVars, policy, configured, generation, call, monitorVars,
                   inLoad, due>>

--------------------------------------------------------------------------------
(* The monitor process, RunMonitor.                                        *)

\* It opens the page and sets the ready event, or it refuses its arguments.
MonitorOpens ==
    /\ mon = "init"
    /\ mon' \in {"wait", "over"}
    /\ UNCHANGED <<now, pageVars, gameVars, local, replacement, historyVars>>

\* The wait on the game's handle ends because the game did.
SeesExit ==
    /\ mon \in {"wait", "join"}
    /\ ~Running
    /\ mon' = "report"
    /\ UNCHANGED <<now, pageVars, gameVars, local, replacement, historyVars>>

\* The wait times out after 100 ms: the loop reads the word.
ReadsAttempt ==
    /\ mon = "wait"
    /\ Running
    /\ local' = [local EXCEPT !.seen = attempt]
    /\ mon' = IF attempt.tag = Active THEN "deadline" ELSE "wait"
    /\ UNCHANGED <<now, pageVars, gameVars, replacement, historyVars>>

ReadsDeadline ==
    /\ mon = "deadline"
    /\ local' = [local EXCEPT !.deadline = deadline]
    /\ mon' = "timeout"
    /\ UNCHANGED <<now, pageVars, gameVars, replacement, historyVars>>

ReadsTimeout ==
    /\ mon = "timeout"
    /\ local' = [local EXCEPT !.timeout = timeout]
    /\ mon' = "clock"
    /\ UNCHANGED <<now, pageVars, gameVars, replacement, historyVars>>

DeadlineExpired(t, d) == d # 0 /\ t >= d

ReadsClock ==
    /\ mon = "clock"
    /\ mon' = IF DeadlineExpired(now, local.deadline) THEN "again" ELSE "wait"
    /\ UNCHANGED <<now, pageVars, gameVars, local, replacement, historyVars>>

\* Faulty variant: a moved word ends the loop instead of the turn.
MovedWordEndsLoop ==
    /\ mon = "again"
    /\ mon' = IF attempt = local.seen THEN "claim" ELSE "join"
    /\ UNCHANGED <<now, pageVars, gameVars, local, replacement, historyVars>>

ReadsAgain ==
    /\ mon = "again"
    /\ mon' = IF attempt = local.seen THEN "claim" ELSE "wait"
    /\ UNCHANGED <<now, pageVars, gameVars, local, replacement, historyVars>>

\* Faulty variant: a plain write claims whatever the word has become.
ClaimsUnfenced ==
    /\ mon = "claim"
    /\ attempt' = [attempt EXCEPT !.tag = Claimed]
    /\ mon' = "terminate"
    /\ UNCHANGED <<now, deadline, timeout, gameVars, local, replacement, historyVars>>

\* The compare-exchange that commits the restart, or finds the word moved.
Claims ==
    /\ mon = "claim"
    /\ IF attempt = local.seen
         THEN /\ attempt' = [attempt EXCEPT !.tag = Claimed]
              /\ mon' = "terminate"
         ELSE /\ mon' = "wait"
              /\ UNCHANGED attempt
    /\ UNCHANGED <<now, deadline, timeout, gameVars, local, replacement, historyVars>>

\* TerminateProcess: it fails on a process that is already gone, and may fail on
\* one that is not.  Then the monitor waits for the exit without a limit.
TerminateSucceeds ==
    /\ mon = "terminate"
    /\ Running
    /\ exit' = "timeout"
    /\ exitInLoad' = inLoad
    /\ local' = [local EXCEPT !.termination = "done"]
    /\ mon' = "join"
    /\ UNCHANGED <<now, pageVars, policy, configured, generation, call, replacement,
                   inLoad, due>>

TerminateFails ==
    /\ mon = "terminate"
    /\ local' = [local EXCEPT !.termination = "failed"]
    /\ mon' = "join"
    /\ UNCHANGED <<now, pageVars, gameVars, replacement, historyVars>>

ShouldRestart(code, loading) == loading /\ code = "fatal"

\* Faulty variant: any fatal exit restarts the game.
RestartsAnyCrash ==
    \/ local.termination = "done"
    \/ RecoverCrashes /\ exit = "fatal"

\* What the monitor decides once the game is gone.
Recovers ==
    \/ local.termination = "done"
    \/ RecoverCrashes /\ ShouldRestart(exit, attempt.tag # Retired)

ReportsExit ==
    /\ mon = "report"
    /\ mon' = IF Recovers THEN "spawn" ELSE "over"
    /\ UNCHANGED <<now, pageVars, gameVars, local, replacement, historyVars>>

\* CreateProcess with RecoveryArguments, which may fail.
SpawnsReplacement ==
    /\ mon = "spawn"
    /\ replacement' \in {"started", "failed"}
    /\ mon' = "over"
    /\ UNCHANGED <<now, pageVars, gameVars, local, historyVars>>

--------------------------------------------------------------------------------
Tick ==
    /\ now < MaxClock
    /\ now' = now + 1
    /\ UNCHANGED <<pageVars, gameVars, monitorVars, historyVars>>

GameStep ==
    \/ SessionStarts
    \/ PublishLoadGuardPolicy
    \/ BeginCrashRecoveryAttempt
    \/ \E t \in Threads :
          \/ EndCrashRecoveryAttempt(t)
          \/ Retires(t)
          \/ SetLoadingReturns(t)
          \/ ArmsDeadline(t)
          \/ ArmsTimeout(t)
          \/ ArmsAttempt(t)
    \/ Exits

MonitorStep ==
    \/ MonitorOpens
    \/ SeesExit
    \/ ReadsAttempt
    \/ ReadsDeadline
    \/ ReadsTimeout
    \/ ReadsClock
    \/ ReadsAgain
    \/ Claims
    \/ TerminateSucceeds
    \/ TerminateFails
    \/ ReportsExit
    \/ SpawnsReplacement

Next == GameStep \/ MonitorStep \/ Tick

Spec == Init /\ [][Next]_vars

\* The monitor is a process of its own and the clock runs; nothing is assumed of
\* the game, which is exactly what may be stuck.
FairSpec == Spec /\ WF_vars(MonitorStep) /\ WF_vars(Tick)

--------------------------------------------------------------------------------
(* What must hold.                                                         *)

\* Every variable keeps its type: the page's word is a generation and one of the
\* three tags, and the monitor's copies are values the page has held.
TypeOK ==
    /\ now \in 1..MaxClock
    /\ attempt \in Attempts
    /\ deadline \in 0..MaxClock
    /\ timeout \in Timeouts \cup {0}
    /\ policy \in Timeouts
    /\ configured \in {"starting", "yes", "no"}
    /\ generation \in 0..MaxLoads
    /\ call \in [Threads -> [at : {"idle", "retire", "timeout", "attempt"},
                             loading : BOOLEAN, seconds : Timeouts \cup {0},
                             seen : Attempts]]
    /\ exit \in {"running", "clean", "fatal", "timeout"}
    /\ mon \in {"init", "wait", "deadline", "timeout", "clock", "again", "claim",
                "terminate", "join", "report", "spawn", "over"}
    /\ local \in [seen : Attempts, deadline : 0..MaxClock, timeout : Timeouts \cup {0},
                  termination : {"none", "done", "failed"}]
    /\ replacement \in {"none", "started", "failed"}
    /\ inLoad \in BOOLEAN
    /\ due \in Snapshots
    /\ exitInLoad \in BOOLEAN

\* The monitor claims a load only when the game is still in a load, has not
\* retired it, and the deadline that very load was armed with has passed: a stale
\* timer never ends a later load (the fence RunMonitor's comment promises).
ClaimIsOwed ==
    [][attempt.tag # Claimed /\ attempt'.tag = Claimed
         => /\ inLoad
            /\ attempt.tag = Active
            /\ DeadlineExpired(now, due.deadline)]_vars

\* A replacement starts only after the game is gone, and only when the monitor
\* ended it or, with recovery on, it died in a load or under a monitor's claim;
\* the limit its popup names (RecoveryArguments' timeout_seconds) is the one the
\* ended load was armed with, whatever the settings say by then.
ReplacementIsOwed ==
    /\ replacement # "none" =>
        \/ exit = "timeout"
        \/ exit = "fatal" /\ RecoverCrashes /\ (exitInLoad \/ attempt.tag = Claimed)
    /\ local.termination = "done" => local.timeout = due.timeout /\ due.timeout # 0

\* A load that was armed with a deadline and hangs is retired, or the game is
\* replaced, unless the game ends by itself or cannot be terminated.
StuckLoadRestarts ==
    \A g \in 1..MaxLoads :
        (attempt = [gen |-> g, tag |-> Active] /\ deadline # 0)
          ~> \/ attempt.gen # g
             \/ attempt.tag = Retired
             \/ replacement # "none"
             \/ exit \in {"clean", "fatal"}
             \/ local.termination = "failed"

================================================================================
