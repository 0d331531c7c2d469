------------------------ MODULE SongLoadMonitor_proofs ------------------------
(***************************************************************************)
(* The watchdog's fence, for any timeouts, any number of loads and any     *)
(* pace of the two processes: a claim is owed to the load it ends, and a   *)
(* replacement to the game it follows.                                     *)
(*                                                                         *)
(* Three words are read and written without a lock, so the argument is     *)
(* about the word that carries the generation.  Only the guest's thread    *)
(* arms, and it arms over a word it has seen retired, which nobody else    *)
(* moves; a value the monitor has read as active never comes back once the *)
(* word has left it; and so a compare-exchange that succeeds proves that   *)
(* the deadline read in between belongs to the same load.                  *)
(***************************************************************************)
EXTENDS SongLoadMonitor, TLAPS

Arming == call[Guest].at \in {"timeout", "attempt"}

\* The word carries the generation of the last load, and the guest's thread, the
\* only one that arms, knows it once it has stopped being active.
WordIsKnown ==
  /\ attempt.gen = generation
  /\ ~call[Window].loading /\ call[Window].at \in {"idle", "retire"}
  /\ call[Guest].at = "retire" /\ call[Guest].seen.tag # Active =>
       attempt = call[Guest].seen
  /\ Arming => attempt.tag = Retired /\ call[Guest].loading
  /\ call[Guest].at # "idle" /\ call[Guest].loading => inLoad /\ generation < MaxLoads

\* What an active word was armed with is what the page holds.
PageIsDue ==
  /\ attempt.tag = Active \/ Arming => deadline = due.deadline
  /\ attempt.tag = Active \/ call[Guest].at = "attempt" => timeout = due.timeout
  /\ Arming => due.timeout = call[Guest].seconds
  /\ attempt.tag = Active => inLoad
  /\ due.deadline # 0 => due.timeout # 0

\* What the monitor has read is the current load's, as long as its word is.
ReadsAreCurrent ==
  /\ mon \in {"deadline", "timeout", "clock", "again", "claim"} =>
       local.seen.tag = Active /\ local.seen.gen <= generation
  /\ mon \in {"timeout", "clock", "again", "claim"} /\ attempt = local.seen =>
       local.deadline = due.deadline
  /\ mon \in {"clock", "again", "claim"} /\ attempt = local.seen =>
       local.timeout = due.timeout
  /\ mon \in {"again", "claim"} => DeadlineExpired(now, local.deadline)

\* What a claim commits the monitor to.
ClaimIsKept ==
  /\ mon \in {"init", "wait", "deadline", "timeout", "clock", "again", "claim",
              "terminate"} => local.termination = "none"
  /\ mon = "terminate" \/ local.termination # "none" =>
       attempt.tag = Claimed /\ local.timeout = due.timeout /\ due.timeout # 0
  /\ local.termination = "done" => exit = "timeout"

\* Why a replacement is started.
ReplacementReason ==
  /\ exit # "running" => exitInLoad = inLoad
  /\ mon = "report" => exit # "running"
  /\ mon = "spawn" \/ replacement # "none" =>
       \/ exit = "timeout"
       \/ exit = "fatal" /\ RecoverCrashes /\ (exitInLoad \/ attempt.tag = Claimed)

IInv == TypeOK /\ WordIsKnown /\ PageIsDue /\ ReadsAreCurrent /\ ClaimIsKept
               /\ ReplacementReason

-----------------------------------------------------------------------------
LEMMA InitInv == Init => IInv
<1> SUFFICES ASSUME Init PROVE IInv
  OBVIOUS
<1> USE MonitorAssumption
<1>1. /\ Idle \in [at : {"idle", "retire", "timeout", "attempt"},
                   loading : BOOLEAN, seconds : Timeouts \cup {0}, seen : Attempts]
      /\ Nothing \in [seen : Attempts, deadline : 0..MaxClock,
                      timeout : Timeouts \cup {0},
                      termination : {"none", "done", "failed"}]
      /\ attempt \in Attempts /\ due \in Snapshots
  BY DEF Init, Idle, Nothing, Attempts, Snapshots, Retired, Active, Claimed
<1>2. TypeOK
  <2>1. now \in 1..MaxClock /\ deadline \in 0..MaxClock /\ generation \in 0..MaxLoads
    BY DEF Init
  <2>2. call \in [Threads -> [at : {"idle", "retire", "timeout", "attempt"},
                             loading : BOOLEAN, seconds : Timeouts \cup {0},
                             seen : Attempts]]
    BY <1>1 DEF Init
  <2> QED BY <1>1, <2>1, <2>2 DEF Init, TypeOK
<1>3. WordIsKnown /\ PageIsDue
  BY DEF Init, Idle, WordIsKnown, PageIsDue, Arming, Threads, Guest, Window, Retired,
     Active
<1>4. ReadsAreCurrent /\ ClaimIsKept /\ ReplacementReason
  BY DEF Init, Nothing, ReadsAreCurrent, ClaimIsKept, ReplacementReason
<1> QED
  BY <1>2, <1>3, <1>4 DEF IInv

-----------------------------------------------------------------------------
\* The steps keep the types.
LEMMA GameTypes == ASSUME TypeOK, WordIsKnown, GameStep PROVE TypeOK'
<1> USE MonitorAssumption
<1> USE DEF TypeOK, pageVars, monitorVars, historyVars, Snapshots
<1> DEFINE Calls == [at : {"idle", "retire", "timeout", "attempt"},
                     loading : BOOLEAN, seconds : Timeouts \cup {0}, seen : Attempts]
<1>0. Idle \in Calls
  BY DEF Idle, Attempts, Retired
<1>1. CASE SessionStarts \/ PublishLoadGuardPolicy \/ Exits
  BY <1>1 DEF SessionStarts, PublishLoadGuardPolicy, Exits
<1>2. CASE BeginCrashRecoveryAttempt
  <2>1. [at |-> "retire", loading |-> TRUE, seconds |-> policy, seen |-> attempt] \in Calls
    OBVIOUS
  <2> HIDE DEF Calls
  <2>2. call' \in [Threads -> Calls]
    BY <1>2, <2>1 DEF BeginCrashRecoveryAttempt, Calls
  <2> QED BY <1>2, <2>2 DEF BeginCrashRecoveryAttempt, Calls
<1>3. ASSUME NEW t \in Threads, EndCrashRecoveryAttempt(t) PROVE TypeOK'
  BY <1>3 DEF EndCrashRecoveryAttempt
<1>4. ASSUME NEW t \in Threads, Retires(t) PROVE TypeOK'
  BY <1>4, SMTT(30) DEF Retires, Attempts, Retired, Active, Claimed
<1>5. ASSUME NEW t \in Threads, SetLoadingReturns(t) PROVE TypeOK'
  BY <1>0, <1>5 DEF SetLoadingReturns
<1>6. ASSUME NEW t \in Threads, ArmsDeadline(t) PROVE TypeOK'
  BY <1>6 DEF ArmsDeadline, DueAt
<1>7. ASSUME NEW t \in Threads, ArmsTimeout(t) PROVE TypeOK'
  BY <1>7 DEF ArmsTimeout
<1>8. ASSUME NEW t \in Threads, ArmsAttempt(t) PROVE TypeOK'
  <2>1. t = Guest
    BY <1>8 DEF ArmsAttempt, WordIsKnown, Threads
  <2>2. generation' \in 0..MaxLoads
    BY <1>8, <2>1 DEF ArmsAttempt, WordIsKnown, Arming
  <2>3. attempt' \in Attempts
    BY <1>8, <2>2 DEF ArmsAttempt, Attempts, Retired, Active, Claimed
  <2>4. call' \in [Threads -> Calls]
    BY <1>0, <1>8 DEF ArmsAttempt
  <2> QED BY <1>8, <2>2, <2>3, <2>4 DEF ArmsAttempt
<1> QED
  BY <1>1, <1>2, <1>3, <1>4, <1>5, <1>6, <1>7, <1>8 DEF GameStep

LEMMA MonitorTypes == ASSUME TypeOK, MonitorStep \/ Tick PROVE TypeOK'
<1> USE MonitorAssumption
<1> USE DEF TypeOK, pageVars, gameVars, monitorVars, historyVars
<1>1. CASE MonitorOpens \/ SeesExit \/ ReadsClock \/ ReadsAgain \/ ReportsExit
           \/ SpawnsReplacement
  BY <1>1 DEF MonitorOpens, SeesExit, ReadsClock, ReadsAgain, ReportsExit,
     SpawnsReplacement
<1>2. CASE ReadsAttempt \/ ReadsDeadline \/ ReadsTimeout
  BY <1>2 DEF ReadsAttempt, ReadsDeadline, ReadsTimeout
<1>3. CASE Claims
  BY <1>3 DEF Claims, Attempts, Retired, Active, Claimed
<1>4. CASE TerminateSucceeds \/ TerminateFails
  BY <1>4 DEF TerminateSucceeds, TerminateFails
<1>5. CASE Tick
  BY <1>5 DEF Tick
<1> QED
  BY <1>1, <1>2, <1>3, <1>4, <1>5 DEF MonitorStep

-----------------------------------------------------------------------------
\* The game's steps keep the rest.  Those of the two threads differ: the window's
\* only ends loads.
LEMMA GameKeeps == ASSUME IInv, GameStep PROVE IInv'
<1> USE MonitorAssumption
<1> USE DEF IInv, pageVars, gameVars, monitorVars, historyVars, Threads, Guest, Window,
            Retired, Active, Claimed, Arming, Running
<1>0. TypeOK'
  BY GameTypes
<1>1. CASE SessionStarts \/ PublishLoadGuardPolicy \/ Exits
  BY <1>0, <1>1 DEF SessionStarts, PublishLoadGuardPolicy, Exits, TypeOK, WordIsKnown,
     PageIsDue, ReadsAreCurrent, ClaimIsKept, ReplacementReason
<1>2. CASE BeginCrashRecoveryAttempt
  BY <1>0, <1>2 DEF BeginCrashRecoveryAttempt, TypeOK, WordIsKnown, PageIsDue,
     ReadsAreCurrent, ClaimIsKept, ReplacementReason
<1>3. ASSUME NEW t \in Threads, EndCrashRecoveryAttempt(t) PROVE IInv'
  BY <1>0, <1>3 DEF EndCrashRecoveryAttempt, TypeOK, WordIsKnown, PageIsDue,
     ReadsAreCurrent, ClaimIsKept, ReplacementReason
<1>4. ASSUME NEW t \in Threads, Retires(t) PROVE IInv'
  <2>1. WordIsKnown'
    BY <1>0, <1>4 DEF Retires, TypeOK, Attempts, WordIsKnown
  <2>2. PageIsDue'
    BY <1>0, <1>4 DEF Retires, TypeOK, Attempts, WordIsKnown, PageIsDue
  <2>3. ReadsAreCurrent'
    BY <1>0, <1>4 DEF Retires, TypeOK, Attempts, WordIsKnown, ReadsAreCurrent
  <2>4. ClaimIsKept' /\ ReplacementReason'
    BY <1>0, <1>4 DEF Retires, TypeOK, Attempts, WordIsKnown, ClaimIsKept,
       ReplacementReason
  <2> QED BY <1>0, <2>1, <2>2, <2>3, <2>4
<1>5. ASSUME NEW t \in Threads, SetLoadingReturns(t) PROVE IInv'
  BY <1>0, <1>5 DEF SetLoadingReturns, Idle, TypeOK, WordIsKnown, PageIsDue,
     ReadsAreCurrent, ClaimIsKept, ReplacementReason
<1>6. ASSUME NEW t \in Threads, ArmsDeadline(t) PROVE IInv'
  <2>1. t = Guest /\ attempt.tag = Retired
    BY <1>6 DEF ArmsDeadline, TypeOK, WordIsKnown
  <2> QED
    BY <1>0, <1>6, <2>1 DEF ArmsDeadline, DueAt, TypeOK, WordIsKnown, PageIsDue,
       ReadsAreCurrent, ClaimIsKept, ReplacementReason
<1>7. ASSUME NEW t \in Threads, ArmsTimeout(t) PROVE IInv'
  <2>1. t = Guest
    BY <1>7 DEF ArmsTimeout, WordIsKnown
  <2> QED
    BY <1>0, <1>7, <2>1 DEF ArmsTimeout, TypeOK, WordIsKnown, PageIsDue,
       ReadsAreCurrent, ClaimIsKept, ReplacementReason
<1>8. ASSUME NEW t \in Threads, ArmsAttempt(t) PROVE IInv'
  <2>1. t = Guest
    BY <1>8 DEF ArmsAttempt, WordIsKnown
  <2>2. attempt'.gen = generation + 1 /\ attempt.tag = Retired
    BY <1>8, <2>1 DEF ArmsAttempt, WordIsKnown
  <2> QED
    BY <1>0, <1>8, <2>1, <2>2 DEF ArmsAttempt, Idle, TypeOK, WordIsKnown, PageIsDue,
       ReadsAreCurrent, ClaimIsKept, ReplacementReason, Attempts
<1> QED
  BY <1>1, <1>2, <1>3, <1>4, <1>5, <1>6, <1>7, <1>8 DEF GameStep

\* And so do the monitor's, and the clock's.
LEMMA MonitorKeeps == ASSUME IInv, MonitorStep \/ Tick PROVE IInv'
<1> USE MonitorAssumption
<1> USE DEF IInv, pageVars, gameVars, monitorVars, historyVars, Retired, Active, Claimed,
            Arming, Running
<1>0. TypeOK'
  BY MonitorTypes
<1>1. CASE MonitorOpens \/ SeesExit
  BY <1>0, <1>1 DEF MonitorOpens, SeesExit, WordIsKnown, PageIsDue, ReadsAreCurrent,
     ClaimIsKept, ReplacementReason
<1>2. CASE ReadsAttempt
  BY <1>0, <1>2 DEF ReadsAttempt, TypeOK, Attempts, WordIsKnown, PageIsDue,
     ReadsAreCurrent, ClaimIsKept, ReplacementReason
<1>3. CASE ReadsDeadline
  BY <1>0, <1>3 DEF ReadsDeadline, TypeOK, WordIsKnown, PageIsDue, ReadsAreCurrent,
     ClaimIsKept, ReplacementReason
<1>4. CASE ReadsTimeout
  BY <1>0, <1>4 DEF ReadsTimeout, TypeOK, WordIsKnown, PageIsDue, ReadsAreCurrent,
     ClaimIsKept, ReplacementReason
<1>5. CASE ReadsClock \/ ReadsAgain
  BY <1>0, <1>5 DEF ReadsClock, ReadsAgain, WordIsKnown, PageIsDue, ReadsAreCurrent,
     ClaimIsKept, ReplacementReason
<1>6. CASE Claims
  <2>1. CASE attempt # local.seen
    BY <1>0, <1>6, <2>1 DEF Claims, WordIsKnown, PageIsDue, ReadsAreCurrent,
       ClaimIsKept, ReplacementReason
  <2>2. CASE attempt = local.seen
    \* The reads were of this load, so its deadline is the one that has passed.
    <3>1. attempt.tag = Active /\ local.timeout = due.timeout /\ due.timeout # 0
      BY <1>6, <2>2 DEF Claims, PageIsDue, ReadsAreCurrent, DeadlineExpired
    <3>2. /\ attempt'.tag = Claimed /\ attempt'.gen = attempt.gen /\ mon' = "terminate"
          /\ UNCHANGED <<now, deadline, timeout, gameVars, local, replacement, historyVars>>
      BY <1>6, <2>2 DEF Claims, TypeOK, Attempts
    <3>3. WordIsKnown' /\ PageIsDue'
      BY <3>1, <3>2 DEF WordIsKnown, PageIsDue
    <3>4. ReadsAreCurrent'
      BY <3>2 DEF ReadsAreCurrent
    <3>5. ClaimIsKept' /\ ReplacementReason'
      BY <1>6, <3>1, <3>2 DEF Claims, ClaimIsKept, ReplacementReason
    <3> QED BY <1>0, <3>3, <3>4, <3>5
  <2> QED BY <2>1, <2>2
<1>7. CASE TerminateSucceeds
  BY <1>0, <1>7 DEF TerminateSucceeds, TypeOK, WordIsKnown, PageIsDue, ReadsAreCurrent,
     ClaimIsKept, ReplacementReason
<1>8. CASE TerminateFails
  BY <1>0, <1>8 DEF TerminateFails, TypeOK, WordIsKnown, PageIsDue, ReadsAreCurrent,
     ClaimIsKept, ReplacementReason
<1>9. CASE ReportsExit \/ SpawnsReplacement
  BY <1>0, <1>9 DEF ReportsExit, SpawnsReplacement, Recovers, ShouldRestart, TypeOK,
     Attempts, WordIsKnown, PageIsDue, ReadsAreCurrent, ClaimIsKept, ReplacementReason
<1>10. CASE Tick
  BY <1>0, <1>10 DEF Tick, TypeOK, WordIsKnown, PageIsDue, ReadsAreCurrent,
     DeadlineExpired, ClaimIsKept, ReplacementReason
<1> QED
  BY <1>1, <1>2, <1>3, <1>4, <1>5, <1>6, <1>7, <1>8, <1>9, <1>10 DEF MonitorStep

LEMMA InvStep == IInv /\ [Next]_vars => IInv'
<1>1. ASSUME IInv, UNCHANGED vars PROVE IInv'
  BY <1>1 DEF vars, pageVars, gameVars, monitorVars, historyVars, IInv, TypeOK,
     WordIsKnown, PageIsDue, ReadsAreCurrent, ClaimIsKept, ReplacementReason, Arming
<1> QED
  BY <1>1, GameKeeps, MonitorKeeps DEF Next

\* The invariant holds of the two processes.
THEOREM InvAlways == Spec => []IInv
  BY InitInv, InvStep, PTL DEF Spec

-----------------------------------------------------------------------------
\* The page's word is a generation and one of three tags, and the monitor's copies
\* are values the page has held.
THEOREM TypeCorrect == Spec => []TypeOK
<1>1. IInv => TypeOK
  BY DEF IInv
<1> QED BY <1>1, InvAlways, PTL

\* A replacement follows a game that is gone, which the monitor ended or which died
\* in a load; and the limit its popup names is the ended load's.
THEOREM ReplacementIsOwedAlways == Spec => []ReplacementIsOwed
<1>1. IInv => ReplacementIsOwed
  BY DEF IInv, ClaimIsKept, ReplacementReason, ReplacementIsOwed
<1> QED BY <1>1, InvAlways, PTL

\* A stale timer never ends a later load: the claim's compare-exchange succeeds only
\* on a load that is under way and whose own deadline has passed.
THEOREM ClaimIsOwedAlways == Spec => ClaimIsOwed
<1>1. IInv /\ [Next]_vars =>
        [attempt.tag # Claimed /\ attempt'.tag = Claimed
          => /\ inLoad
             /\ attempt.tag = Active
             /\ DeadlineExpired(now, due.deadline)]_vars
  <2> SUFFICES ASSUME IInv, Next, attempt.tag # Claimed, attempt'.tag = Claimed
               PROVE  inLoad /\ attempt.tag = Active
                      /\ DeadlineExpired(now, due.deadline)
    BY DEF vars, pageVars
  <2> USE DEF pageVars, gameVars, monitorVars, historyVars, Retired, Active, Claimed
  <2>1. CASE GameStep
    BY <2>1 DEF GameStep, SessionStarts, PublishLoadGuardPolicy,
       BeginCrashRecoveryAttempt, EndCrashRecoveryAttempt, Retires, SetLoadingReturns,
       ArmsDeadline, ArmsTimeout, ArmsAttempt, Exits, IInv, TypeOK, Attempts
  <2>2. CASE MonitorStep \/ Tick
    <3>1. Claims /\ attempt = local.seen
      BY <2>2 DEF MonitorStep, MonitorOpens, SeesExit, ReadsAttempt, ReadsDeadline,
         ReadsTimeout, ReadsClock, ReadsAgain, Claims, TerminateSucceeds, TerminateFails,
         ReportsExit, SpawnsReplacement, Tick
    <3> QED
      BY <3>1 DEF Claims, IInv, PageIsDue, ReadsAreCurrent
  <2> QED BY <2>1, <2>2 DEF Next
<1> QED
  BY <1>1, InvAlways, PTL DEF Spec, ClaimIsOwed
=============================================================================
