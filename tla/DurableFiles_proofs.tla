-------------------------- MODULE DurableFiles_proofs --------------------------
(***************************************************************************)
(* The safety of the parts of MCDurableFiles, for every value of their     *)
(* constants: the player's progress (LocalSave, instance Progress) and the *)
(* installer (Installer, instance Setup) are proved here, the commit of the*)
(* settings in SettingsCommit_proofs; the last theorem puts them together. *)
(***************************************************************************)
EXTENDS MCDurableFiles, SettingsCommit_proofs

\* What a step of the bundle is for each of its parts: its own, or none.
LEMMA PartsStep ==
  ASSUME [AnyStep]_allVars
  PROVE  /\ [Progress!Next]_(Progress!vars) /\ [Setup!Next]_(Setup!vars)
         /\ [Next]_vars
BY DEF AnyStep, allVars, OnlySettings, OnlySetup, OnlyProgress, savVars, insVars,
       Progress!vars, Progress!saveVars, Setup!vars

-----------------------------------------------------------------------------
(* The player's progress.  While the hooks may write, the payload they last*)
(* loaded or saved is what the file holds, so that a look at lastSaved     *)
(* tells what a save would replace; and while the restores succeed the     *)
(* object holds every score of it.                                         *)

CheckpointOK ==
  /\ savFile \in Progress!Payloads \cup {Missing, Damaged}
  /\ savObject \in Progress!Payloads \cup {Null}
  /\ savLast \in Progress!Payloads \cup {Null}

ObjectIsThere ==
  /\ savReady => savObject # Null
  /\ ~savReady => savObject = Null /\ savLast = Null /\ savWritable

LastIsTheFile ==
  savReady /\ savWritable =>
    /\ savFile # Damaged
    /\ savFile = Missing => savLast = Null
    /\ savFile # Missing => savLast = savFile

ScoresAreHeld ==
  savReady /\ savWritable /\ savHolds =>
    Progress!Progress(savLast) \subseteq savObject.held

SaveInv == CheckpointOK /\ ObjectIsThere /\ LastIsTheFile /\ ScoresAreHeld

\* The sentinels hold no progress, and are no payloads.
LEMMA Sentinels ==
  /\ Missing \notin Progress!Payloads /\ Damaged \notin Progress!Payloads
  /\ Null \notin Progress!Payloads /\ Missing # Damaged
  /\ Progress!Cleared \in Progress!Payloads /\ Progress!Cleared.held = {}
  /\ Progress!Progress(Null) = {} /\ Progress!Progress(Missing) = {}
  /\ \A x \in Progress!Payloads : Progress!Progress(x) = x.held
BY SentinelsAssumption DEF Progress!Payloads, Progress!Cleared, Progress!Progress

LEMMA Mutated ==
  ASSUME NEW x \in Progress!Payloads
  PROVE  /\ \A e \in Entries : /\ [x EXCEPT !.held = @ \cup {e}] \in Progress!Payloads
                               /\ [x EXCEPT !.held = @ \cup {e}].held = x.held \cup {e}
         /\ \A r \in Rests : /\ [x EXCEPT !.rest = r] \in Progress!Payloads
                             /\ [x EXCEPT !.rest = r].held = x.held
BY DEF Progress!Payloads

LEMMA SaveInit == Progress!Init => SaveInv
BY Sentinels DEF Progress!Init, SaveInv, CheckpointOK, ObjectIsThere, LastIsTheFile, ScoresAreHeld

\* What Restore leaves of a payload, or of none.
LEMMA Restored ==
  ASSUME NEW x \in Progress!Payloads \cup {Null}, Progress!Restore(x)
  PROVE  /\ savObject' \in Progress!Payloads
         /\ savHolds' => \/ Progress!Progress(x) \subseteq savObject'.held
                         \/ x = Null
BY Sentinels DEF Progress!Restore

LEMMA SaveKeeps == SaveInv /\ [Progress!Next]_(Progress!vars) => SaveInv'
<1> SUFFICES ASSUME SaveInv, [Progress!Next]_(Progress!vars) PROVE SaveInv'
  OBVIOUS
<1>i. CheckpointOK /\ ObjectIsThere /\ LastIsTheFile /\ ScoresAreHeld
  BY DEF SaveInv
<1> USE DEF Progress!saveVars
<1>1. CASE Progress!Initializes
  <2>0. savObject = Null /\ ~savReady /\ savReady' /\ UNCHANGED savFile
    BY <1>1, <1>i DEF Progress!Initializes, ObjectIsThere
  <2>1. CASE /\ savFile \in Progress!Payloads
             /\ savLast' = savFile /\ Progress!Restore(savFile) /\ UNCHANGED savWritable
    BY <1>i, <2>0, <2>1, Restored, Sentinels
       DEF SaveInv, CheckpointOK, ObjectIsThere, LastIsTheFile, ScoresAreHeld
  <2>2. CASE /\ savFile = Missing /\ Progress!Restore(Null)
             /\ UNCHANGED <<savLast, savWritable>>
    BY <1>i, <2>0, <2>2, Restored, Sentinels
       DEF SaveInv, CheckpointOK, ObjectIsThere, LastIsTheFile, ScoresAreHeld
  <2>3. CASE /\ savFile # Missing /\ savWritable' = FALSE /\ Progress!Restore(Null)
             /\ UNCHANGED savLast
    BY <1>i, <2>0, <2>3, Restored, Sentinels
       DEF SaveInv, CheckpointOK, ObjectIsThere, LastIsTheFile, ScoresAreHeld
  <2> QED BY <1>1, <2>1, <2>2, <2>3 DEF Progress!Initializes
<1>2. CASE Progress!TearsDown
  <2>0. savReady /\ UNCHANGED <<savFile, savReady, savDirty, savWritable, savLast, savWaits>>
    BY <1>2 DEF Progress!TearsDown
  <2>1. CASE savWritable
    <3>1. Progress!Restore(savLast)
      BY <1>2, <2>1 DEF Progress!TearsDown
    <3> QED BY <1>i, <2>0, <2>1, <3>1, Restored, Sentinels
               DEF SaveInv, CheckpointOK, ObjectIsThere, LastIsTheFile, ScoresAreHeld
  <2>2. CASE ~savWritable
    <3>1. Progress!Restore(Null)
      BY <1>2, <2>2 DEF Progress!TearsDown
    <3> QED BY <1>i, <2>0, <2>2, <3>1, Restored, Sentinels
               DEF SaveInv, CheckpointOK, ObjectIsThere, LastIsTheFile, ScoresAreHeld
  <2> QED BY <2>1, <2>2
<1>3. CASE Progress!Mutates
  <2>0. savReady /\ savObject \in Progress!Payloads
        /\ UNCHANGED <<savFile, savReady, savWritable, savLast, savWaits, savHolds>>
    BY <1>3, <1>i DEF Progress!Mutates, ObjectIsThere, CheckpointOK
  <2>1. savObject' \in Progress!Payloads /\ savObject.held \subseteq savObject'.held
    <3>1. CASE \E e \in Entries : savObject' = [savObject EXCEPT !.held = @ \cup {e}]
      <4>1. PICK e \in Entries : savObject' = [savObject EXCEPT !.held = @ \cup {e}]
        BY <3>1
      <4>2. savObject' \in Progress!Payloads /\ savObject'.held = savObject.held \cup {e}
        BY <2>0, <4>1, Mutated, Zenon
      <4> QED BY <4>2
    <3>2. CASE \E r \in Rests : savObject' = [savObject EXCEPT !.rest = r]
      <4>1. PICK r \in Rests : savObject' = [savObject EXCEPT !.rest = r]
        BY <3>2
      <4>2. savObject' \in Progress!Payloads /\ savObject'.held = savObject.held
        BY <2>0, <4>1, Mutated, Zenon
      <4> QED BY <4>2
    <3>3. \/ \E e \in Entries : savObject' = [savObject EXCEPT !.held = @ \cup {e}]
          \/ \E r \in Rests : savObject' = [savObject EXCEPT !.rest = r]
      BY <1>3, Zenon DEF Progress!Mutates
    <3> QED BY <3>1, <3>2, <3>3
  <2> QED BY <1>i, <2>0, <2>1, Sentinels
             DEF SaveInv, CheckpointOK, ObjectIsThere, LastIsTheFile, ScoresAreHeld
<1>4. CASE Progress!Saves
  <2>1. savObject \in Progress!Payloads /\ savReady /\ savWritable
    BY <1>4, <1>i DEF Progress!Saves, Progress!Due, ObjectIsThere, CheckpointOK
  <2> QED BY <1>4, <1>i, <2>1, Sentinels
             DEF Progress!Saves, SaveInv, CheckpointOK, ObjectIsThere, LastIsTheFile, ScoresAreHeld
<1>5. CASE Progress!Restarts
  BY <1>5, <1>i, Sentinels
     DEF Progress!Restarts, SaveInv, CheckpointOK, ObjectIsThere, LastIsTheFile, ScoresAreHeld
<1>6. CASE \/ Progress!NothingToSave \/ Progress!CannotSave \/ Progress!RetryTimeComes
           \/ UNCHANGED Progress!vars
  <2>1. UNCHANGED <<savFile, savObject, savReady, savWritable, savLast, savHolds>>
    BY <1>6 DEF Progress!NothingToSave, Progress!CannotSave, Progress!RetryTimeComes,
                Progress!vars
  <2> QED BY <1>i, <2>1
             DEF SaveInv, CheckpointOK, ObjectIsThere, LastIsTheFile, ScoresAreHeld
<1> QED BY <1>1, <1>2, <1>3, <1>4, <1>5, <1>6 DEF Progress!Next

LEMMA SaveInvAlways == Progress!Spec => []SaveInv
BY SaveInit, SaveKeeps, PTL DEF Progress!Spec

\* The only step that writes the file, and what it replaces.
LEMMA FileStep ==
  ASSUME SaveInv, [Progress!Next]_(Progress!vars)
  PROVE  \/ savFile' = savFile
         \/ /\ savFile' = savObject /\ savObject \in Progress!Payloads
            /\ savReady /\ savWritable /\ ~Progress!Empties(savObject)
            /\ Progress!Progress(savFile) = Progress!Progress(savLast)
<1>1. CASE Progress!Saves
  <2>1. /\ savFile' = savObject /\ savReady /\ savWritable
        /\ ~Progress!Empties(savObject)
    BY <1>1 DEF Progress!Saves, Progress!Due
  <2>2. savObject \in Progress!Payloads
    BY <2>1 DEF SaveInv, CheckpointOK, ObjectIsThere
  <2>3. Progress!Progress(savFile) = Progress!Progress(savLast)
    BY <2>1, Sentinels DEF SaveInv, CheckpointOK, LastIsTheFile
  <2> QED BY <2>1, <2>2, <2>3
<1>2. CASE ~Progress!Saves
  BY <1>2 DEF Progress!Next, Progress!Initializes, Progress!TearsDown, Progress!Mutates,
              Progress!NothingToSave, Progress!CannotSave, Progress!RetryTimeComes,
              Progress!Restarts, Progress!vars, Progress!saveVars
<1> QED BY <1>1, <1>2

\* A checkpoint with progress is never replaced by one without, whatever fails and
\* however often the guest clears its object, for any set of scores.
THEOREM ProgressSurvivesAlways == Progress!Spec => ProgressSurvives
<1>1. SaveInv /\ [Progress!Next]_(Progress!vars) =>
        [Progress!Progress(savFile) # {} => Progress!Progress(savFile') # {}]_(Progress!vars)
  <2> SUFFICES ASSUME SaveInv, [Progress!Next]_(Progress!vars),
                      Progress!Progress(savFile) # {}
               PROVE  Progress!Progress(savFile') # {}
    OBVIOUS
  <2> QED BY FileStep, Sentinels DEF Progress!Empties
<1> QED BY <1>1, SaveInvAlways, PTL DEF Progress!Spec, ProgressSurvives, Progress!ProgressSurvives

\* While the restores succeed a later checkpoint misses no score of an earlier one.
THEOREM ScoresAccumulateAlways == Progress!Spec => ScoresAccumulate
<1>1. SaveInv /\ [Progress!Next]_(Progress!vars) =>
        [savHolds => Progress!Progress(savFile) \subseteq Progress!Progress(savFile')]_(Progress!vars)
  <2> SUFFICES ASSUME SaveInv, [Progress!Next]_(Progress!vars), savHolds
               PROVE  Progress!Progress(savFile) \subseteq Progress!Progress(savFile')
    OBVIOUS
  <2> QED BY FileStep, Sentinels DEF SaveInv, ScoresAreHeld
<1> QED BY <1>1, SaveInvAlways, PTL DEF Progress!Spec, ScoresAccumulate, Progress!ScoresAccumulate

-----------------------------------------------------------------------------
(* The installer's types, and the forms its steps take.  A helper's step   *)
(* replaces the record in its slot by one of the same job.                 *)

HelperPcs == {"inplace", "clean", "stage", "verify", "remove", "move", "check", "write", "cleanup",
        "report"}
Content == {"none", "old", "new", "torn"}
Table == [Setup!Slots -> Setup!Helpers \cup {NoHelper}]
WizardPcs == {"copy", "next", "poll", "failed", "done"}
Wizards == [pc : WizardPcs, job : Setup!Jobs, left : SUBSET Setup!Jobs, embedded : BOOLEAN,
            added : SUBSET Payload]

SetupShape ==
  /\ insDisk \in [Setup!Files -> Content]
  /\ insStaging \subseteq Setup!Files \ OldMod
  /\ insHelpers \in Table
  /\ insWizard \in Wizards
  /\ insSummary \in {"none", "ok", "failed"}
  /\ insRun \in 1 .. MaxRuns
  /\ insVerified \subseteq Setup!Jobs

On(s) == insHelpers[s] # NoHelper

\* The slot s holds a helper of the same job at q, with o and what is left in T.
Becomes(s, q, o, T) ==
  insHelpers' = [insHelpers EXCEPT ![s] =
                   [job |-> insHelpers[s].job, ok |-> o, todo |-> T,
                    run |-> insHelpers[s].run, pc |-> q]]

LEMMA HelperTyped ==
  ASSUME SetupShape, NEW s \in Setup!Slots, On(s)
  PROVE  /\ insHelpers[s] \in Setup!Helpers
         /\ insHelpers[s].job \in Setup!Jobs /\ insHelpers[s].pc \in HelperPcs
         /\ insHelpers[s].todo \subseteq Setup!Files /\ insHelpers[s].run \in 1 .. MaxRuns
BY DEF SetupShape, Table, On, Setup!Helpers, HelperPcs

LEMMA BecomesTyped ==
  ASSUME SetupShape, NEW s \in Setup!Slots, On(s), NEW q \in HelperPcs, NEW o \in BOOLEAN,
         NEW T \in SUBSET Setup!Files, Becomes(s, q, o, T)
  PROVE  /\ insHelpers' \in Table /\ insHelpers'[s] # NoHelper
         /\ insHelpers'[s].job = insHelpers[s].job /\ insHelpers'[s].pc = q
         /\ insHelpers'[s].todo = T /\ insHelpers'[s].run = insHelpers[s].run
         /\ insHelpers'[s].ok = o
         /\ \A t \in Setup!Slots \ {s} : insHelpers'[t] = insHelpers[t]
<1> DEFINE h == [job |-> insHelpers[s].job, ok |-> o, todo |-> T,
                 run |-> insHelpers[s].run, pc |-> q]
<1>1. h \in Setup!Helpers
  BY HelperTyped DEF Setup!Helpers, HelperPcs
<1>2. h # NoHelper
  BY <1>1, SentinelsAssumption
<1>3. insHelpers \in Table
  BY DEF SetupShape
<1>4. insHelpers' = [insHelpers EXCEPT ![s] = h]
  BY DEF Becomes
<1>5. /\ h.job = insHelpers[s].job /\ h.pc = q /\ h.todo = T
      /\ h.run = insHelpers[s].run /\ h.ok = o
  OBVIOUS
<1> HIDE DEF h
<1> QED BY <1>1, <1>2, <1>3, <1>4, <1>5 DEF Table

\* The record in the slot s with its fields, and with some of them replaced.
LEMMA HelperFields ==
  ASSUME SetupShape, NEW s \in Setup!Slots, On(s), NEW q, NEW o, NEW T
  PROVE  /\ [insHelpers[s] EXCEPT !.pc = q]
              = [job |-> insHelpers[s].job, ok |-> insHelpers[s].ok,
                 todo |-> insHelpers[s].todo, run |-> insHelpers[s].run, pc |-> q]
         /\ [insHelpers[s] EXCEPT !.todo = T]
              = [job |-> insHelpers[s].job, ok |-> insHelpers[s].ok, todo |-> T,
                 run |-> insHelpers[s].run, pc |-> insHelpers[s].pc]
         /\ [[insHelpers[s] EXCEPT !.pc = q] EXCEPT !.todo = T]
              = [job |-> insHelpers[s].job, ok |-> insHelpers[s].ok, todo |-> T,
                 run |-> insHelpers[s].run, pc |-> q]
         /\ [[insHelpers[s] EXCEPT !.pc = q] EXCEPT !.ok = o]
              = [job |-> insHelpers[s].job, ok |-> o, todo |-> insHelpers[s].todo,
                 run |-> insHelpers[s].run, pc |-> q]
<1>1. insHelpers[s]
        = [job |-> insHelpers[s].job, ok |-> insHelpers[s].ok, todo |-> insHelpers[s].todo,
           run |-> insHelpers[s].run, pc |-> insHelpers[s].pc]
  BY HelperTyped DEF Setup!Helpers
<1>2. [insHelpers[s] EXCEPT !.pc = q]
        = [job |-> insHelpers[s].job, ok |-> insHelpers[s].ok, todo |-> insHelpers[s].todo,
           run |-> insHelpers[s].run, pc |-> q]
  BY <1>1
<1>3. [insHelpers[s] EXCEPT !.todo = T]
        = [job |-> insHelpers[s].job, ok |-> insHelpers[s].ok, todo |-> T,
           run |-> insHelpers[s].run, pc |-> insHelpers[s].pc]
  BY <1>1
<1>4. [[job |-> insHelpers[s].job, ok |-> insHelpers[s].ok, todo |-> insHelpers[s].todo,
           run |-> insHelpers[s].run, pc |-> q] EXCEPT !.todo = T]
        = [job |-> insHelpers[s].job, ok |-> insHelpers[s].ok, todo |-> T,
           run |-> insHelpers[s].run, pc |-> q]
  OBVIOUS
<1>5. [[job |-> insHelpers[s].job, ok |-> insHelpers[s].ok, todo |-> insHelpers[s].todo,
           run |-> insHelpers[s].run, pc |-> q] EXCEPT !.ok = o]
        = [job |-> insHelpers[s].job, ok |-> o, todo |-> insHelpers[s].todo,
           run |-> insHelpers[s].run, pc |-> q]
  OBVIOUS
<1>7. [[insHelpers[s] EXCEPT !.pc = q] EXCEPT !.todo = T]
        = [job |-> insHelpers[s].job, ok |-> insHelpers[s].ok, todo |-> T,
           run |-> insHelpers[s].run, pc |-> q]
  BY <1>2, <1>4
<1>8. [[insHelpers[s] EXCEPT !.pc = q] EXCEPT !.ok = o]
        = [job |-> insHelpers[s].job, ok |-> o, todo |-> insHelpers[s].todo,
           run |-> insHelpers[s].run, pc |-> q]
  BY <1>2, <1>5
<1> QED BY <1>2, <1>3, <1>7, <1>8, Zenon

LEMMA GoesBecomes ==
  ASSUME SetupShape, NEW s \in Setup!Slots, On(s), NEW q, Setup!Goes(s, q)
  PROVE  Becomes(s, q, insHelpers[s].ok, insHelpers[s].todo)
<1>1. insHelpers' = [insHelpers EXCEPT ![s] = [insHelpers[s] EXCEPT !.pc = q]]
  BY DEF Setup!Goes
<1> QED BY <1>1, HelperFields, Zenon DEF Becomes

LEMMA FailsBecomes ==
  ASSUME SetupShape, NEW s \in Setup!Slots, On(s), NEW q
  PROVE  /\ insHelpers' = [insHelpers EXCEPT ![s].pc = q, ![s].ok = FALSE]
              => Becomes(s, q, FALSE, insHelpers[s].todo)
         /\ \A o, T : insHelpers' = [insHelpers EXCEPT ![s].pc = q, ![s].ok = o, ![s].todo = T]
                       => Becomes(s, q, o, T)
         /\ \A T : insHelpers' = [insHelpers EXCEPT ![s].pc = q, ![s].todo = T]
                    => Becomes(s, q, insHelpers[s].ok, T)
         /\ \A T : insHelpers' = [insHelpers EXCEPT ![s].todo = T]
                    => Becomes(s, insHelpers[s].pc, insHelpers[s].ok, T)
<1>t. insHelpers \in Table
  BY DEF SetupShape
<1>1. ASSUME insHelpers' = [insHelpers EXCEPT ![s].pc = q, ![s].ok = FALSE]
      PROVE  Becomes(s, q, FALSE, insHelpers[s].todo)
  <2>1. insHelpers' = [insHelpers EXCEPT ![s] = [[insHelpers[s] EXCEPT !.pc = q]
                                                              EXCEPT !.ok = FALSE]]
    BY <1>t, <1>1 DEF Table
  <2>2. [[insHelpers[s] EXCEPT !.pc = q] EXCEPT !.ok = FALSE]
           = [job |-> insHelpers[s].job, ok |-> FALSE, todo |-> insHelpers[s].todo,
              run |-> insHelpers[s].run, pc |-> q]
    BY HelperFields, Zenon
  <2> QED BY <2>1, <2>2, Zenon DEF Becomes
<1>2. ASSUME NEW o, NEW T,
             insHelpers' = [insHelpers EXCEPT ![s].pc = q, ![s].ok = o, ![s].todo = T]
      PROVE  Becomes(s, q, o, T)
  <2>1. insHelpers' = [insHelpers EXCEPT ![s] = [[[insHelpers[s] EXCEPT !.pc = q]
                                            EXCEPT !.ok = o] EXCEPT !.todo = T]]
    BY <1>t, <1>2 DEF Table
  <2>2. [[insHelpers[s] EXCEPT !.pc = q] EXCEPT !.ok = o]
           = [job |-> insHelpers[s].job, ok |-> o, todo |-> insHelpers[s].todo,
              run |-> insHelpers[s].run, pc |-> q]
    BY HelperFields, Zenon
  <2>3. [[job |-> insHelpers[s].job, ok |-> o, todo |-> insHelpers[s].todo,
          run |-> insHelpers[s].run, pc |-> q] EXCEPT !.todo = T]
           = [job |-> insHelpers[s].job, ok |-> o, todo |-> T,
              run |-> insHelpers[s].run, pc |-> q]
    OBVIOUS
  <2>4. [[[insHelpers[s] EXCEPT !.pc = q] EXCEPT !.ok = o] EXCEPT !.todo = T]
           = [job |-> insHelpers[s].job, ok |-> o, todo |-> T,
              run |-> insHelpers[s].run, pc |-> q]
    BY <2>2, <2>3
  <2> QED BY <2>1, <2>4, Zenon DEF Becomes
<1>3. ASSUME NEW T, insHelpers' = [insHelpers EXCEPT ![s].pc = q, ![s].todo = T]
      PROVE  Becomes(s, q, insHelpers[s].ok, T)
  <2>1. insHelpers' = [insHelpers EXCEPT ![s] = [[insHelpers[s] EXCEPT !.pc = q]
                                                              EXCEPT !.todo = T]]
    BY <1>t, <1>3 DEF Table
  <2>2. [[insHelpers[s] EXCEPT !.pc = q] EXCEPT !.todo = T]
           = [job |-> insHelpers[s].job, ok |-> insHelpers[s].ok, todo |-> T,
              run |-> insHelpers[s].run, pc |-> q]
    BY HelperFields, Zenon
  <2> QED BY <2>1, <2>2, Zenon DEF Becomes
<1>4. ASSUME NEW T, insHelpers' = [insHelpers EXCEPT ![s].todo = T]
      PROVE  Becomes(s, insHelpers[s].pc, insHelpers[s].ok, T)
  BY <1>4, HelperFields, Zenon DEF Becomes
<1> QED BY <1>1, <1>2, <1>3, <1>4

-----------------------------------------------------------------------------
(* The order of the stages, and the components' files.                     *)

After(j) ==
  CASE j = "payload" -> {"game", "mod", "finalize"} [] j = "game" -> {"mod", "finalize"}
    [] j = "mod" -> {"finalize"} [] OTHER -> {}

LEMMA NextJobIs ==
  ASSUME SetupShape, insWizard.left # {}
  PROVE  /\ Setup!NextJob \in insWizard.left
         /\ insWizard.left \ {Setup!NextJob} \subseteq After(Setup!NextJob)
<1> DEFINE L == insWizard.left
<1>1. L \subseteq {"payload", "game", "mod", "finalize"}
  BY DEF SetupShape, Wizards, Setup!Jobs
<1>2. /\ Setup!Order["payload"] = 1 /\ Setup!Order["game"] = 2
      /\ Setup!Order["mod"] = 3 /\ Setup!Order["finalize"] = 4
  BY DEF Setup!Order
<1>3. \E j \in L : \A k \in L : Setup!Order[j] <= Setup!Order[k]
  <2>1. CASE "payload" \in L
    BY <1>1, <1>2, <2>1
  <2>2. CASE "payload" \notin L /\ "game" \in L
    BY <1>1, <1>2, <2>2
  <2>3. CASE "payload" \notin L /\ "game" \notin L /\ "mod" \in L
    BY <1>1, <1>2, <2>3
  <2>4. CASE "payload" \notin L /\ "game" \notin L /\ "mod" \notin L
    BY <1>1, <1>2, <2>4
  <2> QED BY <2>1, <2>2, <2>3, <2>4
<1>4. /\ Setup!NextJob \in L
      /\ \A k \in L : Setup!Order[Setup!NextJob] <= Setup!Order[k]
  BY <1>3, Zenon DEF Setup!NextJob
<1> HIDE DEF L
<1>5. L \ {Setup!NextJob} \subseteq After(Setup!NextJob)
  <2>1. CASE Setup!NextJob = "payload"
    BY <1>1, <2>1 DEF After
  <2>2. CASE Setup!NextJob = "game"
    BY <1>1, <1>2, <1>4, <2>2 DEF After
  <2>3. CASE Setup!NextJob = "mod"
    BY <1>1, <1>2, <1>4, <2>3 DEF After
  <2>4. CASE Setup!NextJob = "finalize"
    BY <1>1, <1>2, <1>4, <2>4 DEF After
  <2> QED BY <1>1, <1>4, <2>1, <2>2, <2>3, <2>4
<1> QED BY <1>4, <1>5 DEF L

\* The files a job replaces; the mod's also take away the earlier release's.
Owned(j) == Setup!FilesOf(j) \cup (IF j = "mod" THEN OldMod ELSE {})

LEMMA OwnedApart ==
  /\ \A j \in Setup!Jobs :
       /\ Setup!FilesOf(j) \subseteq Setup!SharesStaging(j)
       /\ Setup!SharesStaging(j) \subseteq Setup!Files
       /\ Setup!FilesOf(j) \cap OldMod = {}
       /\ Setup!FilesOf(j) \subseteq Owned(j) /\ Owned(j) \subseteq Setup!Files
  /\ \A j, k \in Setup!Jobs : j # k => Owned(j) \cap Owned(k) = {}
  /\ Setup!FilesOf("finalize") = {}
  /\ Owned("mod") = Mod \cup OldMod
  /\ Owned("payload") = Payload /\ Owned("game") = Game
  /\ Setup!FilesOf("payload") = Payload /\ Setup!FilesOf("game") = Game
  /\ Setup!FilesOf("mod") = Mod
<1>1. /\ Setup!FilesOf("payload") = Payload /\ Setup!FilesOf("game") = Game
      /\ Setup!FilesOf("mod") = Mod /\ Setup!FilesOf("finalize") = {}
  BY DEF Setup!FilesOf
<1>2. /\ Owned("payload") = Payload /\ Owned("game") = Game
      /\ Owned("mod") = Mod \cup OldMod /\ Owned("finalize") = {}
  BY <1>1 DEF Owned
<1>3. /\ Setup!SharesStaging("payload") = Payload
      /\ \A j \in {"game", "mod", "finalize"} :
           Setup!SharesStaging(j) = Setup!Files \ Payload
  BY DEF Setup!SharesStaging
<1>4. \A j \in Setup!Jobs :
        /\ Setup!FilesOf(j) \subseteq Setup!SharesStaging(j)
        /\ Setup!SharesStaging(j) \subseteq Setup!Files
        /\ Setup!FilesOf(j) \cap OldMod = {}
        /\ Setup!FilesOf(j) \subseteq Owned(j) /\ Owned(j) \subseteq Setup!Files
  BY <1>1, <1>2, <1>3, ComponentsAssumption DEF Setup!Jobs, Setup!Files
<1>5. \A j, k \in Setup!Jobs : j # k => Owned(j) \cap Owned(k) = {}
  BY <1>2, ComponentsAssumption DEF Setup!Jobs
<1> QED BY <1>1, <1>2, <1>4, <1>5

-----------------------------------------------------------------------------
(* What a helper's step does, one form for each.                           *)

\* The parts of the state no helper's step touches.
OthersStay == UNCHANGED <<insWizard, insRun, insBeside>>

InPlaceForm(s) ==
  /\ insHelpers[s].pc = "inplace"
  /\ \/ /\ Becomes(s, "report", insHelpers[s].ok, insHelpers[s].todo)
        /\ insVerified' = insVerified \cup {insHelpers[s].job}
        /\ UNCHANGED insFaulted
     \/ /\ Becomes(s, "report", FALSE, insHelpers[s].todo) /\ insFaulted' = TRUE
        /\ UNCHANGED insVerified
  /\ UNCHANGED <<insDisk, insStaging, insSummary, insRecord>>

CleanForm(s) ==
  /\ insHelpers[s].pc = "clean"
  /\ insStaging' = insStaging \ Setup!SharesStaging(insHelpers[s].job)
  /\ \/ Becomes(s, "stage", insHelpers[s].ok, insHelpers[s].todo) /\ UNCHANGED insFaulted
     \/ Becomes(s, "cleanup", FALSE, {}) /\ insFaulted' = TRUE
  /\ UNCHANGED <<insDisk, insSummary, insRecord, insVerified>>

StageForm(s) ==
  /\ insHelpers[s].pc = "stage"
  /\ \/ /\ \E f \in Setup!FilesOf(insHelpers[s].job) : insStaging' = insStaging \cup {f}
        /\ UNCHANGED <<insHelpers, insFaulted>>
     \/ /\ Becomes(s, "verify", insHelpers[s].ok, insHelpers[s].todo)
        /\ UNCHANGED <<insStaging, insFaulted>>
     \/ /\ Becomes(s, "cleanup", FALSE, {}) /\ insFaulted' = TRUE
        /\ UNCHANGED insStaging
  /\ UNCHANGED <<insDisk, insSummary, insRecord, insVerified>>

VerifyForm(s) ==
  /\ insHelpers[s].pc = "verify"
  /\ \/ /\ Setup!FilesOf(insHelpers[s].job) \subseteq insStaging
        /\ Becomes(s, IF insHelpers[s].job = "mod" THEN "remove" ELSE "move",
                   insHelpers[s].ok,
                   insStaging \cap Setup!SharesStaging(insHelpers[s].job))
        /\ insVerified' = insVerified \cup {insHelpers[s].job}
        /\ UNCHANGED insFaulted
     \/ /\ Becomes(s, "cleanup", FALSE, {}) /\ insFaulted' = TRUE
        /\ UNCHANGED insVerified
  /\ UNCHANGED <<insDisk, insStaging, insSummary, insRecord>>

RemoveForm(s) ==
  /\ insHelpers[s].pc = "remove"
  /\ \/ /\ insDisk' = [f \in Setup!Files |-> IF f \in Mod \cup OldMod THEN "none"
                                            ELSE insDisk[f]]
        /\ Becomes(s, "move", insHelpers[s].ok, insHelpers[s].todo)
        /\ UNCHANGED insFaulted
     \/ /\ \E f \in Mod \cup OldMod : insDisk' = [insDisk EXCEPT ![f] = "none"]
        /\ Becomes(s, "cleanup", FALSE, {}) /\ insFaulted' = TRUE
  /\ UNCHANGED <<insStaging, insSummary, insRecord, insVerified>>

MoveForm(s) ==
  /\ insHelpers[s].pc = "move"
  /\ \E f \in insHelpers[s].todo :
       \/ /\ insDisk' = [insDisk EXCEPT ![f] = "new"]
          /\ insStaging' = insStaging \ {f}
          /\ Becomes(s, "move", insHelpers[s].ok, insHelpers[s].todo \ {f})
          /\ UNCHANGED insFaulted
       \/ /\ insDisk' \in {insDisk, [insDisk EXCEPT ![f] = "torn"]}
          /\ Becomes(s, "cleanup", FALSE, {}) /\ insFaulted' = TRUE
          /\ UNCHANGED insStaging
       \/ /\ Becomes(s, "move", insHelpers[s].ok, insHelpers[s].todo \ {f})
          /\ insFaulted' = TRUE
          /\ UNCHANGED <<insDisk, insStaging>>
  /\ UNCHANGED <<insSummary, insRecord, insVerified>>

\* The end of the move, the clean-up after it, the last job's look and record.
EndForm(s) ==
  /\ \/ /\ insHelpers[s].pc = "move" /\ insHelpers[s].todo = {}
        /\ Becomes(s, "cleanup", insHelpers[s].ok, insHelpers[s].todo)
        /\ UNCHANGED <<insStaging, insRecord, insFaulted>>
     \/ /\ insHelpers[s].pc = "cleanup"
        /\ insStaging' = insStaging \ Setup!SharesStaging(insHelpers[s].job)
        /\ Becomes(s, "report", insHelpers[s].ok, insHelpers[s].todo)
        /\ UNCHANGED <<insRecord, insFaulted>>
     \/ /\ insHelpers[s].pc = "check" /\ Setup!BuildMatches /\ Setup!DataMatches
        /\ Becomes(s, "write", insHelpers[s].ok, insHelpers[s].todo)
        /\ UNCHANGED <<insStaging, insRecord, insFaulted>>
     \/ /\ insHelpers[s].pc = "check" /\ ~(Setup!BuildMatches /\ Setup!DataMatches)
        /\ Becomes(s, "report", FALSE, insHelpers[s].todo)
        /\ UNCHANGED <<insStaging, insRecord, insFaulted>>
     \/ /\ insHelpers[s].pc = "write" /\ insRecord' = TRUE
        /\ Becomes(s, "report", insHelpers[s].ok, insHelpers[s].todo)
        /\ UNCHANGED <<insStaging, insFaulted>>
     \/ /\ insHelpers[s].pc = "write"
        /\ Becomes(s, "report", FALSE, insHelpers[s].todo) /\ insFaulted' = TRUE
        /\ UNCHANGED <<insStaging, insRecord>>
  /\ UNCHANGED <<insDisk, insSummary, insVerified>>

\* The helper reports, or dies.
GoneForm(s) ==
  /\ insHelpers' = [insHelpers EXCEPT ![s] = NoHelper]
  /\ \/ /\ insHelpers[s].pc = "report"
        /\ insSummary' = IF insHelpers[s].run # insRun THEN insSummary
                         ELSE IF insHelpers[s].ok THEN "ok" ELSE "failed"
        /\ UNCHANGED insFaulted
     \/ UNCHANGED insSummary /\ insFaulted' = TRUE
  /\ UNCHANGED <<insDisk, insStaging, insRecord, insVerified>>

HelperForms(s) ==
  \/ CleanForm(s) \/ StageForm(s) \/ VerifyForm(s) \/ RemoveForm(s) \/ MoveForm(s)
  \/ EndForm(s) \/ GoneForm(s) \/ InPlaceForm(s)

LEMMA HelperHasForm ==
  ASSUME SetupShape, NEW s \in Setup!Slots, Setup!HelperStep(s) \/ Setup!HelperDies(s)
  PROVE  On(s) /\ OthersStay /\ HelperForms(s)
<1>0. On(s)
  BY DEF On, Setup!HelperStep, Setup!HelperDies, Setup!VerifiesInPlace, Setup!CleansStaging, Setup!Stages,
         Setup!Verifies, Setup!RemovesOld, Setup!Moves, Setup!MoveEnds, Setup!CleansUp,
         Setup!Checks, Setup!WritesRecord, Setup!Reports, Setup!Runs
<1>g. \A q : Setup!Goes(s, q) => Becomes(s, q, insHelpers[s].ok, insHelpers[s].todo)
  BY <1>0, GoesBecomes
<1>f. Setup!Fails(s) => Becomes(s, "cleanup", FALSE, {}) /\ insFaulted' = TRUE
  BY <1>0, FailsBecomes, Zenon DEF Setup!Fails, Setup!Faults
<1>r. insHelpers' = [insHelpers EXCEPT ![s].pc = "report", ![s].ok = FALSE]
        => Becomes(s, "report", FALSE, insHelpers[s].todo)
  BY <1>0, FailsBecomes
<1> USE DEF OthersStay, HelperForms, Setup!wizardVars, Setup!historyVars, Setup!Runs, Setup!Job
<1>1. CASE Setup!CleansStaging(s)
  BY <1>0, <1>1, <1>g, <1>f, Zenon DEF Setup!CleansStaging, Setup!EmptyStaging, CleanForm
<1>2. CASE Setup!Stages(s)
  <2>1. insHelpers[s].pc = "stage" /\ OthersStay
        /\ UNCHANGED <<insDisk, insSummary, insRecord, insVerified>>
    BY <1>2, Zenon DEF Setup!Stages
  <2>2. CASE /\ \E f \in Setup!FilesOf(Setup!Job(s)) \ insStaging :
                  insStaging' = insStaging \cup {f}
             /\ UNCHANGED <<insHelpers, insFaulted>>
    BY <1>0, <2>1, <2>2 DEF StageForm
  <2>3. CASE Setup!Goes(s, "verify") /\ UNCHANGED <<insStaging, insFaulted>>
    BY <1>0, <1>g, <2>1, <2>3, Zenon DEF StageForm
  <2>4. CASE Setup!Fails(s) /\ UNCHANGED insStaging
    BY <1>0, <1>f, <2>1, <2>4, Zenon DEF StageForm
  <2> QED BY <1>2, <2>2, <2>3, <2>4, Zenon DEF Setup!Stages
<1>3. CASE Setup!Verifies(s)
  <2>1. insHelpers[s].pc = "verify" /\ OthersStay
        /\ UNCHANGED <<insDisk, insStaging, insSummary, insRecord>>
    BY <1>3, Zenon DEF Setup!Verifies, Setup!KeepInstalled
  <2> DEFINE q == IF insHelpers[s].job = "mod" THEN "remove" ELSE "move"
             T == insStaging \cap Setup!SharesStaging(insHelpers[s].job)
  <2>2. CASE /\ Setup!FilesOf(Setup!Job(s)) \subseteq insStaging
             /\ insHelpers' = [insHelpers EXCEPT ![s].pc = q, ![s].todo = T]
             /\ insVerified' = insVerified \cup {Setup!Job(s)}
             /\ UNCHANGED insFaulted
    <3> HIDE DEF q, T
    <3>4. Becomes(s, q, insHelpers[s].ok, T)
      BY <1>0, <2>2, FailsBecomes, Zenon
    <3> QED BY <1>0, <2>1, <2>2, <3>4 DEF VerifyForm, q, T
  <2>3. CASE Setup!Fails(s) /\ UNCHANGED insVerified
    BY <1>0, <1>f, <2>1, <2>3, Zenon DEF VerifyForm
  <2> QED BY <1>3, <2>2, <2>3, Zenon DEF Setup!Verifies
<1>4. CASE Setup!RemovesOld(s)
  BY <1>0, <1>4, <1>g, <1>f, Zenon DEF Setup!RemovesOld, Setup!RemoveOld, RemoveForm
<1>5. CASE Setup!Moves(s)
  <2>1. insHelpers[s].pc = "move" /\ OthersStay
        /\ UNCHANGED <<insSummary, insRecord, insVerified>>
    BY <1>5, Zenon DEF Setup!Moves
  <2>2. PICK f \in insHelpers[s].todo :
       \/ /\ f \in insStaging
          /\ insDisk' = [insDisk EXCEPT ![f] = "new"] /\ insStaging' = insStaging \ {f}
          /\ insHelpers' = [insHelpers EXCEPT ![s].todo = @ \ {f}]
          /\ UNCHANGED insFaulted
       \/ /\ insDisk' \in {insDisk, [insDisk EXCEPT ![f] = "torn"]}
          /\ Setup!Fails(s) /\ UNCHANGED insStaging
       \/ /\ insHelpers' = [insHelpers EXCEPT ![s].todo = @ \ {f}]
          /\ Setup!Faults
          /\ UNCHANGED <<insDisk, insStaging>>
    BY <1>5, Zenon DEF Setup!Moves
  <2>3. insHelpers' = [insHelpers EXCEPT ![s].todo = @ \ {f}]
          => Becomes(s, "move", insHelpers[s].ok, insHelpers[s].todo \ {f})
    BY <1>0, <2>1, FailsBecomes, Zenon
  <2> QED BY <1>0, <1>f, <2>1, <2>2, <2>3, Zenon DEF MoveForm, Setup!Faults
<1>6. CASE Setup!MoveEnds(s) \/ Setup!CleansUp(s)
  BY <1>0, <1>6, <1>g, Zenon DEF Setup!MoveEnds, Setup!CleansUp, EndForm
<1>7. CASE Setup!Checks(s)
  BY <1>0, <1>7, <1>g, <1>r, Zenon DEF Setup!Checks, EndForm
<1>8. CASE Setup!WritesRecord(s)
  BY <1>0, <1>8, <1>g, <1>r, Zenon DEF Setup!WritesRecord, Setup!Faults, EndForm
<1>9. CASE Setup!Reports(s)
  BY <1>0, <1>9, Zenon DEF Setup!Reports, GoneForm
<1>10. CASE Setup!HelperDies(s)
  BY <1>0, <1>10, Zenon DEF Setup!HelperDies, Setup!Faults, GoneForm
<1>11. CASE Setup!VerifiesInPlace(s)
  BY <1>0, <1>11, <1>g, <1>r, Zenon DEF Setup!VerifiesInPlace, Setup!Faults, InPlaceForm
<1> QED
  BY <1>1, <1>2, <1>3, <1>4, <1>5, <1>6, <1>7, <1>8, <1>9, <1>10, <1>11, Zenon
     DEF Setup!HelperStep


-----------------------------------------------------------------------------
(* The types, step by step.                                                *)

\* A step of a helper keeps the types of what it may write.
LEMMA HelperKeepsShape ==
  ASSUME SetupShape, NEW s \in Setup!Slots, On(s), OthersStay, HelperForms(s),
         insHelpers[s].ok \in BOOLEAN
  PROVE  SetupShape'
<1>t. /\ insDisk \in [Setup!Files -> Content] /\ insStaging \subseteq Setup!Files \ OldMod
      /\ insHelpers \in Table /\ insSummary \in {"none", "ok", "failed"}
      /\ insVerified \subseteq Setup!Jobs
  BY DEF SetupShape
<1>h. /\ insHelpers[s].job \in Setup!Jobs /\ insHelpers[s].todo \subseteq Setup!Files
      /\ {} \in SUBSET Setup!Files
      /\ \A T : T \subseteq insHelpers[s].todo => T \subseteq Setup!Files
      /\ insStaging \cap Setup!SharesStaging(insHelpers[s].job) \subseteq Setup!Files
  BY <1>t, HelperTyped
<1>b. \A q \in HelperPcs, o \in BOOLEAN, T \in SUBSET Setup!Files :
        Becomes(s, q, o, T) => insHelpers' \in Table
  BY BecomesTyped
<1> DEFINE Kept == /\ insDisk' \in [Setup!Files -> Content]
                   /\ insStaging' \subseteq Setup!Files \ OldMod
                   /\ insHelpers' \in Table /\ insSummary' \in {"none", "ok", "failed"}
                   /\ insVerified' \subseteq Setup!Jobs
<1>0. SUFFICES Kept
  BY DEF SetupShape, OthersStay
<1>p. /\ "inplace" \in HelperPcs /\ "clean" \in HelperPcs /\ "stage" \in HelperPcs /\ "verify" \in HelperPcs
      /\ "remove" \in HelperPcs /\ "move" \in HelperPcs /\ "cleanup" \in HelperPcs
      /\ "write" \in HelperPcs /\ "report" \in HelperPcs
  BY DEF HelperPcs
<1>1. CASE CleanForm(s)
  <2>1. insHelpers' \in Table
    <3>1. \/ Becomes(s, "stage", insHelpers[s].ok, insHelpers[s].todo)
          \/ Becomes(s, "cleanup", FALSE, {})
      BY <1>1, Zenon DEF CleanForm
    <3> QED BY <1>h, <1>b, <1>p, <3>1, ZenonT(30)
  <2> QED BY <1>t, <1>1, <2>1 DEF CleanForm
<1>2. CASE StageForm(s)
  <2>1. insHelpers' \in Table
    BY <1>t, <1>h, <1>b, <1>p, <1>2, ZenonT(30) DEF StageForm
  <2>2. insStaging' \subseteq Setup!Files \ OldMod
    <3>1. Setup!FilesOf(insHelpers[s].job) \subseteq Setup!Files \ OldMod
      BY <1>h, OwnedApart
    <3> QED BY <1>t, <1>2, <3>1 DEF StageForm
  <2> QED BY <1>t, <1>2, <2>1, <2>2 DEF StageForm
<1>3. CASE VerifyForm(s)
  <2>1. insHelpers' \in Table
    <3> DEFINE q == IF insHelpers[s].job = "mod" THEN "remove" ELSE "move"
               T == insStaging \cap Setup!SharesStaging(insHelpers[s].job)
    <3>1. Becomes(s, q, insHelpers[s].ok, T) \/ Becomes(s, "cleanup", FALSE, {})
      BY <1>3, Zenon DEF VerifyForm
    <3>2. q \in HelperPcs /\ T \in SUBSET Setup!Files
      BY <1>t, <1>p
    <3> HIDE DEF q, T
    <3> QED BY <1>h, <1>b, <1>p, <3>1, <3>2, ZenonT(30)
  <2> QED BY <1>t, <1>h, <1>3, <2>1 DEF VerifyForm
<1>4. CASE RemoveForm(s)
  <2>1. insHelpers' \in Table
    BY <1>h, <1>b, <1>p, <1>4, ZenonT(30) DEF RemoveForm
  <2>2. insDisk' \in [Setup!Files -> Content]
    BY <1>t, <1>4 DEF RemoveForm, Content
  <2> QED BY <1>t, <1>4, <2>1, <2>2 DEF RemoveForm
<1>5. CASE MoveForm(s)
  <2>1. insHelpers' \in Table
    BY <1>h, <1>b, <1>p, <1>5 DEF MoveForm
  <2>2. insDisk' \in [Setup!Files -> Content]
    BY <1>t, <1>5 DEF MoveForm, Content
  <2>3. insStaging' \subseteq Setup!Files \ OldMod
    BY <1>t, <1>5 DEF MoveForm
  <2> QED BY <1>t, <1>5, <2>1, <2>2, <2>3 DEF MoveForm
<1>6. CASE EndForm(s)
  <2>1. insHelpers' \in Table
    BY <1>h, <1>b, <1>p, <1>6 DEF EndForm
  <2>2. insStaging' \subseteq Setup!Files \ OldMod
    BY <1>t, <1>6 DEF EndForm
  <2> QED BY <1>t, <1>6, <2>1, <2>2 DEF EndForm
<1>7. CASE GoneForm(s)
  <2>1. insHelpers' \in Table
    BY <1>t, <1>7 DEF GoneForm, Table
  <2>2. insSummary' \in {"none", "ok", "failed"}
    BY <1>t, <1>7 DEF GoneForm
  <2> QED BY <1>t, <1>7, <2>1, <2>2 DEF GoneForm
<1>8. CASE InPlaceForm(s)
  <2>1. insHelpers' \in Table
    BY <1>h, <1>b, <1>p, <1>8 DEF InPlaceForm
  <2> QED BY <1>t, <1>h, <1>8, <2>1 DEF InPlaceForm
<1> QED BY <1>1, <1>2, <1>3, <1>4, <1>5, <1>6, <1>7, <1>8 DEF HelperForms

LEMMA OkIsBoolean ==
  ASSUME SetupShape, NEW s \in Setup!Slots, On(s) PROVE insHelpers[s].ok \in BOOLEAN
BY HelperTyped DEF Setup!Helpers

\* What the wizard's own steps do to the helpers and to the wizard.
NewHelper ==
  [job |-> Setup!NextJob, ok |-> TRUE, todo |-> {}, run |-> insRun,
   pc |-> Setup!FirstStep(Setup!NextJob)]

LEMMA NewHelperIs ==
  ASSUME SetupShape, Setup!NextJob \in Setup!Jobs
  PROVE  /\ NewHelper \in Setup!Helpers /\ NewHelper # NoHelper
         /\ NewHelper.job = Setup!NextJob /\ NewHelper.ok = TRUE /\ NewHelper.todo = {}
         /\ NewHelper.run = insRun
         /\ Setup!NextJob = "finalize" => NewHelper.pc = "check"
         /\ Setup!NextJob # "finalize" => NewHelper.pc \in {"inplace", "clean"}
         /\ NewHelper.pc = "inplace" => Setup!NextJob = "payload" /\ insWizard.embedded
<1> DEFINE q == Setup!FirstStep(Setup!NextJob)
<1>1. /\ Setup!NextJob = "finalize" => q = "check"
      /\ Setup!NextJob # "finalize" => q \in {"inplace", "clean"}
      /\ q = "inplace" => Setup!NextJob = "payload" /\ insWizard.embedded
  <2>1. CASE Setup!NextJob = "finalize"
    BY <2>1 DEF Setup!FirstStep
  <2>2. CASE Setup!NextJob = "payload" /\ insWizard.embedded
    BY <2>2 DEF Setup!FirstStep
  <2>3. CASE Setup!NextJob # "finalize" /\ ~(Setup!NextJob = "payload" /\ insWizard.embedded)
    BY <2>3 DEF Setup!FirstStep
  <2> QED BY <2>1, <2>2, <2>3
<1>2. insRun \in 1 .. MaxRuns
  BY DEF SetupShape
<1> HIDE DEF q
<1>3. NewHelper = [job |-> Setup!NextJob, ok |-> TRUE, todo |-> {}, run |-> insRun, pc |-> q]
  BY Zenon DEF NewHelper, q
<1>4. NewHelper \in Setup!Helpers
  BY <1>1, <1>2, <1>3 DEF Setup!Helpers
<1>5. NewHelper # NoHelper
  BY <1>4, SentinelsAssumption
<1> QED BY <1>1, <1>3, <1>4, <1>5

\* The wizard's record with some of its fields replaced.
LEMMA WizardFields ==
  ASSUME SetupShape, NEW q, NEW A
  PROVE  /\ [insWizard EXCEPT !.pc = q]
              = [pc |-> q, job |-> insWizard.job, left |-> insWizard.left,
                 embedded |-> insWizard.embedded, added |-> insWizard.added]
         /\ [insWizard EXCEPT !.added = A]
              = [pc |-> insWizard.pc, job |-> insWizard.job, left |-> insWizard.left,
                 embedded |-> insWizard.embedded, added |-> A]
         /\ [insWizard EXCEPT !.pc = q, !.added = A]
              = [pc |-> q, job |-> insWizard.job, left |-> insWizard.left,
                 embedded |-> insWizard.embedded, added |-> A]
<1>1. insWizard
        = [pc |-> insWizard.pc, job |-> insWizard.job, left |-> insWizard.left,
           embedded |-> insWizard.embedded, added |-> insWizard.added]
  BY DEF SetupShape, Wizards
<1>2. [insWizard EXCEPT !.pc = q]
        = [pc |-> q, job |-> insWizard.job, left |-> insWizard.left,
           embedded |-> insWizard.embedded, added |-> insWizard.added]
  BY <1>1
<1>3. [insWizard EXCEPT !.added = A]
        = [pc |-> insWizard.pc, job |-> insWizard.job, left |-> insWizard.left,
           embedded |-> insWizard.embedded, added |-> A]
  BY <1>1
<1>4. [insWizard EXCEPT !.pc = q, !.added = A] = [[insWizard EXCEPT !.pc = q] EXCEPT !.added = A]
  BY <1>1
<1>5. [[pc |-> q, job |-> insWizard.job, left |-> insWizard.left,
           embedded |-> insWizard.embedded, added |-> insWizard.added] EXCEPT !.added = A]
        = [pc |-> q, job |-> insWizard.job, left |-> insWizard.left,
           embedded |-> insWizard.embedded, added |-> A]
  OBVIOUS
<1>6. [insWizard EXCEPT !.pc = q, !.added = A]
        = [pc |-> q, job |-> insWizard.job, left |-> insWizard.left,
           embedded |-> insWizard.embedded, added |-> A]
  BY <1>2, <1>4, <1>5
<1> QED BY <1>2, <1>3, <1>6, Zenon

LEMMA WizardPolls ==
  ASSUME SetupShape, NEW q, NEW j, NEW L
  PROVE  [insWizard EXCEPT !.pc = q, !.job = j, !.left = L]
              = [pc |-> q, job |-> j, left |-> L,
                 embedded |-> insWizard.embedded, added |-> insWizard.added]
<1>1. insWizard
        = [pc |-> insWizard.pc, job |-> insWizard.job, left |-> insWizard.left,
           embedded |-> insWizard.embedded, added |-> insWizard.added]
  BY DEF SetupShape, Wizards
<1>2. [insWizard EXCEPT !.pc = q]
        = [pc |-> q, job |-> insWizard.job, left |-> insWizard.left,
           embedded |-> insWizard.embedded, added |-> insWizard.added]
  BY <1>1
<1>7. [insWizard EXCEPT !.pc = q, !.job = j, !.left = L]
        = [[[insWizard EXCEPT !.pc = q] EXCEPT !.job = j] EXCEPT !.left = L]
  BY <1>1
<1>8. [[pc |-> q, job |-> insWizard.job, left |-> insWizard.left,
           embedded |-> insWizard.embedded, added |-> insWizard.added] EXCEPT !.job = j]
        = [pc |-> q, job |-> j, left |-> insWizard.left,
           embedded |-> insWizard.embedded, added |-> insWizard.added]
  OBVIOUS
<1>9. [[pc |-> q, job |-> j, left |-> insWizard.left,
           embedded |-> insWizard.embedded, added |-> insWizard.added] EXCEPT !.left = L]
        = [pc |-> q, job |-> j, left |-> L,
           embedded |-> insWizard.embedded, added |-> insWizard.added]
  OBVIOUS
<1>10. [insWizard EXCEPT !.pc = q, !.job = j, !.left = L]
        = [pc |-> q, job |-> j, left |-> L,
           embedded |-> insWizard.embedded, added |-> insWizard.added]
  BY <1>2, <1>7, <1>8, <1>9
<1> QED BY <1>10, Zenon

\* What each step makes of the wizard.
WizardIs(q, j, L, A) ==
  insWizard' = [pc |-> q, job |-> j, left |-> L, embedded |-> insWizard.embedded, added |-> A]

LEMMA WizardTyped ==
  ASSUME SetupShape, NEW q \in WizardPcs, NEW j \in Setup!Jobs, NEW L \in SUBSET Setup!Jobs,
         NEW A \in SUBSET Payload, WizardIs(q, j, L, A)
  PROVE  /\ insWizard' \in Wizards
         /\ insWizard'.pc = q /\ insWizard'.job = j /\ insWizard'.left = L
         /\ insWizard'.added = A /\ insWizard'.embedded = insWizard.embedded
BY DEF SetupShape, Wizards, WizardIs

LEMMA CopiesIs ==
  ASSUME SetupShape, Setup!CopiesFile
  PROVE  /\ insWizard.pc = "copy"
         /\ \E A \in SUBSET Payload : WizardIs("copy", insWizard.job, insWizard.left, A)
         /\ \E f \in Payload : insDisk' = [insDisk EXCEPT ![f] = "new"]
         /\ UNCHANGED <<insStaging, insHelpers, insSummary, insRecord, insRun, insVerified,
                       insBeside, insFaulted>>
<1>1. /\ insWizard.pc = "copy"
      /\ UNCHANGED <<insStaging, insHelpers, insSummary, insRecord, insRun, insVerified,
                    insBeside, insFaulted>>
  BY Zenon DEF Setup!CopiesFile, Setup!historyVars
<1>2. PICK f \in Payload :
        /\ insDisk' = [insDisk EXCEPT ![f] = "new"]
        /\ insWizard' = [insWizard EXCEPT !.added = IF insDisk[f] = "none" THEN @ \cup {f} ELSE @]
  BY Zenon DEF Setup!CopiesFile
<1> DEFINE A == IF insDisk[f] = "none" THEN insWizard.added \cup {f} ELSE insWizard.added
<1>3. A \in SUBSET Payload
  BY DEF SetupShape, Wizards
<1>4. insWizard' = [insWizard EXCEPT !.added = A]
  BY <1>2
<1> HIDE DEF A
<1>5. WizardIs("copy", insWizard.job, insWizard.left, A)
  BY <1>1, <1>4, WizardFields DEF WizardIs
<1> QED BY <1>1, <1>2, <1>3, <1>5

LEMMA CopyEndsIs ==
  ASSUME SetupShape, Setup!CopyEnds
  PROVE  /\ insWizard.pc = "copy"
         /\ \/ /\ WizardIs("next", insWizard.job, insWizard.left, {})
               /\ insFaulted' = (insFaulted \/ ~Setup!BuildIsNew)
               /\ UNCHANGED insDisk
            \/ /\ WizardIs("failed", insWizard.job, insWizard.left, {})
               /\ insDisk' = [f \in Setup!Files |-> IF f \in insWizard.added THEN "none"
                                                     ELSE insDisk[f]]
               /\ insFaulted' = TRUE
         /\ UNCHANGED <<insStaging, insHelpers, insSummary, insRecord, insRun, insVerified,
                       insBeside>>
<1>1. \A q : insWizard' = [insWizard EXCEPT !.pc = q, !.added = {}]
               => WizardIs(q, insWizard.job, insWizard.left, {})
  BY WizardFields, Zenon DEF WizardIs
<1> QED BY <1>1, Zenon DEF Setup!CopyEnds, Setup!historyVars

LEMMA RunStageIs ==
  ASSUME SetupShape, Setup!RunStage
  PROVE  /\ insWizard.pc = "next" /\ insWizard.left # {} /\ ~On("polled")
         /\ Setup!NextJob \in Setup!Jobs /\ Setup!NextJob \in insWizard.left
         /\ insWizard.left \ {Setup!NextJob} \subseteq After(Setup!NextJob)
         /\ WizardIs("poll", Setup!NextJob, insWizard.left \ {Setup!NextJob}, insWizard.added)
         /\ insHelpers' = [insHelpers EXCEPT !["polled"] = NewHelper]
         /\ insHelpers'["polled"] = NewHelper
         /\ \A t \in Setup!Slots \ {"polled"} : insHelpers'[t] = insHelpers[t]
         /\ insSummary' = "none"
         /\ UNCHANGED <<insDisk, insStaging, insRecord, insRun, insVerified, insBeside,
                       insFaulted>>
<1>1. /\ insWizard.pc = "next" /\ insWizard.left # {} /\ ~On("polled")
      /\ insHelpers' = [insHelpers EXCEPT !["polled"] = NewHelper]
      /\ insSummary' = "none"
      /\ UNCHANGED <<insDisk, insStaging, insRecord, insRun, insVerified, insBeside, insFaulted>>
  BY Zenon DEF Setup!RunStage, Setup!historyVars, On, NewHelper
<1>2. /\ Setup!NextJob \in Setup!Jobs /\ Setup!NextJob \in insWizard.left
      /\ insWizard.left \ {Setup!NextJob} \subseteq After(Setup!NextJob)
  BY <1>1, NextJobIs DEF SetupShape, Wizards
<1>3. insWizard' = [insWizard EXCEPT !.pc = "poll", !.job = Setup!NextJob,
                                     !.left = @ \ {Setup!NextJob}]
  BY Zenon DEF Setup!RunStage
<1>4. WizardIs("poll", Setup!NextJob, insWizard.left \ {Setup!NextJob}, insWizard.added)
  <2> DEFINE j == Setup!NextJob
             L == insWizard.left \ {j}
  <2>1. insWizard' = [insWizard EXCEPT !.pc = "poll", !.job = j, !.left = L]
    BY <1>3
  <2> HIDE DEF j, L
  <2>2. [insWizard EXCEPT !.pc = "poll", !.job = j, !.left = L]
          = [pc |-> "poll", job |-> j, left |-> L, embedded |-> insWizard.embedded,
             added |-> insWizard.added]
    BY WizardPolls, Zenon
  <2> QED BY <2>1, <2>2, Zenon DEF WizardIs, j, L
<1>5. /\ insHelpers'["polled"] = NewHelper
      /\ \A t \in Setup!Slots \ {"polled"} : insHelpers'[t] = insHelpers[t]
  BY <1>1 DEF SetupShape, Table, Setup!Slots
<1> QED BY <1>1, <1>2, <1>4, <1>5

\* The helper that was polled, if it is still there, goes on in a slot that was free.
LEMMA LetsGoIs ==
  ASSUME SetupShape, Setup!LetsGo
  PROVE  /\ insHelpers' \in Table
         /\ \/ ~On("polled") /\ insHelpers' = insHelpers
            \/ \E a \in Abandoned :
                 /\ On("polled") /\ ~On(a)
                 /\ insHelpers'[a] = insHelpers["polled"] /\ insHelpers'["polled"] = NoHelper
                 /\ \A t \in Setup!Slots \ {"polled", a} : insHelpers'[t] = insHelpers[t]
<1>t. insHelpers \in Table
  BY DEF SetupShape
<1>1. CASE ~On("polled") /\ insHelpers' = insHelpers
  BY <1>t, <1>1
<1>2. ASSUME NEW a \in Abandoned, On("polled"), ~On(a),
             insHelpers' = [insHelpers EXCEPT ![a] = insHelpers["polled"], !["polled"] = NoHelper]
      PROVE  /\ insHelpers' \in Table
             /\ insHelpers'[a] = insHelpers["polled"] /\ insHelpers'["polled"] = NoHelper
             /\ \A t \in Setup!Slots \ {"polled", a} : insHelpers'[t] = insHelpers[t]
  <2>1. a # "polled" /\ a \in Setup!Slots /\ "polled" \in Setup!Slots
    BY ComponentsAssumption DEF Setup!Slots
  <2> QED BY <1>t, <1>2, <2>1 DEF Table
<1> QED BY <1>1, <1>2, Zenon DEF Setup!LetsGo, On

\* How a stage ends, in either way, for the wizard.
LEMMA StageOverIs ==
  ASSUME SetupShape, Setup!StageEnds \/ Setup!GivesUp
  PROVE  /\ insWizard.pc = "poll" /\ Setup!LetsGo
         /\ \E q \in {"failed", "done", "next"} :
              /\ WizardIs(q, insWizard.job, insWizard.left, insWizard.added)
              /\ q = "done" => insWizard.left = {}
              /\ q = "next" => insWizard.left # {}
              /\ q = "failed" => insWizard.job \in {"payload", "game"}
              /\ q = "failed" /\ Setup!StageEnds => insSummary # "ok"
              /\ Setup!GivesUp /\ insWizard.job \in {"payload", "game"} => q = "failed"
         /\ Setup!StageEnds => insSummary # "none" /\ UNCHANGED insFaulted
         /\ Setup!GivesUp => insFaulted' = TRUE
         /\ UNCHANGED <<insDisk, insStaging, insSummary, insRecord, insRun, insVerified,
                       insBeside>>
<1>1. /\ insWizard.pc = "poll" /\ Setup!LetsGo
      /\ Setup!StageEnds => insSummary # "none" /\ UNCHANGED insFaulted
      /\ Setup!GivesUp => insFaulted' = TRUE
      /\ UNCHANGED <<insDisk, insStaging, insSummary, insRecord, insRun, insVerified, insBeside>>
  BY Zenon DEF Setup!StageEnds, Setup!GivesUp, Setup!historyVars
<1>2. ASSUME NEW ok \in BOOLEAN, Setup!AfterStage(ok)
      PROVE  \E q \in {"failed", "done", "next"} :
              /\ WizardIs(q, insWizard.job, insWizard.left, insWizard.added)
              /\ q = "done" => insWizard.left = {}
              /\ q = "next" => insWizard.left # {}
              /\ q = "failed" => ~ok /\ insWizard.job \in {"payload", "game"}
              /\ ~ok /\ insWizard.job \in {"payload", "game"} => q = "failed"
  <2> DEFINE q == IF ~ok /\ insWizard.job \in {"payload", "game"} THEN "failed"
                  ELSE IF insWizard.left = {} THEN "done" ELSE "next"
  <2>1. insWizard' = [insWizard EXCEPT !.pc = q]
    BY <1>2, Zenon DEF Setup!AfterStage
  <2>2. /\ q \in {"failed", "done", "next"}
        /\ q = "done" => insWizard.left = {}
        /\ q = "next" => insWizard.left # {}
        /\ q = "failed" => ~ok /\ insWizard.job \in {"payload", "game"}
        /\ ~ok /\ insWizard.job \in {"payload", "game"} => q = "failed"
    OBVIOUS
  <2> HIDE DEF q
  <2>3. WizardIs(q, insWizard.job, insWizard.left, insWizard.added)
    BY <2>1, WizardFields, Zenon DEF WizardIs
  <2> QED BY <2>2, <2>3
<1>3. CASE Setup!StageEnds
  <2>1. Setup!AfterStage(insSummary = "ok") /\ (insSummary = "ok") \in BOOLEAN
    BY <1>3, Zenon DEF Setup!StageEnds
  <2>2. ~Setup!GivesUp
    BY <1>3, Zenon DEF Setup!StageEnds, Setup!GivesUp, Setup!Silent
  <2> QED BY <1>1, <1>2, <2>1, <2>2, Zenon
<1>4. CASE Setup!GivesUp
  <2>1. Setup!AfterStage(FALSE)
    BY <1>4, Zenon DEF Setup!GivesUp
  <2>2. ~Setup!StageEnds
    BY <1>4, Zenon DEF Setup!StageEnds, Setup!GivesUp, Setup!Silent
  <2> QED BY <1>1, <1>2, <2>1, <2>2, Zenon
<1> QED BY <1>3, <1>4

\* A wizard that starts has every stage before it.
LEMMA StartsIs ==
  ASSUME NEW w, Setup!Starts(w)
  PROVE  /\ w \in Wizards /\ {"payload", "finalize"} \subseteq w.left
         /\ w.pc = "copy" \/ (w.pc = "next" /\ w.embedded = FALSE)
BY DEF Setup!Starts, Setup!Plans, Setup!Jobs, Wizards, WizardPcs

LEMMA RunAgainIs ==
  ASSUME Setup!RunAgain
  PROVE  /\ insWizard.pc \in {"failed", "done"} /\ insRun < MaxRuns /\ insRun' = insRun + 1
         /\ Setup!Starts(insWizard') /\ insSummary' = "none"
         /\ insBeside' = (\E s \in Setup!Slots : On(s)) /\ insFaulted' = insBeside'
         /\ \A s \in Setup!Slots : On(s) /\ insHelpers[s].pc \in {"remove", "move"}
                                     => insHelpers[s].job \in insVerified'
         /\ (\A s \in Setup!Slots : ~On(s)) => insVerified' = {}
         /\ insVerified' \subseteq {insHelpers[s].job : s \in {t \in Setup!Slots : On(t)}}
         /\ UNCHANGED <<insDisk, insStaging, insHelpers>>
<1>1. /\ insWizard.pc \in {"failed", "done"} /\ insRun < MaxRuns /\ insRun' = insRun + 1
      /\ Setup!Starts(insWizard') /\ insSummary' = "none"
      /\ insBeside' = (Setup!Alive # {}) /\ insFaulted' = (Setup!Alive # {})
      /\ insVerified' = {insHelpers[s].job :
             s \in {t \in Setup!Alive : insHelpers[t].pc \in {"remove", "move"}}}
      /\ UNCHANGED <<insDisk, insStaging, insHelpers>>
  BY Zenon DEF Setup!RunAgain
<1>2. Setup!Alive = {t \in Setup!Slots : On(t)}
  BY Zenon DEF Setup!Alive, On
<1>3. (Setup!Alive # {}) = (\E s \in Setup!Slots : On(s))
  BY <1>2
<1>4. \A s \in Setup!Slots : On(s) /\ insHelpers[s].pc \in {"remove", "move"}
                              => insHelpers[s].job \in insVerified'
  BY <1>1, <1>2
<1>5. /\ (\A s \in Setup!Slots : ~On(s)) => insVerified' = {}
      /\ insVerified' \subseteq {insHelpers[s].job : s \in {t \in Setup!Slots : On(t)}}
  BY <1>1, <1>2
<1> QED BY <1>1, <1>3, <1>4, <1>5, Zenon

LEMMA PowerFailsIs ==
  ASSUME SetupShape, Setup!PowerFails
  PROVE  /\ insHelpers' \in Table /\ \A s \in Setup!Slots : ~On(s)'
         /\ WizardIs("failed", insWizard.job, insWizard.left, {}) /\ insFaulted' = TRUE
         /\ UNCHANGED <<insDisk, insStaging, insSummary, insRecord, insRun, insVerified,
                       insBeside>>
<1>1. insHelpers' = [s \in Setup!Slots |-> NoHelper]
  BY Zenon DEF Setup!PowerFails
<1>2. insHelpers' \in Table /\ \A s \in Setup!Slots : ~On(s)'
  BY <1>1 DEF Table, On
<1>3. insWizard' = [insWizard EXCEPT !.pc = "failed", !.added = {}]
  BY Zenon DEF Setup!PowerFails
<1>4. WizardIs("failed", insWizard.job, insWizard.left, {})
  BY <1>3, WizardFields, Zenon DEF WizardIs
<1>5. /\ insFaulted' = TRUE
      /\ UNCHANGED <<insDisk, insStaging, insSummary, insRecord, insRun, insVerified, insBeside>>
  BY Zenon DEF Setup!PowerFails, Setup!Faults, Setup!historyVars
<1> QED BY <1>2, <1>4, <1>5

LEMMA WizardKeepsShape ==
  ASSUME SetupShape, Setup!WizardStep \/ Setup!RunAgain \/ Setup!PowerFails
  PROVE  SetupShape'
<1>t. /\ insHelpers \in Table /\ insRun \in 1 .. MaxRuns
      /\ insDisk \in [Setup!Files -> Content] /\ insStaging \subseteq Setup!Files \ OldMod
      /\ insSummary \in {"none", "ok", "failed"} /\ insVerified \subseteq Setup!Jobs
      /\ insWizard.left \in SUBSET Setup!Jobs /\ insWizard.job \in Setup!Jobs
      /\ insWizard.added \in SUBSET Payload
  BY DEF SetupShape, Wizards
<1>p. /\ WizardPcs = {"copy", "next", "poll", "failed", "done"}
      /\ {} \in SUBSET Payload /\ Payload \subseteq Setup!Files
  BY DEF WizardPcs, Setup!Files
<1>1. CASE Setup!CopiesFile
  <2>1. PICK A \in SUBSET Payload : WizardIs("copy", insWizard.job, insWizard.left, A)
    BY <1>1, CopiesIs
  <2>2. insWizard' \in Wizards
    BY <1>t, <1>p, <2>1, WizardTyped
  <2>3. insDisk' \in [Setup!Files -> Content]
    BY <1>1, <1>t, <1>p, CopiesIs DEF Content
  <2> QED BY <1>1, <1>t, <2>2, <2>3, CopiesIs DEF SetupShape
<1>2. CASE Setup!CopyEnds
  <2>1. insWizard' \in Wizards
    BY <1>2, <1>t, <1>p, CopyEndsIs, WizardTyped
  <2>2. insDisk' \in [Setup!Files -> Content]
    BY <1>2, <1>t, CopyEndsIs DEF Content
  <2> QED BY <1>2, <1>t, <2>1, <2>2, CopyEndsIs DEF SetupShape
<1>3. CASE Setup!RunStage
  <2>1. insWizard' \in Wizards
    <3>1. insWizard.left \ {Setup!NextJob} \in SUBSET Setup!Jobs
      BY <1>t
    <3> QED BY <1>3, <1>t, <1>p, <3>1, RunStageIs, WizardTyped
  <2>2. insHelpers' \in Table
    BY <1>3, <1>t, RunStageIs, NewHelperIs DEF Table, Setup!Slots
  <2> QED BY <1>3, <1>t, <2>1, <2>2, RunStageIs DEF SetupShape
<1>4. CASE Setup!StageEnds \/ Setup!GivesUp
  <2>1. PICK q \in WizardPcs : WizardIs(q, insWizard.job, insWizard.left, insWizard.added)
    BY <1>4, <1>p, StageOverIs
  <2>2. insWizard' \in Wizards
    BY <1>t, <2>1, WizardTyped
  <2>3. insHelpers' \in Table
    BY <1>4, StageOverIs, LetsGoIs
  <2> QED BY <1>4, <1>t, <2>2, <2>3, StageOverIs DEF SetupShape
<1>5. CASE Setup!RunAgain
  <2>1. insRun' \in 1 .. MaxRuns
    BY <1>5, <1>t, ComponentsAssumption, RunAgainIs
  <2>2. insWizard' \in Wizards
    BY <1>5, RunAgainIs, StartsIs
  <2>3. insVerified' \subseteq Setup!Jobs
    BY <1>5, RunAgainIs, HelperTyped
  <2> QED BY <1>5, <1>t, <2>1, <2>2, <2>3, RunAgainIs DEF SetupShape
<1>6. CASE Setup!PowerFails
  <2>1. insWizard' \in Wizards
    BY <1>6, <1>t, <1>p, PowerFailsIs, WizardTyped
  <2> QED BY <1>6, <1>t, <2>1, PowerFailsIs DEF SetupShape
<1> QED BY <1>1, <1>2, <1>3, <1>4, <1>5, <1>6 DEF Setup!WizardStep

LEMMA ShapeKept == SetupShape /\ [Setup!Next]_(Setup!vars) => SetupShape'
<1> SUFFICES ASSUME SetupShape, [Setup!Next]_(Setup!vars) PROVE SetupShape'
  OBVIOUS
<1>1. CASE \E s \in Setup!Slots : Setup!HelperStep(s) \/ Setup!HelperDies(s)
  BY <1>1, HelperHasForm, OkIsBoolean, HelperKeepsShape
<1>2. CASE UNCHANGED Setup!vars
  BY <1>2 DEF SetupShape, Setup!vars
<1> QED BY <1>1, <1>2, WizardKeepsShape DEF Setup!Next

LEMMA ShapeInit == Setup!Init => SetupShape
<1> SUFFICES ASSUME Setup!Init PROVE SetupShape
  OBVIOUS
<1>1. insDisk \in [Setup!Files -> Content]
  BY DEF Setup!Init, Content
<1>2. insHelpers \in Table /\ insStaging = {} /\ insVerified = {} /\ insSummary = "none"
  BY DEF Setup!Init, Table
<1>3. insWizard \in Wizards
  BY StartsIs DEF Setup!Init
<1>4. insRun \in 1 .. MaxRuns
  BY ComponentsAssumption DEF Setup!Init
<1> QED BY <1>1, <1>2, <1>3, <1>4 DEF SetupShape


-----------------------------------------------------------------------------
(* Nothing is touched before its check.  The stages come in order, so that *)
(* of two helpers of one run one is the last job's, which has no files: but*)
(* for helpers of an earlier run the staging folder is one helper's at a   *)
(* time, and from the clean-up on it holds that component's files only.    *)
(* What a helper moves or removes therefore belongs to the component it has*)
(* just verified; beside a helper of an earlier run, at least to the       *)
(* staging folder the two of them fill.                                    *)

WizardOrder ==
  /\ insWizard.pc = "poll" => insWizard.left \subseteq After(insWizard.job)
  /\ insWizard.pc \in {"copy", "next"} => insWizard.left # {}
  /\ insWizard.pc = "done" => insWizard.left = {} /\ insWizard.job = "finalize"
  /\ insWizard.pc \in {"copy", "next", "poll"} =>
       "finalize" \in insWizard.left \/ (insWizard.pc = "poll" /\ insWizard.job = "finalize")

\* A helper of this run.
Current(s) == On(s) /\ insHelpers[s].run = insRun

NoneLater == \A s \in Setup!Slots : On(s) => insHelpers[s].run <= insRun

NoneEarlier == ~insBeside => \A s \in Setup!Slots : On(s) => Current(s)

Polled ==
  On("polled") =>
    /\ insWizard.pc = "poll" /\ insHelpers["polled"].job = insWizard.job
    /\ Current("polled")
    /\ insSummary # "none" => insWizard.job = "finalize"

GivenUp ==
  \A a \in Abandoned : Current(a) /\ insWizard.pc \in {"copy", "next", "poll"} =>
    /\ insHelpers[a].job = "mod" /\ insWizard.left \subseteq {"finalize"}
    /\ insWizard.pc = "poll" => insWizard.job = "finalize"

\* Of two helpers of one run one is the last job's.
Apart(s, t) ==
  Current(s) /\ Current(t) =>
    insHelpers[s].job = "finalize" \/ insHelpers[t].job = "finalize"

AllApart == \A s, t \in Setup!Slots : s # t => Apart(s, t)

OneHelper == NoneLater /\ NoneEarlier /\ Polled /\ GivenUp /\ AllApart

\* A helper's job fits what it does; what it moves was staged where its job stages.
Fitting(s) ==
  On(s) =>
    /\ insHelpers[s].job = "finalize" => insHelpers[s].pc \in {"check", "write", "report"}
    /\ insHelpers[s].pc \in {"check", "write"} => insHelpers[s].job = "finalize"
    /\ insHelpers[s].pc = "inplace" => insHelpers[s].job = "payload"
    /\ insHelpers[s].pc \in {"remove", "move"} =>
         /\ insHelpers[s].job \in insVerified
         /\ insHelpers[s].todo \subseteq Setup!SharesStaging(insHelpers[s].job)
    /\ insHelpers[s].pc = "remove" => insHelpers[s].job = "mod"

\* While the staging folder is one helper's, only that helper's files are in it.
Staged(s) ==
  On(s) /\ ~insBeside =>
    /\ insHelpers[s].pc \in {"stage", "verify"} =>
         insStaging \cap Setup!SharesStaging(insHelpers[s].job)
           \subseteq Setup!FilesOf(insHelpers[s].job)
    /\ insHelpers[s].pc \in {"remove", "move"} =>
         insHelpers[s].todo \subseteq Setup!FilesOf(insHelpers[s].job)

OrderInv ==
  SetupShape /\ WizardOrder /\ OneHelper /\ \A s \in Setup!Slots : Fitting(s) /\ Staged(s)

\* What a helper's step does to the slots.
LEMMA HelperSlots ==
  ASSUME SetupShape, NEW s \in Setup!Slots, On(s), HelperForms(s)
  PROVE  /\ \A t \in Setup!Slots \ {s} : insHelpers'[t] = insHelpers[t]
         /\ insHelpers'[s] # NoHelper => /\ insHelpers'[s].job = insHelpers[s].job
                                         /\ insHelpers'[s].run = insHelpers[s].run
<1>t. insHelpers \in Table
  BY DEF SetupShape
<1>h. /\ insHelpers[s].job \in Setup!Jobs /\ insHelpers[s].todo \subseteq Setup!Files
      /\ {} \in SUBSET Setup!Files
      /\ \A T : T \subseteq insHelpers[s].todo => T \subseteq Setup!Files
      /\ insStaging \cap Setup!SharesStaging(insHelpers[s].job) \subseteq Setup!Files
      /\ insHelpers[s].ok \in BOOLEAN
  BY HelperTyped, OkIsBoolean DEF SetupShape
<1> DEFINE Fits == /\ \A t \in Setup!Slots \ {s} : insHelpers'[t] = insHelpers[t]
                   /\ insHelpers'[s].job = insHelpers[s].job
                   /\ insHelpers'[s].run = insHelpers[s].run
<1>b. \A q \in HelperPcs, o \in BOOLEAN, T \in SUBSET Setup!Files : Becomes(s, q, o, T) => Fits
  BY BecomesTyped
<1>p. /\ "inplace" \in HelperPcs /\ "clean" \in HelperPcs /\ "stage" \in HelperPcs /\ "verify" \in HelperPcs
      /\ "remove" \in HelperPcs /\ "move" \in HelperPcs /\ "cleanup" \in HelperPcs
      /\ "write" \in HelperPcs /\ "report" \in HelperPcs
  BY DEF HelperPcs
<1> HIDE DEF Fits
<1>1. Fits \/ insHelpers' = insHelpers \/ insHelpers' = [insHelpers EXCEPT ![s] = NoHelper]
  <2>1. CASE CleanForm(s)
    BY <1>h, <1>b, <1>p, <2>1 DEF CleanForm
  <2>2. CASE StageForm(s)
    BY <1>h, <1>b, <1>p, <2>2 DEF StageForm
  <2>3. CASE VerifyForm(s)
    BY <1>h, <1>b, <1>p, <2>3, ZenonT(30) DEF VerifyForm
  <2>4. CASE RemoveForm(s)
    BY <1>h, <1>b, <1>p, <2>4, ZenonT(30) DEF RemoveForm
  <2>5. CASE MoveForm(s)
    BY <1>h, <1>b, <1>p, <2>5 DEF MoveForm
  <2>6. CASE EndForm(s)
    BY <1>h, <1>b, <1>p, <2>6 DEF EndForm
  <2>7. CASE GoneForm(s)
    BY <2>7 DEF GoneForm
  <2>8. CASE InPlaceForm(s)
    BY <1>h, <1>b, <1>p, <2>8 DEF InPlaceForm
  <2> QED BY <2>1, <2>2, <2>3, <2>4, <2>5, <2>6, <2>7, <2>8 DEF HelperForms
<1> QED BY <1>t, <1>1 DEF Fits, Table

\* Where the helper that steps goes on, and with what to move.
Lands(s, q, T) == insHelpers'[s].pc = q /\ insHelpers'[s].todo = T

LEMMA HelperGoes ==
  ASSUME SetupShape, NEW s \in Setup!Slots, On(s), HelperForms(s)
  PROVE  \/ insHelpers'[s] = NoHelper /\ UNCHANGED <<insStaging, insVerified>>
         \/ /\ insHelpers[s].pc \in {"clean", "stage", "verify", "remove", "move"}
            /\ Lands(s, "cleanup", {}) /\ insVerified' = insVerified
         \/ /\ insHelpers[s].pc = "clean" /\ Lands(s, "stage", insHelpers[s].todo)
            /\ insStaging' = insStaging \ Setup!SharesStaging(insHelpers[s].job)
            /\ insVerified' = insVerified
         \/ /\ insHelpers[s].pc = "stage"
            /\ insHelpers' = insHelpers /\ insVerified' = insVerified
            /\ \E f \in Setup!FilesOf(insHelpers[s].job) : insStaging' = insStaging \cup {f}
         \/ /\ insHelpers[s].pc = "stage" /\ Lands(s, "verify", insHelpers[s].todo)
            /\ UNCHANGED <<insStaging, insVerified>>
         \/ /\ insHelpers[s].pc = "verify"
            /\ insVerified' = insVerified \cup {insHelpers[s].job}
            /\ Lands(s, IF insHelpers[s].job = "mod" THEN "remove" ELSE "move",
                     insStaging \cap Setup!SharesStaging(insHelpers[s].job))
         \/ /\ insHelpers[s].pc = "remove" /\ Lands(s, "move", insHelpers[s].todo)
            /\ insVerified' = insVerified
         \/ /\ insHelpers[s].pc = "move" /\ insVerified' = insVerified
            /\ \E T \in SUBSET insHelpers[s].todo :
                 Lands(s, "move", T) \/ Lands(s, "cleanup", T)
         \/ /\ insHelpers[s].pc = "cleanup" /\ Lands(s, "report", insHelpers[s].todo)
            /\ insVerified' = insVerified
         \/ /\ insHelpers[s].pc \in {"check", "write"}
            /\ \/ Lands(s, "write", insHelpers[s].todo)
               \/ Lands(s, "report", insHelpers[s].todo)
            /\ UNCHANGED <<insStaging, insVerified>>
         \/ /\ insHelpers[s].pc = "inplace" /\ Lands(s, "report", insHelpers[s].todo)
            /\ UNCHANGED insStaging /\ insVerified \subseteq insVerified'
<1> DEFINE h == insHelpers[s]
           T0 == insStaging \cap Setup!SharesStaging(h.job)
           q0 == IF h.job = "mod" THEN "remove" ELSE "move"
<1>h. /\ h.todo \in SUBSET Setup!Files /\ {} \in SUBSET Setup!Files
      /\ \A T : T \subseteq h.todo => T \in SUBSET Setup!Files
      /\ T0 \in SUBSET Setup!Files
      /\ h.ok \in BOOLEAN /\ FALSE \in BOOLEAN
  BY HelperTyped, OkIsBoolean DEF SetupShape
<1>b. \A q \in HelperPcs, o \in BOOLEAN, T \in SUBSET Setup!Files :
        Becomes(s, q, o, T) => Lands(s, q, T)
  BY BecomesTyped DEF Lands
<1>p. /\ {"clean", "stage", "verify", "remove", "move", "cleanup", "write", "report"}
           \subseteq HelperPcs
      /\ q0 \in HelperPcs
  BY DEF HelperPcs
<1>t. \A q \in HelperPcs, o \in BOOLEAN : Becomes(s, q, o, h.todo) => Lands(s, q, h.todo)
  BY <1>h, <1>b
<1>f. Becomes(s, "cleanup", FALSE, {}) => Lands(s, "cleanup", {})
  BY <1>h, <1>b, <1>p
<1> HIDE DEF h, T0, q0
<1>1. CASE CleanForm(s)
  <2>1. Becomes(s, "stage", h.ok, h.todo) => Lands(s, "stage", h.todo)
    BY <1>h, <1>t, <1>p
  <2> QED BY <1>f, <1>1, <2>1, Zenon DEF CleanForm, h
<1>2. CASE StageForm(s)
  <2>1. Becomes(s, "verify", h.ok, h.todo) => Lands(s, "verify", h.todo)
    BY <1>h, <1>t, <1>p
  <2> QED BY <1>f, <1>2, <2>1, Zenon DEF StageForm, h
<1>3. CASE VerifyForm(s)
  <2>1. Becomes(s, q0, h.ok, T0) => Lands(s, q0, T0)
    BY <1>h, <1>b, <1>p
  <2> QED BY <1>f, <1>3, <2>1, Zenon DEF VerifyForm, h, T0, q0
<1>4. CASE RemoveForm(s)
  <2>1. Becomes(s, "move", h.ok, h.todo) => Lands(s, "move", h.todo)
    BY <1>h, <1>t, <1>p
  <2> QED BY <1>f, <1>4, <2>1, Zenon DEF RemoveForm, h
<1>5. CASE MoveForm(s)
  <2>1. h.pc = "move" /\ insVerified' = insVerified
    BY <1>5 DEF MoveForm, h
  <2>2. \/ \E f \in h.todo : Becomes(s, "move", h.ok, h.todo \ {f})
        \/ Becomes(s, "cleanup", FALSE, {})
    BY <1>5, Zenon DEF MoveForm, h
  <2>3. \A f : Becomes(s, "move", h.ok, h.todo \ {f}) => Lands(s, "move", h.todo \ {f})
    BY <1>h, <1>b, <1>p
  <2>4. \A f : h.todo \ {f} \in SUBSET h.todo
    OBVIOUS
  <2> QED BY <1>f, <2>1, <2>2, <2>3, <2>4, Zenon DEF h
<1>6. CASE EndForm(s)
  <2>1. /\ Becomes(s, "cleanup", h.ok, h.todo) => Lands(s, "cleanup", h.todo)
        /\ Becomes(s, "report", h.ok, h.todo) => Lands(s, "report", h.todo)
        /\ Becomes(s, "report", FALSE, h.todo) => Lands(s, "report", h.todo)
        /\ Becomes(s, "write", h.ok, h.todo) => Lands(s, "write", h.todo)
    BY <1>h, <1>t, <1>p
  <2>2. h.todo \in SUBSET h.todo /\ insVerified' = insVerified
    BY <1>6 DEF EndForm
  <2>3. \/ h.pc = "move" /\ Lands(s, "cleanup", h.todo)
        \/ h.pc = "cleanup" /\ Lands(s, "report", h.todo)
        \/ /\ h.pc \in {"check", "write"} /\ UNCHANGED insStaging
           /\ Lands(s, "write", h.todo) \/ Lands(s, "report", h.todo)
    BY <1>6, <2>1 DEF EndForm, h
  <2> QED BY <2>2, <2>3, Zenon DEF h
<1>7. CASE GoneForm(s)
  <2>1. insHelpers'[s] = NoHelper
    BY <1>7 DEF GoneForm, SetupShape, Table
  <2> QED BY <1>7, <2>1 DEF GoneForm
<1>8. CASE InPlaceForm(s)
  <2>1. h.pc = "inplace" /\ Lands(s, "report", h.todo)
    BY <1>h, <1>t, <1>p, <1>8 DEF InPlaceForm, h
  <2>2. UNCHANGED insStaging /\ insVerified \subseteq insVerified'
    BY <1>8 DEF InPlaceForm
  <2> QED BY <2>1, <2>2, Zenon DEF h
<1> QED BY <1>1, <1>2, <1>3, <1>4, <1>5, <1>6, <1>7, <1>8, Zenon DEF HelperForms

\* The helper that steps still fits its job, and leaves its own staging in order.
LEMMA HelperStaged ==
  ASSUME SetupShape, NEW s \in Setup!Slots, On(s), HelperForms(s), OthersStay,
         Fitting(s), Staged(s)
  PROVE  Fitting(s)' /\ Staged(s)'
<1>1. insBeside' = insBeside
  BY DEF OthersStay
<1>2. insHelpers'[s] # NoHelper => insHelpers'[s].job = insHelpers[s].job
  BY HelperSlots
<1>3. insHelpers[s].job \in Setup!Jobs
  BY HelperTyped
<1>4. Setup!FilesOf(insHelpers[s].job) \subseteq Setup!SharesStaging(insHelpers[s].job)
  BY <1>3, OwnedApart
<1>5. Fitting(s)'
  BY <1>2, <1>4, HelperGoes DEF Fitting, On, Lands
<1>6. Staged(s)'
  BY <1>1, <1>2, <1>4, HelperGoes DEF Staged, On, Lands
<1> QED BY <1>5, <1>6

\* The helper that does not step keeps its staging: but for a helper of an earlier
\* run, only one of two uses it.
LEMMA OtherStaged ==
  ASSUME OrderInv, NEW s \in Setup!Slots, On(s), HelperForms(s), OthersStay,
         NEW t \in Setup!Slots, t # s
  PROVE  Fitting(t)' /\ Staged(t)'
<1>1. insHelpers'[t] = insHelpers[t] /\ insBeside' = insBeside
  BY HelperSlots DEF OrderInv, OthersStay
<1>0. Fitting(s) /\ Fitting(t) /\ Staged(t)
  BY DEF OrderInv
<1>2. insVerified \subseteq insVerified'
  BY HelperGoes DEF OrderInv
<1>3. Fitting(t)'
  BY <1>0, <1>1, <1>2 DEF Fitting, On
<1>4. Staged(t)'
  <2>1. CASE ~On(t) \/ insBeside
    BY <1>1, <2>1 DEF On, Staged
  <2>2. CASE On(t) /\ ~insBeside
    <3>1. insHelpers[s].job = "finalize" \/ insHelpers[t].job = "finalize"
      BY <2>2 DEF OrderInv, OneHelper, NoneEarlier, AllApart, Apart
    <3>2. CASE insHelpers[t].job = "finalize"
      BY <1>0, <1>1, <2>2, <3>2 DEF On, Staged, Fitting
    <3>3. CASE insHelpers[s].job = "finalize"
      <4>1. insHelpers[s].pc \in {"check", "write", "report"}
        BY <1>0, <3>3 DEF Fitting
      <4>2. UNCHANGED insStaging
        BY <4>1 DEF HelperForms, CleanForm, StageForm, VerifyForm, RemoveForm, MoveForm,
                    EndForm, GoneForm, InPlaceForm
      <4> QED BY <1>0, <1>1, <4>2 DEF On, Staged
    <3> QED BY <3>1, <3>2, <3>3
  <2> QED BY <2>1, <2>2
<1> QED BY <1>3, <1>4

LEMMA SlotsAre ==
  /\ "polled" \in Setup!Slots /\ Abandoned \subseteq Setup!Slots /\ "polled" \notin Abandoned
  /\ \A s \in Setup!Slots : s = "polled" \/ s \in Abandoned
BY ComponentsAssumption DEF Setup!Slots

LEMMA OrderInit == Setup!Init => OrderInv
<1> SUFFICES ASSUME Setup!Init PROVE OrderInv
  OBVIOUS
<1>1. \A s \in Setup!Slots : ~On(s)
  BY DEF Setup!Init, On
<1>2. WizardOrder
  BY StartsIs DEF Setup!Init, WizardOrder
<1>3. OneHelper
  BY <1>1, SlotsAre
     DEF OneHelper, NoneLater, NoneEarlier, Polled, GivenUp, AllApart, Apart, Current
<1> QED BY <1>1, <1>2, <1>3, ShapeInit DEF OrderInv, Fitting, Staged

\* A step after which no helper is in a slot it was not in before.
LEMMA SlotsKept ==
  ASSUME OneHelper, UNCHANGED <<insRun, insBeside>>,
         \A s \in Setup!Slots : On(s)' => /\ On(s) /\ insHelpers'[s].job = insHelpers[s].job
                                         /\ insHelpers'[s].run = insHelpers[s].run
  PROVE  /\ NoneLater' /\ NoneEarlier' /\ AllApart'
         /\ \A s \in Setup!Slots : Current(s)' => Current(s)
<1>1. \A s \in Setup!Slots : Current(s)' => Current(s)
  BY DEF Current
<1>2. NoneLater'
  BY DEF OneHelper, NoneLater
<1>3. NoneEarlier'
  BY DEF OneHelper, NoneEarlier, Current
<1>4. AllApart'
  BY <1>1 DEF OneHelper, AllApart, Apart, Current
<1> QED BY <1>1, <1>2, <1>3, <1>4

\* The polled helper, if there, goes on in the slot a.
LEMMA SlotsMoved ==
  ASSUME OneHelper, UNCHANGED <<insRun, insBeside>>, NEW a \in Abandoned,
         On("polled"), ~On(a),
         insHelpers'[a] = insHelpers["polled"], insHelpers'["polled"] = NoHelper,
         \A t \in Setup!Slots \ {"polled", a} : insHelpers'[t] = insHelpers[t]
  PROVE  NoneLater' /\ NoneEarlier' /\ AllApart' /\ ~On("polled")'
<1>1. "polled" \in Setup!Slots /\ a \in Setup!Slots /\ a # "polled"
  BY SlotsAre
<1>2. ~On("polled")'
  BY DEF On
<1> DEFINE F(s) == IF s = a THEN "polled" ELSE s
<1>3. \A s \in Setup!Slots :
        On(s)' => /\ F(s) \in Setup!Slots /\ On(F(s)) /\ insHelpers'[s] = insHelpers[F(s)]
                  /\ s # "polled"
  BY <1>1, <1>2 DEF On
<1>4. \A s, t \in Setup!Slots : s # t /\ s # "polled" /\ t # "polled" => F(s) # F(t)
  OBVIOUS
<1> HIDE DEF F
<1>5. NoneLater'
  BY <1>3 DEF OneHelper, NoneLater
<1>6. NoneEarlier'
  BY <1>3 DEF OneHelper, NoneEarlier, Current
<1>7. AllApart'
  BY <1>3, <1>4 DEF OneHelper, AllApart, Apart, Current
<1> QED BY <1>2, <1>5, <1>6, <1>7

LEMMA OrderKept == OrderInv /\ [Setup!Next]_(Setup!vars) => OrderInv'
<1> SUFFICES ASSUME OrderInv, [Setup!Next]_(Setup!vars) PROVE OrderInv'
  OBVIOUS
<1>i. SetupShape /\ WizardOrder /\ OneHelper /\ \A s \in Setup!Slots : Fitting(s) /\ Staged(s)
  BY DEF OrderInv
<1>0. SetupShape'
  BY <1>i, ShapeKept
<1>t. /\ insHelpers \in Table /\ insWizard.left \in SUBSET Setup!Jobs
      /\ insWizard.job \in Setup!Jobs /\ insWizard.added \in SUBSET Payload
      /\ {} \in SUBSET Payload
      /\ insRun \in 1 .. MaxRuns
  BY <1>i DEF SetupShape, Wizards
<1>w. /\ WizardPcs = {"copy", "next", "poll", "failed", "done"}
      /\ \A q \in WizardPcs, k \in Setup!Jobs, L \in SUBSET Setup!Jobs, A \in SUBSET Payload :
           WizardIs(q, k, L, A) =>
             insWizard'.pc = q /\ insWizard'.job = k /\ insWizard'.left = L
  BY <1>i, WizardTyped DEF WizardPcs
<1>q. ASSUME WizardOrder', OneHelper', \A s \in Setup!Slots : Fitting(s)' /\ Staged(s)'
      PROVE  OrderInv'
  BY <1>0, <1>q DEF OrderInv
<1>f. ASSUME UNCHANGED <<insHelpers, insStaging, insVerified, insBeside>>
      PROVE  \A s \in Setup!Slots : Fitting(s)' /\ Staged(s)'
  BY <1>i, <1>f DEF Fitting, Staged, On
<1>1. CASE \E s \in Setup!Slots : Setup!HelperStep(s) \/ Setup!HelperDies(s)
  <2>1. PICK s \in Setup!Slots : On(s) /\ OthersStay /\ HelperForms(s)
    BY <1>1, <1>i, HelperHasForm
  <2>2. WizardOrder'
    BY <1>i, <2>1 DEF OthersStay, WizardOrder
  <2>3. OneHelper'
    <3>1. \A t \in Setup!Slots : On(t)' => /\ On(t) /\ insHelpers'[t].job = insHelpers[t].job
                                          /\ insHelpers'[t].run = insHelpers[t].run
      BY <1>i, <2>1, HelperSlots DEF On
    <3>2. UNCHANGED <<insWizard, insRun, insBeside>>
      BY <2>1 DEF OthersStay
    <3>3. /\ NoneLater' /\ NoneEarlier' /\ AllApart'
          /\ \A t \in Setup!Slots : Current(t)' => Current(t)
      BY <1>i, <3>1, <3>2, SlotsKept
    <3>4. On("polled")' /\ insSummary' # insSummary => \E a \in Abandoned : Current(a)
      <4>1. CASE s = "polled"
        BY <1>i, <2>1, <4>1
           DEF On, SetupShape, Table, HelperForms, CleanForm, StageForm, VerifyForm,
               RemoveForm, MoveForm, EndForm, GoneForm, InPlaceForm
      <4>2. CASE s \in Abandoned
        <5>1. insSummary' # insSummary => insHelpers[s].run = insRun
          BY <2>1 DEF HelperForms, CleanForm, StageForm, VerifyForm, RemoveForm, MoveForm,
                      EndForm, GoneForm, InPlaceForm
        <5> QED BY <2>1, <4>2, <5>1 DEF Current
      <4> QED BY <2>1, <4>1, <4>2, SlotsAre
    <3>5. Polled'
      <4>1. SUFFICES ASSUME On("polled")' PROVE Polled'
        BY DEF Polled
      <4>2. /\ insWizard.pc = "poll" /\ insHelpers["polled"].job = insWizard.job
            /\ Current("polled") /\ (insSummary # "none" => insWizard.job = "finalize")
        BY <1>i, <3>1, <4>1, SlotsAre DEF OneHelper, Polled
      <4>3. insSummary' # insSummary => insWizard.job = "finalize"
        BY <1>i, <3>4, <4>1, <4>2 DEF OneHelper, GivenUp
      <4> QED BY <3>1, <3>2, <4>1, <4>2, <4>3, SlotsAre DEF Polled, Current
    <3>6. GivenUp'
      BY <1>i, <3>1, <3>2, <3>3, SlotsAre DEF OneHelper, GivenUp, Current
    <3> QED BY <3>3, <3>5, <3>6 DEF OneHelper
  <2>4. \A t \in Setup!Slots : Fitting(t)' /\ Staged(t)'
    BY <1>i, <2>1, HelperStaged, OtherStaged
  <2> QED BY <1>q, <2>2, <2>3, <2>4
<1>2. CASE Setup!CopiesFile \/ Setup!CopyEnds
  <2>1. PICK q \in {"copy", "next", "failed"}, A \in SUBSET Payload :
          WizardIs(q, insWizard.job, insWizard.left, A)
    BY <1>2, <1>i, <1>t, CopiesIs, CopyEndsIs
  <2>2. insWizard'.pc = q /\ insWizard'.left = insWizard.left /\ insWizard'.job = insWizard.job
    BY <1>w, <1>t, <2>1
  <2>3. /\ insWizard.pc = "copy"
        /\ UNCHANGED <<insHelpers, insStaging, insVerified, insBeside, insRun>>
    BY <1>2, <1>i, CopiesIs, CopyEndsIs
  <2>4. WizardOrder'
    BY <1>i, <2>2, <2>3 DEF WizardOrder
  <2>5. NoneLater' /\ NoneEarlier' /\ AllApart'
    BY <1>i, <2>3, SlotsKept DEF On
  <2>6. Polled'
    BY <1>i, <2>3 DEF OneHelper, Polled, On
  <2>7. GivenUp'
    BY <1>i, <2>2, <2>3 DEF OneHelper, GivenUp, Current, On
  <2>8. OneHelper'
    BY <2>5, <2>6, <2>7 DEF OneHelper
  <2> QED BY <1>q, <1>f, <2>3, <2>4, <2>8
<1>3. CASE Setup!RunStage
  <2> DEFINE N == Setup!NextJob
  <2>1. /\ insWizard.pc = "next" /\ insWizard.left # {} /\ ~On("polled")
        /\ N \in Setup!Jobs /\ N \in insWizard.left
        /\ insWizard.left \ {N} \subseteq After(N)
        /\ WizardIs("poll", N, insWizard.left \ {N}, insWizard.added)
        /\ insHelpers'["polled"] = NewHelper
        /\ \A t \in Setup!Slots \ {"polled"} : insHelpers'[t] = insHelpers[t]
        /\ insSummary' = "none"
        /\ UNCHANGED <<insStaging, insRun, insVerified, insBeside>>
    BY <1>3, <1>i, RunStageIs
  <2>2. insWizard.left \ {N} \in SUBSET Setup!Jobs
    BY <1>t
  <2>3. insWizard'.pc = "poll" /\ insWizard'.job = N /\ insWizard'.left = insWizard.left \ {N}
    BY <1>w, <1>t, <2>1, <2>2
  <2>4. /\ NewHelper # NoHelper /\ NewHelper.job = N /\ NewHelper.run = insRun
        /\ N = "finalize" => NewHelper.pc = "check"
        /\ N # "finalize" => NewHelper.pc \in {"inplace", "clean"}
        /\ NewHelper.pc = "inplace" => N = "payload"
    BY <1>i, <2>1, NewHelperIs
  <2> HIDE DEF N
  <2>5. WizardOrder'
    BY <1>i, <2>1, <2>3 DEF WizardOrder
  <2>6. OneHelper'
    <3>1. \A a \in Abandoned : insHelpers'[a] = insHelpers[a] /\ (Current(a)' <=> Current(a))
      BY <2>1, SlotsAre DEF Current, On
    <3>2. \A a \in Abandoned : Current(a) =>
            insHelpers[a].job = "mod" /\ insWizard.left = {"finalize"} /\ N = "finalize"
      BY <1>i, <2>1 DEF OneHelper, GivenUp
    <3>3. NoneLater'
      <4>1. \A s \in Setup!Slots : On(s)' => insHelpers'[s].run <= insRun
        BY <1>i, <1>t, <2>1, <2>4, SlotsAre DEF OneHelper, NoneLater, On
      <4> QED BY <2>1, <4>1 DEF NoneLater
    <3>4. NoneEarlier'
      BY <1>i, <2>1, <2>4, SlotsAre DEF OneHelper, NoneEarlier, On, Current
    <3>5. Polled'
      BY <2>1, <2>3, <2>4 DEF Polled, On, Current
    <3>6. GivenUp'
      BY <2>3, <3>1, <3>2 DEF GivenUp
    <3>7. AllApart'
      <4> SUFFICES ASSUME NEW s \in Setup!Slots, NEW t \in Setup!Slots, s # t
                   PROVE  Apart(s, t)'
        BY DEF AllApart
      <4>1. CASE s \in Abandoned /\ t \in Abandoned
        BY <1>i, <3>1, <4>1, SlotsAre DEF OneHelper, AllApart, Apart
      <4>2. CASE s = "polled" \/ t = "polled"
        BY <2>1, <2>4, <3>1, <3>2, <4>2, SlotsAre DEF Apart
      <4> QED BY <4>1, <4>2, SlotsAre
    <3> QED BY <3>3, <3>4, <3>5, <3>6, <3>7 DEF OneHelper
  <2>7. Fitting("polled")' /\ Staged("polled")'
    BY <2>1, <2>4 DEF Fitting, Staged
  <2>8. \A a \in Abandoned : Fitting(a)' /\ Staged(a)'
    BY <1>i, <2>1, SlotsAre DEF Fitting, Staged, On
  <2> QED BY <1>q, <2>5, <2>6, <2>7, <2>8, SlotsAre
<1>4. CASE Setup!StageEnds \/ Setup!GivesUp
  <2>1. /\ insWizard.pc = "poll" /\ Setup!LetsGo
        /\ UNCHANGED <<insStaging, insSummary, insRun, insVerified, insBeside>>
    BY <1>4, <1>i, StageOverIs
  <2>2. PICK q \in {"failed", "done", "next"} :
          /\ WizardIs(q, insWizard.job, insWizard.left, insWizard.added)
          /\ q = "done" => insWizard.left = {}
          /\ q = "next" => insWizard.left # {}
          /\ q = "failed" => insWizard.job \in {"payload", "game"}
          /\ Setup!GivesUp /\ insWizard.job \in {"payload", "game"} => q = "failed"
    BY <1>4, <1>i, StageOverIs
  <2>3. insWizard'.pc = q /\ insWizard'.left = insWizard.left /\ insWizard'.job = insWizard.job
    BY <1>w, <1>t, <2>2
  <2>4. WizardOrder'
    BY <1>i, <1>t, <2>1, <2>2, <2>3 DEF WizardOrder, After, Setup!Jobs
  <2>g. q = "next" /\ On("polled") => insWizard.job = "mod"
    <3>1. CASE Setup!GivesUp
      BY <1>i, <1>t, <2>1, <2>2, <3>1 DEF WizardOrder, After, Setup!Jobs
    <3>2. CASE Setup!StageEnds
      <4>1. insSummary # "none"
        BY <1>i, <3>2, StageOverIs
      <4> QED BY <1>i, <2>1, <2>2, <4>1 DEF OneHelper, Polled, WizardOrder, After
    <3> QED BY <1>4, <3>1, <3>2
  <2>n. \A a \in Abandoned : Current(a) => q # "next"
    BY <1>i, <2>1, <2>2 DEF OneHelper, GivenUp, WizardOrder, After
  <2>5. CASE ~On("polled") /\ insHelpers' = insHelpers
    <3>1. NoneLater' /\ NoneEarlier' /\ AllApart'
      BY <1>i, <2>1, <2>5, SlotsKept DEF On
    <3>2. Polled'
      BY <2>5 DEF Polled, On
    <3>3. GivenUp'
      BY <2>1, <2>2, <2>3, <2>n, <2>5 DEF GivenUp, Current, On
    <3>4. OneHelper'
      BY <3>1, <3>2, <3>3 DEF OneHelper
    <3> QED BY <1>q, <1>f, <2>1, <2>4, <2>5, <3>4
  <2>6. CASE \E a \in Abandoned :
               /\ On("polled") /\ ~On(a)
               /\ insHelpers'[a] = insHelpers["polled"] /\ insHelpers'["polled"] = NoHelper
               /\ \A t \in Setup!Slots \ {"polled", a} : insHelpers'[t] = insHelpers[t]
    <3>0. PICK a \in Abandoned :
               /\ On("polled") /\ ~On(a)
               /\ insHelpers'[a] = insHelpers["polled"] /\ insHelpers'["polled"] = NoHelper
               /\ \A t \in Setup!Slots \ {"polled", a} : insHelpers'[t] = insHelpers[t]
      BY <2>6
    <3>1. NoneLater' /\ NoneEarlier' /\ AllApart' /\ ~On("polled")'
      BY <1>i, <2>1, <3>0, SlotsMoved
    <3>2. Polled'
      BY <3>1 DEF Polled
    <3>3. GivenUp'
      <4> SUFFICES ASSUME NEW b \in Abandoned, Current(b)', q = "next"
                   PROVE  /\ insHelpers'[b].job = "mod"
                          /\ insWizard'.left \subseteq {"finalize"}
        BY <2>2, <2>3 DEF GivenUp
      <4>1. insWizard.job = "mod" /\ insHelpers["polled"].job = "mod"
        BY <1>i, <2>g, <3>0 DEF OneHelper, Polled
      <4>2. b = a
        BY <2>1, <2>n, <3>0, SlotsAre DEF Current, On
      <4>3. insWizard.left \subseteq {"finalize"}
        BY <1>i, <2>1, <4>1 DEF WizardOrder, After
      <4> QED BY <2>3, <3>0, <4>1, <4>2, <4>3
    <3>4. OneHelper'
      BY <3>1, <3>2, <3>3 DEF OneHelper
    <3>5. \A t \in Setup!Slots : Fitting(t)' /\ Staged(t)'
      <4>1. Fitting(a)' /\ Staged(a)'
        BY <1>i, <2>1, <3>0, SlotsAre DEF Fitting, Staged, On
      <4>2. Fitting("polled")' /\ Staged("polled")'
        BY <3>1 DEF Fitting, Staged
      <4>3. \A t \in Setup!Slots \ {"polled", a} : Fitting(t)' /\ Staged(t)'
        BY <1>i, <2>1, <3>0 DEF Fitting, Staged, On
      <4> QED BY <4>1, <4>2, <4>3
    <3> QED BY <1>q, <2>4, <3>4, <3>5
  <2> QED BY <1>i, <2>1, <2>5, <2>6, LetsGoIs
<1>5. CASE Setup!RunAgain
  <2>1. /\ insWizard.pc \in {"failed", "done"} /\ insRun' = insRun + 1
        /\ Setup!Starts(insWizard') /\ insSummary' = "none"
        /\ insBeside' = (\E s \in Setup!Slots : On(s))
        /\ \A s \in Setup!Slots : On(s) /\ insHelpers[s].pc \in {"remove", "move"}
                                => insHelpers[s].job \in insVerified'
        /\ UNCHANGED <<insStaging, insHelpers>>
    BY <1>5, RunAgainIs
  <2>2. ~On("polled")
    BY <1>i, <2>1 DEF OneHelper, Polled
  <2>3. WizardOrder'
    BY <2>1, StartsIs DEF WizardOrder
  <2>4. \A s \in Setup!Slots : On(s) => insHelpers[s].run \in Nat /\ insHelpers[s].run <= insRun
    BY <1>i, HelperTyped DEF OneHelper, NoneLater
  <2>5. \A s \in Setup!Slots : ~Current(s)'
    <3> SUFFICES ASSUME NEW s \in Setup!Slots, On(s), insHelpers[s].run = insRun'
                 PROVE  FALSE
      BY <2>1 DEF Current, On
    <3> QED BY <1>t, <2>1, <2>4
  <2>6. OneHelper'
    <3>1. NoneLater'
      BY <1>t, <2>1, <2>4 DEF NoneLater, On
    <3>2. NoneEarlier'
      BY <2>1 DEF NoneEarlier, On
    <3>3. Polled' /\ GivenUp' /\ AllApart'
      BY <2>1, <2>2, <2>5, SlotsAre DEF Polled, GivenUp, AllApart, Apart, On
    <3> QED BY <3>1, <3>2, <3>3 DEF OneHelper
  <2>7. \A s \in Setup!Slots : Fitting(s)' /\ Staged(s)'
    BY <1>i, <2>1 DEF Fitting, Staged, On
  <2> QED BY <1>q, <2>3, <2>6, <2>7
<1>6. CASE Setup!PowerFails
  <2>1. \A s \in Setup!Slots : ~On(s)'
    BY <1>6, <1>i, PowerFailsIs
  <2>2. insWizard'.pc = "failed"
    BY <1>6, <1>i, <1>w, <1>t, PowerFailsIs
  <2>3. WizardOrder'
    BY <2>2 DEF WizardOrder
  <2>4. OneHelper'
    BY <2>1, SlotsAre
       DEF OneHelper, NoneLater, NoneEarlier, Polled, GivenUp, AllApart, Apart, Current
  <2> QED BY <1>q, <2>1, <2>3, <2>4 DEF Fitting, Staged
<1>7. CASE UNCHANGED Setup!vars
  <2>1. UNCHANGED <<insHelpers, insWizard, insStaging, insSummary, insVerified, insBeside, insRun>>
    BY <1>7 DEF Setup!vars
  <2>2. WizardOrder'
    BY <1>i, <2>1 DEF WizardOrder
  <2>3. NoneLater' /\ NoneEarlier' /\ AllApart'
    BY <1>i, <2>1, SlotsKept DEF On
  <2>4. Polled' /\ GivenUp'
    BY <1>i, <2>1 DEF OneHelper, Polled, GivenUp, Current, On
  <2> QED BY <1>q, <1>f, <2>1, <2>2, <2>3, <2>4 DEF OneHelper
<1> QED BY <1>1, <1>2, <1>3, <1>4, <1>5, <1>6, <1>7 DEF Setup!Next, Setup!WizardStep

\* A helper's step changes files of the component it has verified; beside a helper of
\* an earlier run, of those that stage where it does.
LEMMA DiskStep ==
  ASSUME OrderInv, NEW s \in Setup!Slots, On(s), HelperForms(s),
         NEW f \in Setup!Files, insDisk'[f] # insDisk[f]
  PROVE  /\ insHelpers[s].job \in insVerified /\ insHelpers[s].job # "finalize"
         /\ \/ f \in Owned(insHelpers[s].job)
            \/ insBeside /\ f \in Setup!SharesStaging(insHelpers[s].job)
<1>i. Fitting(s) /\ Staged(s) /\ insDisk \in [Setup!Files -> Content]
  BY DEF OrderInv, SetupShape
<1>j. insHelpers[s].job \in Setup!Jobs
  BY HelperTyped DEF OrderInv
<1>1. CASE RemoveForm(s)
  <2>1. f \in Mod \cup OldMod
    BY <1>i, <1>1 DEF RemoveForm
  <2> QED BY <1>i, <1>1, <2>1, OwnedApart DEF RemoveForm, Fitting
<1>2. CASE MoveForm(s)
  <2>1. f \in insHelpers[s].todo
    BY <1>i, <1>2 DEF MoveForm
  <2>2. /\ insHelpers[s].job \in insVerified /\ insHelpers[s].job # "finalize"
        /\ f \in Setup!SharesStaging(insHelpers[s].job)
        /\ ~insBeside => f \in Setup!FilesOf(insHelpers[s].job)
    BY <1>i, <1>2, <2>1 DEF MoveForm, Fitting, Staged
  <2> QED BY <1>j, <2>2, OwnedApart
<1>3. CASE \/ CleanForm(s) \/ StageForm(s) \/ VerifyForm(s) \/ EndForm(s) \/ GoneForm(s)
           \/ InPlaceForm(s)
  BY <1>3 DEF CleanForm, StageForm, VerifyForm, EndForm, GoneForm, InPlaceForm
<1> QED BY <1>1, <1>2, <1>3 DEF HelperForms

\* What a step that touches a file of a component needs.
Touches(job, f) ==
  insDisk'[f] # insDisk[f] => \/ Setup!Checked(job)
                              \/ job = "payload" /\ insWizard.pc = "copy"

LEMMA UntouchedStep ==
  ASSUME OrderInv, [Setup!Next]_(Setup!vars),
         NEW job \in {"payload", "game", "mod"}, NEW f \in Owned(job)
  PROVE  Touches(job, f)
<1> SUFFICES ASSUME insDisk'[f] # insDisk[f]
             PROVE  Setup!Checked(job) \/ (job = "payload" /\ insWizard.pc = "copy")
  BY DEF Touches
<1>i. SetupShape
  BY DEF OrderInv
<1>j. job \in Setup!Jobs /\ f \in Setup!Files /\ (f \in Payload => job = "payload")
  BY OwnedApart DEF Setup!Jobs
<1>1. CASE \E s \in Setup!Slots : Setup!HelperStep(s) \/ Setup!HelperDies(s)
  <2>1. PICK s \in Setup!Slots : On(s) /\ HelperForms(s)
    BY <1>1, <1>i, HelperHasForm
  <2>2. /\ insHelpers[s].job \in insVerified /\ insHelpers[s].job # "finalize"
        /\ \/ f \in Owned(insHelpers[s].job)
           \/ insBeside /\ f \in Setup!SharesStaging(insHelpers[s].job)
    BY <1>j, <2>1, DiskStep
  <2>3. insHelpers[s].job \in Setup!Jobs
    BY <1>i, <2>1, HelperTyped
  <2>4. CASE f \in Owned(insHelpers[s].job)
    <3>1. insHelpers[s].job = job
      BY <1>j, <2>3, <2>4, OwnedApart
    <3> QED BY <2>2, <3>1 DEF Setup!Checked
  <2>5. CASE insBeside /\ f \in Setup!SharesStaging(insHelpers[s].job)
    <3>1. CASE insHelpers[s].job = "payload"
      <4>1. job = "payload"
        BY <1>j, <2>5, <3>1 DEF Setup!SharesStaging
      <4> QED BY <2>2, <3>1, <4>1 DEF Setup!Checked
    <3>2. CASE insHelpers[s].job # "payload"
      <4>1. f \notin Payload
        BY <2>5, <3>2 DEF Setup!SharesStaging
      <4>2. job # "payload"
        BY <4>1, OwnedApart
      <4>3. insHelpers[s].job \in {"game", "mod"}
        BY <2>2, <2>3, <3>2 DEF Setup!Jobs
      <4> QED BY <2>2, <2>5, <4>2, <4>3 DEF Setup!Checked
    <3> QED BY <3>1, <3>2
  <2> QED BY <2>2, <2>4, <2>5
<1>2. CASE Setup!CopiesFile \/ Setup!CopyEnds
  <2>1. insWizard.pc = "copy" /\ insWizard.added \subseteq Payload
        /\ insDisk \in [Setup!Files -> Content]
    BY <1>2, <1>i, CopiesIs, CopyEndsIs DEF SetupShape, Wizards
  <2>2. f \in Payload
    <3>1. CASE Setup!CopiesFile
      BY <1>i, <1>j, <2>1, <3>1, CopiesIs
    <3>2. CASE Setup!CopyEnds
      BY <1>i, <1>j, <2>1, <3>2, CopyEndsIs
    <3> QED BY <1>2, <3>1, <3>2
  <2> QED BY <1>j, <2>1, <2>2
<1>3. CASE \/ Setup!RunStage \/ Setup!StageEnds \/ Setup!GivesUp \/ Setup!RunAgain
           \/ Setup!PowerFails \/ UNCHANGED Setup!vars
  <2>1. insDisk' = insDisk
    BY <1>3, Zenon DEF Setup!RunStage, Setup!StageEnds, Setup!GivesUp, Setup!RunAgain,
                Setup!PowerFails, Setup!vars
  <2> QED BY <2>1
<1> QED BY <1>1, <1>2, <1>3 DEF Setup!Next, Setup!WizardStep

LEMMA OrderAlways == Setup!Spec => []OrderInv
BY OrderInit, OrderKept, PTL DEF Setup!Spec

LEMMA UntouchedSteps ==
  OrderInv /\ [Setup!Next]_(Setup!vars) =>
    [\A job \in {"payload", "game", "mod"} :
       \A f \in Setup!FilesOf(job) \cup (IF job = "mod" THEN OldMod ELSE {}) :
         insDisk'[f] # insDisk[f] => \/ Setup!Checked(job)
                                     \/ job = "payload" /\ insWizard.pc = "copy"]_(Setup!vars)
BY UntouchedStep DEF Owned, Touches

\* No file of a component is touched before the component passed its check, but for
\* the embedded build that Setup copies, whatever fails, dies, is given up, goes on
\* beside the next run or is started again, for any set of files and any number of
\* helpers given up on.
THEOREM UntouchedAlways == Setup!Spec => UntouchedUntilVerified
BY OrderAlways, UntouchedSteps, PTL
   DEF Setup!Spec, UntouchedUntilVerified, Setup!UntouchedUntilVerified


-----------------------------------------------------------------------------
(* A clean run repairs.  While nothing has failed no abandoned helper is   *)
(* left, a summary is the polled helper's, and every component that was    *)
(* verified is whole where the game reads it, or on its way: the files that*)
(* are not there yet are still to be moved.                                *)

Alone ==
  ~insFaulted =>
    /\ \A a \in Abandoned : ~On(a)
    /\ insWizard.pc # "failed" /\ ~insBeside
    /\ On("polled") =>
         /\ insSummary = "none"
         /\ insHelpers["polled"].job # "finalize" => insHelpers["polled"].ok = TRUE
    /\ insWizard.pc = "poll" /\ ~On("polled") =>
         /\ insSummary # "none"
         /\ insSummary = "failed" => insWizard.job = "finalize"

\* An embedded build is in place before its check looks at it.
Placed ==
  ~insFaulted =>
    /\ insWizard.embedded /\ insWizard.pc # "copy" => \A f \in Payload : insDisk[f] = "new"
    /\ On("polled") /\ insHelpers["polled"].pc = "inplace" => insWizard.embedded

Whole(j) ==
  /\ \A f \in Setup!FilesOf(j) : insDisk[f] = "new"
  /\ j = "mod" => \A f \in OldMod : insDisk[f] = "none"

Moving(j) ==
  On("polled") /\ insHelpers["polled"].job = j /\ insHelpers["polled"].pc \in {"remove", "move"}

WholeOrMoving ==
  ~insFaulted =>
    /\ \A j \in insVerified : ~Moving(j) => Whole(j)
    /\ On("polled") /\ insHelpers["polled"].pc = "remove" =>
         insHelpers["polled"].todo = Setup!FilesOf(insHelpers["polled"].job)
    /\ On("polled") /\ insHelpers["polled"].pc = "move" =>
         /\ \A f \in Setup!FilesOf(insHelpers["polled"].job) \ insHelpers["polled"].todo :
              insDisk[f] = "new"
         /\ insHelpers["polled"].job = "mod" => \A f \in OldMod : insDisk[f] = "none"

Starting ==
  On("polled") /\ insHelpers["polled"].pc \in {"inplace", "clean", "stage", "verify"}

Accounted ==
  ~insFaulted =>
    /\ \/ "payload" \in insWizard.left \/ "payload" \in insVerified
       \/ Starting /\ insHelpers["polled"].job = "payload"
    /\ insVerified \cap insWizard.left = {}
    /\ Starting => insHelpers["polled"].job \notin insVerified

Matches == Setup!BuildMatches /\ Setup!DataMatches

Recorded ==
  ~insFaulted /\ insWizard.job = "finalize" /\ insWizard.pc \in {"poll", "done"} =>
    \/ On("polled") /\ insHelpers["polled"].pc \in {"check", "write"}
    \/ insRecord = TRUE
    \/ ~Matches

CleanInv == Alone /\ Placed /\ WholeOrMoving /\ Accounted /\ Recorded

LEMMA CleanRepairs == OrderInv /\ CleanInv => CleanRunRepairs
<1> SUFFICES ASSUME OrderInv, CleanInv, insWizard.pc = "done", ~insFaulted
             PROVE  /\ \A f \in Payload : insDisk[f] = "new"
                    /\ "game" \in insVerified => \A f \in Game : insDisk[f] = "new"
                    /\ "mod" \in insVerified => /\ \A f \in Mod : insDisk[f] = "new"
                                                /\ \A f \in OldMod : insDisk[f] = "none"
                    /\ Matches => insRecord
  BY DEF CleanRunRepairs, Setup!CleanRunRepairs, Setup!BuildIsNew, Matches
<1>1. ~On("polled") /\ insWizard.left = {} /\ insWizard.job = "finalize"
  BY DEF OrderInv, OneHelper, Polled, WizardOrder
<1>2. \A j \in insVerified : Whole(j)
  BY <1>1 DEF CleanInv, WholeOrMoving, Moving
<1>3. "payload" \in insVerified
  BY <1>1 DEF CleanInv, Accounted, Starting
<1>4. Matches => insRecord = TRUE
  BY <1>1 DEF CleanInv, Recorded
<1> QED BY <1>2, <1>3, <1>4, OwnedApart DEF Whole

LEMMA CleanInit == Setup!Init => CleanInv
<1> SUFFICES ASSUME Setup!Init PROVE CleanInv
  OBVIOUS
<1>1. (\A s \in Setup!Slots : ~On(s)) /\ ~insBeside
  BY DEF Setup!Init, On
<1>2. /\ insWizard.pc \in {"copy", "next"} /\ "payload" \in insWizard.left /\ insVerified = {}
      /\ insWizard.pc = "next" => insWizard.embedded = FALSE
  BY StartsIs DEF Setup!Init
<1> QED BY <1>1, <1>2, SlotsAre
           DEF CleanInv, Alone, Placed, WholeOrMoving, Accounted, Recorded, Starting, Moving

\* The helper that a clean run polls, after each form of its step.
Now(q) ==
  /\ insHelpers'["polled"] # NoHelper /\ insHelpers'["polled"].pc = q
  /\ insHelpers'["polled"].job = insHelpers["polled"].job

LEMMA PolledBecomes ==
  ASSUME SetupShape, On("polled"), NEW q \in HelperPcs, NEW o \in BOOLEAN,
         NEW T \in SUBSET Setup!Files, Becomes("polled", q, o, T)
  PROVE  /\ Now(q) /\ insHelpers'["polled"].todo = T /\ insHelpers'["polled"].ok = o
BY SlotsAre, BecomesTyped DEF Now


\* The steps a polled helper takes when nothing fails.
SameOk == insHelpers'["polled"].ok = insHelpers["polled"].ok
QuietStep == UNCHANGED <<insDisk, insVerified, insSummary, insRecord>>

InPlace == /\ insHelpers["polled"].pc = "inplace" /\ Now("report")
           /\ insVerified' = insVerified \cup {insHelpers["polled"].job}
           /\ SameOk /\ UNCHANGED <<insDisk, insSummary, insRecord>>
Early == /\ \/ insHelpers["polled"].pc = "clean" /\ Now("stage")
            \/ insHelpers["polled"].pc = "stage" /\ (Now("stage") \/ Now("verify"))
         /\ SameOk /\ QuietStep
Verified == /\ insHelpers["polled"].pc = "verify"
            /\ \/ Now("remove") /\ insHelpers["polled"].job = "mod"
               \/ Now("move") /\ insHelpers["polled"].job # "mod"
            /\ insHelpers'["polled"].todo = Setup!FilesOf(insHelpers["polled"].job)
            /\ insVerified' = insVerified \cup {insHelpers["polled"].job}
            /\ SameOk /\ UNCHANGED <<insDisk, insSummary, insRecord>>
Removed == /\ insHelpers["polled"].pc = "remove" /\ Now("move")
           /\ insHelpers'["polled"].todo = insHelpers["polled"].todo
           /\ insDisk' = [f \in Setup!Files |-> IF f \in Mod \cup OldMod THEN "none"
                                               ELSE insDisk[f]]
           /\ SameOk /\ UNCHANGED <<insVerified, insSummary, insRecord>>
Moved == /\ insHelpers["polled"].pc = "move" /\ Now("move")
         /\ \E f \in insHelpers["polled"].todo :
              /\ insHelpers'["polled"].todo = insHelpers["polled"].todo \ {f}
              /\ insDisk' = [insDisk EXCEPT ![f] = "new"]
         /\ SameOk /\ UNCHANGED <<insVerified, insSummary, insRecord>>
Ended == /\ \/ insHelpers["polled"].pc = "move" /\ insHelpers["polled"].todo = {}
               /\ Now("cleanup")
            \/ insHelpers["polled"].pc = "cleanup" /\ Now("report")
         /\ SameOk /\ QuietStep
Finalized ==
  \/ insHelpers["polled"].pc = "check" /\ Now("write") /\ SameOk /\ QuietStep
  \/ insHelpers["polled"].pc = "check" /\ ~Matches /\ Now("report") /\ QuietStep
  \/ /\ insHelpers["polled"].pc = "write" /\ Now("report") /\ insRecord' = TRUE
     /\ SameOk /\ UNCHANGED <<insDisk, insVerified, insSummary>>
Reported ==
  /\ insHelpers["polled"].pc = "report" /\ insHelpers'["polled"] = NoHelper
  /\ insSummary' = IF insHelpers["polled"].ok THEN "ok" ELSE "failed"
  /\ UNCHANGED <<insDisk, insVerified, insRecord>>

LEMMA PolledSteps ==
  ASSUME OrderInv, On("polled"), HelperForms("polled"), ~insFaulted', ~insBeside
  PROVE  InPlace \/ Early \/ Verified \/ Removed \/ Moved \/ Ended \/ Finalized \/ Reported
<1>s. "polled" \in Setup!Slots
  BY SlotsAre
<1>i. SetupShape /\ Staged("polled") /\ Current("polled") /\ insHelpers \in Table
  BY <1>s DEF OrderInv, SetupShape, OneHelper, Polled
<1> DEFINE h == insHelpers["polled"]
<1>h. /\ h.job \in Setup!Jobs /\ h.todo \subseteq Setup!Files
      /\ {} \in SUBSET Setup!Files
      /\ \A T : T \subseteq h.todo => T \subseteq Setup!Files
      /\ insStaging \cap Setup!SharesStaging(h.job) \subseteq Setup!Files
      /\ h.ok \in BOOLEAN
  BY <1>s, <1>i, HelperTyped, OkIsBoolean DEF SetupShape
<1> DEFINE Fits(q, o, T) == /\ Now(q) /\ insHelpers'["polled"].todo = T
                            /\ insHelpers'["polled"].ok = o
<1>b. \A q \in HelperPcs, o \in BOOLEAN, T \in SUBSET Setup!Files :
        Becomes("polled", q, o, T) => Fits(q, o, T)
  BY <1>i, PolledBecomes
<1>p. /\ "inplace" \in HelperPcs /\ "clean" \in HelperPcs /\ "stage" \in HelperPcs /\ "verify" \in HelperPcs
      /\ "remove" \in HelperPcs /\ "move" \in HelperPcs /\ "cleanup" \in HelperPcs
      /\ "write" \in HelperPcs /\ "report" \in HelperPcs
  BY DEF HelperPcs
<1> HIDE DEF Fits, h
<1>1. CASE CleanForm("polled")
  <2>1. h.pc = "clean" /\ Fits("stage", h.ok, h.todo) /\ QuietStep
    BY <1>1, <1>h, <1>b, <1>p DEF CleanForm, QuietStep, h
  <2> QED BY <2>1 DEF Early, Fits, SameOk, h
<1>2. CASE StageForm("polled")
  <2>1. /\ h.pc = "stage" /\ QuietStep
        /\ UNCHANGED insHelpers \/ Fits("verify", h.ok, h.todo)
    BY <1>2, <1>h, <1>b, <1>p DEF StageForm, QuietStep, h
  <2> QED BY <2>1 DEF Early, Fits, SameOk, h, Now, On
<1>3. CASE VerifyForm("polled")
  <2> DEFINE T == insStaging \cap Setup!SharesStaging(h.job)
  <2>1. /\ h.pc = "verify" /\ UNCHANGED <<insDisk, insSummary, insRecord>>
        /\ Setup!FilesOf(h.job) \subseteq insStaging
        /\ insVerified' = insVerified \cup {h.job}
        /\ Becomes("polled", IF h.job = "mod" THEN "remove" ELSE "move", h.ok, T)
    BY <1>3 DEF VerifyForm, h
  <2>2. T = Setup!FilesOf(h.job)
    BY <1>i, <1>h, <2>1, OwnedApart DEF Staged, h
  <2>3. \/ h.job = "mod" /\ Fits("remove", h.ok, T)
        \/ h.job # "mod" /\ Fits("move", h.ok, T)
    BY <1>h, <1>b, <1>p, <2>1
  <2> QED BY <2>1, <2>2, <2>3 DEF Verified, Fits, SameOk, h
<1>4. CASE RemoveForm("polled")
  <2>1. h.pc = "remove" /\ Fits("move", h.ok, h.todo)
    BY <1>4, <1>h, <1>b, <1>p DEF RemoveForm, h
  <2> QED BY <1>4, <2>1 DEF RemoveForm, Removed, Fits, SameOk, h
<1>5. CASE MoveForm("polled")
  <2>1. PICK f \in h.todo : /\ insDisk' = [insDisk EXCEPT ![f] = "new"]
                            /\ Becomes("polled", "move", h.ok, h.todo \ {f})
    BY <1>5 DEF MoveForm, h
  <2>2. h.pc = "move" /\ Fits("move", h.ok, h.todo \ {f})
    BY <1>5, <1>h, <1>b, <1>p, <2>1 DEF MoveForm, h
  <2> QED BY <1>5, <2>1, <2>2 DEF MoveForm, Moved, Fits, SameOk, h
<1>6. CASE EndForm("polled")
  <2>1. \/ h.pc = "move" /\ h.todo = {} /\ Fits("cleanup", h.ok, h.todo) /\ QuietStep
        \/ h.pc = "cleanup" /\ Fits("report", h.ok, h.todo) /\ QuietStep
        \/ h.pc = "check" /\ Fits("write", h.ok, h.todo) /\ QuietStep
        \/ h.pc = "check" /\ ~Matches /\ Fits("report", FALSE, h.todo) /\ QuietStep
        \/ /\ h.pc = "write" /\ Fits("report", h.ok, h.todo) /\ insRecord' = TRUE
           /\ UNCHANGED <<insDisk, insVerified, insSummary>>
    BY <1>6, <1>h, <1>b, <1>p DEF EndForm, QuietStep, Matches, h
  <2> QED BY <2>1 DEF Ended, Finalized, Fits, SameOk, h
<1>7. CASE GoneForm("polled")
  <2>1. insHelpers'["polled"] = NoHelper
    BY <1>7, <1>i, <1>s DEF GoneForm, Table
  <2> QED BY <1>7, <1>i, <2>1 DEF GoneForm, Reported, Current
<1>8. CASE InPlaceForm("polled")
  <2>1. /\ h.pc = "inplace" /\ Fits("report", h.ok, h.todo)
        /\ insVerified' = insVerified \cup {h.job}
        /\ UNCHANGED <<insDisk, insSummary, insRecord>>
    BY <1>8, <1>h, <1>b, <1>p DEF InPlaceForm, h
  <2> QED BY <2>1 DEF InPlace, Fits, SameOk, h
<1> QED BY <1>1, <1>2, <1>3, <1>4, <1>5, <1>6, <1>7, <1>8 DEF HelperForms

\* The helper's steps, one conjunct of the invariant at a time.
LEMMA HelperKeepsClean ==
  ASSUME OrderInv, CleanInv, NEW s \in Setup!Slots, On(s), OthersStay, HelperForms(s),
         ~insFaulted, ~insFaulted'
  PROVE  CleanInv'
<1>1. s = "polled" /\ (\A a \in Abandoned : ~On(a)) /\ On("polled") /\ ~insBeside
  BY SlotsAre DEF CleanInv, Alone
<1>2. /\ \A a \in Abandoned : ~On(a)'
      /\ InPlace \/ Early \/ Verified \/ Removed \/ Moved \/ Ended \/ Finalized \/ Reported
  <2>1. \A a \in Abandoned : insHelpers'[a] = insHelpers[a]
    BY <1>1, SlotsAre, HelperSlots DEF OrderInv
  <2> QED BY <1>1, <2>1, PolledSteps DEF On
<1>3. /\ insWizard' = insWizard /\ insWizard.pc = "poll"
      /\ insHelpers["polled"].job = insWizard.job
      /\ insWizard.left \subseteq After(insWizard.job)
      /\ Staged("polled") /\ Fitting("polled")
      /\ insWizard.job \in Setup!Jobs /\ insBeside' = insBeside
  BY <1>1, SlotsAre DEF OthersStay, OrderInv, OneHelper, Polled, WizardOrder, SetupShape, Wizards
<1>j. insWizard.job \notin insWizard.left
  BY <1>3 DEF After, Setup!Jobs
<1> DEFINE h == insHelpers["polled"]
<1>k. PICK j \in Setup!Jobs : j = h.job
  BY <1>3
<1>4. Alone'
  <2>1. CASE InPlace \/ Early \/ Verified \/ Removed \/ Moved \/ Ended
    <3>1. On("polled")' /\ insHelpers'["polled"].job = h.job /\ SameOk
          /\ UNCHANGED insSummary
      BY <2>1 DEF InPlace, Early, Verified, Removed, Moved, Ended, Now, On, QuietStep
    <3> QED BY <1>1, <1>2, <1>3, <3>1 DEF CleanInv, Alone, SameOk
  <2>2. CASE Finalized
    <3>1. h.job = "finalize"
      BY <1>1, <1>3, <2>2 DEF Finalized, Fitting
    <3>2. On("polled")' /\ insHelpers'["polled"].job = h.job /\ UNCHANGED insSummary
      BY <2>2 DEF Finalized, Now, On, QuietStep
    <3> QED BY <1>1, <1>2, <1>3, <3>1, <3>2 DEF CleanInv, Alone
  <2>3. CASE Reported
    <3>1. h.job # "finalize" => h.ok = TRUE
      BY <1>1 DEF CleanInv, Alone
    <3>2. /\ insSummary' \in {"ok", "failed"}
          /\ insSummary' = "failed" => h.job = "finalize"
      BY <2>3, <3>1 DEF Reported
    <3> QED BY <1>1, <1>2, <1>3, <2>3, <3>2 DEF Alone, Reported, On
  <2> QED BY <1>2, <2>1, <2>2, <2>3
<1>5. Accounted'
  <2>1. CASE Early
    BY <1>1, <1>3, <2>1 DEF Early, Now, QuietStep, CleanInv, Accounted, Starting, On
  <2>2. CASE InPlace \/ Verified
    <3>1. ~Starting' /\ Starting /\ insVerified' = insVerified \cup {insWizard.job}
      BY <1>1, <1>3, <2>2 DEF InPlace, Verified, Now, Starting, On
    <3> QED BY <1>1, <1>3, <1>j, <3>1 DEF CleanInv, Accounted
  <2>3. CASE Removed \/ Moved \/ Ended \/ Finalized \/ Reported
    <3>1. ~Starting /\ ~Starting' /\ UNCHANGED insVerified
      BY <2>3 DEF Removed, Moved, Ended, Finalized, Reported, Now, Starting, On, QuietStep
    <3> QED BY <1>3, <3>1 DEF CleanInv, Accounted
  <2> QED BY <1>2, <2>1, <2>2, <2>3
<1>6. Recorded'
  <2>0. insWizard'.job = insWizard.job /\ insWizard'.pc = "poll"
    BY <1>3
  <2>1. CASE h.job # "finalize"
    BY <1>3, <2>0, <2>1 DEF Recorded
  <2>2. CASE h.job = "finalize"
    <3>1. Finalized \/ Reported
      BY <1>1, <1>2, <1>3, <2>2
         DEF InPlace, Early, Verified, Removed, Moved, Ended, Fitting
    <3>2. UNCHANGED insDisk
      BY <3>1 DEF Finalized, Reported, QuietStep
    <3>3. Matches' = Matches
      BY <3>2 DEF Matches, Setup!BuildMatches, Setup!DataMatches
    <3>4. \/ h.pc \in {"check", "write"} \/ insRecord = TRUE \/ ~Matches
      BY <1>3, <2>2 DEF CleanInv, Recorded
    <3>5. CASE Finalized
      BY <3>3, <3>5 DEF Finalized, Recorded, Now, On
    <3>6. CASE Reported
      BY <3>3, <3>4, <3>6 DEF Reported, Recorded
    <3> QED BY <3>1, <3>5, <3>6
  <2> QED BY <2>1, <2>2
<1>7. WholeOrMoving'
  <2>w. WholeOrMoving /\ insDisk \in [Setup!Files -> Content] /\ insVerified \subseteq Setup!Jobs
    BY DEF CleanInv, OrderInv, SetupShape
  <2>a. \A k \in Setup!Jobs \ {j} : \A f \in Owned(k) : insDisk'[f] = insDisk[f]
    <3> SUFFICES ASSUME NEW k \in Setup!Jobs \ {j}, NEW f \in Owned(k),
                        insDisk'[f] # insDisk[f]
                 PROVE  FALSE
      OBVIOUS
    <3>1. f \in Owned(j)
      BY <1>k, <1>1, DiskStep, OwnedApart
    <3> QED BY <1>k, <1>3, <3>1, OwnedApart
  <2>b. \A k \in Setup!Jobs \ {j} : Whole(k) => Whole(k)'
    BY <1>k, <2>a, OwnedApart DEF Whole
  <2>c. \A k \in insVerified \ {j} : Whole(k)'
    BY <1>k, <1>1, <2>b, <2>w DEF WholeOrMoving, Moving
  <2>1. CASE Early
    <3>1. insVerified' = insVerified /\ ~Moving(j)' /\ j \notin insVerified
          /\ ~(insHelpers'["polled"].pc \in {"remove", "move"})
      BY <1>k, <1>1, <2>1 DEF Early, Now, QuietStep, Moving, CleanInv, Accounted, Starting
    <3> QED BY <1>k, <2>c, <3>1 DEF WholeOrMoving
  <2>0. CASE InPlace
    <3>1. /\ insVerified' = insVerified \cup {j} /\ j = "payload" /\ insDisk' = insDisk
          /\ ~(insHelpers'["polled"].pc \in {"remove", "move"})
      BY <1>k, <1>1, <1>3, <2>0 DEF InPlace, Now, Fitting
    <3>2. \A f \in Payload : insDisk[f] = "new"
      BY <1>1, <1>3, <2>0 DEF InPlace, CleanInv, Placed
    <3>3. Whole(j)'
      BY <3>1, <3>2, OwnedApart DEF Whole
    <3> QED BY <1>k, <2>c, <3>1, <3>3 DEF WholeOrMoving
  <2>2. CASE Verified
    <3>1. insVerified' = insVerified \cup {j} /\ Moving(j)'
      BY <1>k, <2>2 DEF Verified, Moving, Now, On
    <3>2. insHelpers'["polled"].pc = "move" => j # "mod"
      BY <1>k, <2>2 DEF Verified, Now
    <3>3. insHelpers'["polled"].job = j /\ insHelpers'["polled"].todo = Setup!FilesOf(j)
      BY <1>k, <2>2 DEF Verified, Now
    <3> QED BY <1>k, <2>c, <3>1, <3>2, <3>3 DEF WholeOrMoving
  <2>3. CASE Removed
    <3>1. j = "mod" /\ h.todo = Setup!FilesOf(j)
      BY <1>k, <1>1, <1>3, <2>3, <2>w DEF Removed, Fitting, WholeOrMoving
    <3>2. \A f \in OldMod : insDisk'[f] = "none"
      BY <1>k, <2>3 DEF Removed, Setup!Files
    <3>3. /\ insVerified' = insVerified /\ Moving(j)'
          /\ insHelpers'["polled"].job = j /\ insHelpers'["polled"].todo = h.todo
          /\ insHelpers'["polled"].pc = "move"
      BY <1>k, <2>3 DEF Removed, Moving, Now, On
    <3> QED BY <1>k, <2>c, <3>1, <3>2, <3>3 DEF WholeOrMoving
  <2>4. CASE Moved
    <3>1. PICK f \in h.todo : /\ insHelpers'["polled"].todo = h.todo \ {f}
                              /\ insDisk' = [insDisk EXCEPT ![f] = "new"]
      BY <1>k, <2>4 DEF Moved
    <3>2. h.todo \subseteq Setup!FilesOf(j) /\ j \in Setup!Jobs
      BY <1>k, <1>1, <1>3, <2>4 DEF Moved, Staged
    <3>3. /\ \A g \in Setup!FilesOf(j) \ h.todo : insDisk[g] = "new"
          /\ j = "mod" => \A g \in OldMod : insDisk[g] = "none"
      BY <1>k, <1>1, <2>4, <2>w DEF Moved, WholeOrMoving
    <3>4. f \notin OldMod /\ f \in Setup!Files
          /\ Setup!FilesOf(j) \subseteq Setup!Files /\ OldMod \subseteq Setup!Files
      BY <1>k, <3>2, OwnedApart DEF Setup!Files
    <3>5. /\ \A g \in Setup!FilesOf(j) \ (h.todo \ {f}) : insDisk'[g] = "new"
          /\ j = "mod" => \A g \in OldMod : insDisk'[g] = "none"
      BY <1>k, <2>w, <3>1, <3>3, <3>4
    <3>6. /\ insVerified' = insVerified /\ Moving(j)'
          /\ insHelpers'["polled"].job = j /\ insHelpers'["polled"].pc = "move"
      BY <1>k, <2>4 DEF Moved, Moving, Now, On
    <3> QED BY <1>k, <2>c, <3>1, <3>5, <3>6 DEF WholeOrMoving
  <2>5. CASE Ended \/ Finalized \/ Reported
    <3>1. /\ UNCHANGED <<insDisk, insVerified>>
          /\ On("polled")' => insHelpers'["polled"].pc \notin {"remove", "move"}
      BY <1>k, <2>5 DEF Ended, Finalized, Reported, Now, On, QuietStep
    <3>2. j \in insVerified => Whole(j)
      <4>1. CASE h.pc = "move"
        <5>1. h.todo = {}
          BY <1>k, <2>5, <4>1 DEF Ended, Finalized, Reported
        <5> QED BY <1>k, <1>1, <2>w, <4>1, <5>1 DEF WholeOrMoving, Whole
      <4>2. CASE h.pc # "move"
        BY <1>k, <2>5, <2>w, <4>2 DEF Ended, Finalized, Reported, WholeOrMoving, Moving
      <4> QED BY <1>k, <4>1, <4>2
    <3>3. Whole(j) => Whole(j)'
      BY <1>k, <3>1 DEF Whole
    <3> QED BY <1>k, <2>c, <3>1, <3>2, <3>3 DEF WholeOrMoving
  <2> QED BY <1>k, <1>2, <2>0, <2>1, <2>2, <2>3, <2>4, <2>5
<1>8. Placed'
  <2>1. \A f \in Payload : insDisk[f] = "new" => insDisk'[f] = "new"
    <3>1. insDisk \in [Setup!Files -> Content] /\ Payload \subseteq Setup!Files
          /\ Payload \cap (Mod \cup OldMod) = {}
      BY ComponentsAssumption DEF OrderInv, SetupShape, Setup!Files
    <3>2. CASE Removed
      BY <3>1, <3>2 DEF Removed
    <3>3. CASE Moved
      BY <3>1, <3>3 DEF Moved
    <3>4. CASE InPlace \/ Early \/ Verified \/ Ended \/ Finalized \/ Reported
      <4>1. insDisk' = insDisk
        BY <3>4 DEF InPlace, Early, Verified, Ended, Finalized, Reported, QuietStep
      <4> QED BY <4>1
    <3> QED BY <1>2, <3>2, <3>3, <3>4
  <2>2. On("polled")' => insHelpers'["polled"].pc # "inplace"
    BY <1>2 DEF InPlace, Early, Verified, Removed, Moved, Ended, Finalized, Reported, Now, On
  <2> QED BY <1>3, <2>1, <2>2 DEF CleanInv, Placed
<1>9. insWizard.pc # "failed" /\ insWizard'.pc # "failed"
  BY <1>3
<1> QED BY <1>4, <1>5, <1>6, <1>7, <1>8 DEF CleanInv


\* The wizard's steps: a helper is started, a stage ends, another run begins.
LEMMA WizardKeepsClean ==
  ASSUME OrderInv, CleanInv, ~insFaulted',
         \/ Setup!CopiesFile \/ Setup!CopyEnds \/ Setup!RunStage \/ Setup!StageEnds
         \/ Setup!RunAgain
  PROVE  CleanInv'
<1>i. SetupShape /\ WizardOrder /\ OneHelper
  BY DEF OrderInv
<1>t. /\ insHelpers \in Table /\ insWizard.left \in SUBSET Setup!Jobs
      /\ insWizard.job \in Setup!Jobs /\ insWizard.added \in SUBSET Payload
      /\ {} \in SUBSET Payload /\ insVerified \subseteq Setup!Jobs
      /\ insSummary \in {"none", "ok", "failed"} /\ insDisk \in [Setup!Files -> Content]
  BY <1>i DEF SetupShape, Wizards
<1>w. /\ WizardPcs = {"copy", "next", "poll", "failed", "done"}
      /\ \A q \in WizardPcs, k \in Setup!Jobs, L \in SUBSET Setup!Jobs, A \in SUBSET Payload :
           WizardIs(q, k, L, A) =>
             /\ insWizard'.pc = q /\ insWizard'.job = k /\ insWizard'.left = L
             /\ insWizard'.embedded = insWizard.embedded
  BY <1>i, WizardTyped DEF WizardPcs
<1>1. CASE Setup!CopiesFile \/ Setup!CopyEnds
  <2>1. /\ insWizard.pc = "copy" /\ ~insFaulted
        /\ UNCHANGED <<insHelpers, insSummary, insRecord, insVerified, insBeside>>
    <3>1. CASE Setup!CopiesFile
      BY <1>i, <3>1, CopiesIs
    <3>2. CASE Setup!CopyEnds
      <4>1. insWizard.pc = "copy" /\ (~insFaulted' => ~insFaulted)
        BY <1>i, <3>2, CopyEndsIs, Zenon
      <4> QED BY <1>i, <3>2, <4>1, CopyEndsIs
    <3> QED BY <1>1, <3>1, <3>2
  <2>2. /\ insWizard'.pc \in {"copy", "next"} /\ insWizard'.left = insWizard.left
        /\ insWizard'.embedded = insWizard.embedded
    <3>1. CASE Setup!CopiesFile
      BY <1>i, <1>t, <1>w, <3>1, CopiesIs
    <3>2. CASE Setup!CopyEnds
      BY <1>i, <1>t, <1>w, <3>2, CopyEndsIs
    <3> QED BY <1>1, <3>1, <3>2
  <2>3. ~On("polled")
    BY <1>i, <2>1 DEF OneHelper, Polled
  <2>4. /\ \A f \in Setup!Files : insDisk'[f] = insDisk[f] \/ (f \in Payload /\ insDisk'[f] = "new")
        /\ insWizard'.pc = "next" => \A f \in Payload : insDisk'[f] = "new"
    <3>1. CASE Setup!CopiesFile
      <4>1. PICK f \in Payload : insDisk' = [insDisk EXCEPT ![f] = "new"]
        BY <1>i, <3>1, CopiesIs
      <4>2. insWizard'.pc = "copy"
        BY <1>i, <1>t, <1>w, <3>1, CopiesIs
      <4> QED BY <1>t, <4>1, <4>2
    <3>2. CASE Setup!CopyEnds
      <4>1. insDisk' = insDisk /\ Setup!BuildIsNew
        BY <1>i, <3>2, CopyEndsIs
      <4> QED BY <4>1 DEF Setup!BuildIsNew
    <3> QED BY <1>1, <3>1, <3>2
  <2>5. Alone'
    BY <2>1, <2>2, <2>3 DEF CleanInv, Alone, On
  <2>6. Placed'
    BY <2>1, <2>2, <2>3, <2>4 DEF Placed, On
  <2>7. WholeOrMoving'
    <3>1. \A j \in insVerified : Whole(j)
      BY <2>1, <2>3 DEF CleanInv, WholeOrMoving, Moving
    <3>2. \A j \in Setup!Jobs : Whole(j) => Whole(j)'
      <4>1. Payload \cap OldMod = {} /\ OldMod \subseteq Setup!Files
        BY ComponentsAssumption DEF Setup!Files
      <4>2. \A j \in Setup!Jobs : Setup!FilesOf(j) \subseteq Setup!Files
        BY OwnedApart
      <4> QED BY <2>4, <4>1, <4>2 DEF Whole
    <3>3. \A j \in insVerified : Whole(j)'
      BY <1>t, <3>1, <3>2
    <3> QED BY <2>1, <2>3, <3>3 DEF WholeOrMoving, On
  <2>8. Accounted'
    BY <2>1, <2>2, <2>3 DEF CleanInv, Accounted, Starting, On
  <2>9. Recorded'
    BY <2>2 DEF Recorded
  <2> QED BY <2>5, <2>6, <2>7, <2>8, <2>9 DEF CleanInv
<1>2. CASE Setup!RunStage
  <2> DEFINE N == Setup!NextJob
  <2>1. /\ insWizard.pc = "next" /\ ~On("polled")
        /\ N \in Setup!Jobs /\ N \in insWizard.left
        /\ WizardIs("poll", N, insWizard.left \ {N}, insWizard.added)
        /\ insHelpers'["polled"] = NewHelper
        /\ \A t \in Setup!Slots \ {"polled"} : insHelpers'[t] = insHelpers[t]
        /\ insSummary' = "none"
        /\ UNCHANGED <<insDisk, insVerified, insRecord, insBeside, insFaulted>>
    BY <1>2, <1>i, RunStageIs
  <2>2. insWizard.left \ {N} \in SUBSET Setup!Jobs
    BY <1>t
  <2>w. /\ insWizard'.pc = "poll" /\ insWizard'.job = N /\ insWizard'.left = insWizard.left \ {N}
        /\ insWizard'.embedded = insWizard.embedded
    BY <1>w, <1>t, <2>1, <2>2
  <2>4. /\ NewHelper # NoHelper /\ NewHelper.job = N /\ NewHelper.ok = TRUE
        /\ N = "finalize" => NewHelper.pc = "check"
        /\ N # "finalize" => NewHelper.pc \in {"inplace", "clean"}
        /\ NewHelper.pc = "inplace" => insWizard.embedded
    BY <1>i, <2>1, NewHelperIs
  <2> HIDE DEF N
  <2>f. ~insFaulted
    BY <2>1
  <2>7. Alone'
    <3>1. \A a \in Abandoned : ~On(a)'
      BY <2>f, <2>1, SlotsAre DEF CleanInv, Alone, On
    <3> QED BY <2>f, <2>w, <2>1, <2>4, <3>1 DEF CleanInv, Alone, On
  <2>p. Placed'
    BY <2>f, <2>w, <2>1, <2>4 DEF CleanInv, Placed, On
  <2>8. WholeOrMoving'
    <3>1. \A j \in insVerified : Whole(j)
      BY <2>f, <2>1 DEF CleanInv, WholeOrMoving, Moving
    <3>2. \A j \in insVerified : Whole(j)'
      BY <3>1, <2>1 DEF Whole
    <3>3. NewHelper.pc \notin {"remove", "move"}
      BY <2>4
    <3> QED BY <2>1, <3>2, <3>3 DEF WholeOrMoving
  <2>9. Accounted'
    <3>1. /\ "payload" \in insWizard.left \/ "payload" \in insVerified
          /\ insVerified \cap insWizard.left = {}
      BY <2>f, <2>1 DEF CleanInv, Accounted, Starting
    <3>2. "payload" = N => Starting' /\ insHelpers'["polled"].job = "payload"
      BY <2>1, <2>4 DEF Starting, On
    <3>3. Starting' => insHelpers'["polled"].job \notin insVerified
      BY <2>1, <2>4, <3>1
    <3> QED BY <2>1, <2>w, <3>1, <3>2, <3>3 DEF Accounted
  <2>10. Recorded'
    BY <2>w, <2>1, <2>4 DEF Recorded, On
  <2> QED BY <2>7, <2>p, <2>8, <2>9, <2>10 DEF CleanInv
<1>3. CASE Setup!StageEnds
  <2>f. ~insFaulted /\ UNCHANGED insFaulted
    BY <1>3, <1>i, StageOverIs
  <2>1. /\ insWizard.pc = "poll" /\ insSummary # "none" /\ ~On("polled")
        /\ \A a \in Abandoned : ~On(a)
    BY <1>3, <1>i, <2>f, StageOverIs DEF CleanInv, Alone
  <2>2. UNCHANGED <<insHelpers, insDisk, insSummary, insRecord, insVerified, insBeside>>
    BY <1>3, <1>i, <2>1, StageOverIs, LetsGoIs
  <2>q. PICK q \in {"failed", "done", "next"} :
          /\ WizardIs(q, insWizard.job, insWizard.left, insWizard.added)
          /\ q = "failed" => insSummary # "ok" /\ insWizard.job \in {"payload", "game"}
    BY <1>3, <1>i, StageOverIs
  <2>3. /\ insWizard'.job = insWizard.job /\ insWizard'.left = insWizard.left
        /\ insWizard'.pc = q /\ insWizard'.embedded = insWizard.embedded
    BY <1>t, <1>w, <2>q
  <2>4. q # "failed"
    BY <1>t, <2>1, <2>f, <2>q DEF CleanInv, Alone
  <2>5. Alone'
    BY <2>f, <2>1, <2>2, <2>3, <2>4 DEF CleanInv, Alone, On
  <2>p. Placed'
    BY <2>f, <2>1, <2>2, <2>3, <2>4 DEF CleanInv, Placed, On
  <2>6. WholeOrMoving'
    BY <2>f, <2>1, <2>2 DEF CleanInv, WholeOrMoving, Whole, Moving, On
  <2>7. Accounted'
    BY <2>f, <2>1, <2>2, <2>3 DEF CleanInv, Accounted, Starting, On
  <2>8. Recorded'
    BY <2>f, <2>1, <2>2, <2>3, <2>4
       DEF CleanInv, Recorded, On, Matches, Setup!BuildMatches, Setup!DataMatches
  <2> QED BY <2>5, <2>p, <2>6, <2>7, <2>8 DEF CleanInv
<1>4. CASE Setup!RunAgain
  <2>1. /\ \A s \in Setup!Slots : ~On(s)
        /\ UNCHANGED insHelpers /\ ~insBeside' /\ insVerified' = {}
        /\ Setup!Starts(insWizard')
    BY <1>4, RunAgainIs
  <2>2. \A s \in Setup!Slots : ~On(s)'
    BY <2>1 DEF On
  <2>3. /\ insWizard'.pc \in {"copy", "next"} /\ "payload" \in insWizard'.left
        /\ insWizard'.pc = "next" => insWizard'.embedded = FALSE
    BY <2>1, StartsIs
  <2> QED BY <2>1, <2>2, <2>3, SlotsAre
             DEF CleanInv, Alone, Placed, WholeOrMoving, Accounted, Recorded, Starting, Moving
<1> QED BY <1>1, <1>2, <1>3, <1>4

\* What fails is remembered until the next run begins.
LEMMA FaultsStay ==
  ASSUME [Setup!Next]_(Setup!vars), ~insFaulted', ~Setup!RunAgain
  PROVE  ~insFaulted /\ ~Setup!GivesUp /\ ~Setup!PowerFails
<1>1. ~Setup!GivesUp /\ ~Setup!PowerFails
  BY DEF Setup!GivesUp, Setup!PowerFails, Setup!Faults
<1>2. CASE \E s \in Setup!Slots : Setup!HelperStep(s) \/ Setup!HelperDies(s)
  <2>1. PICK s \in Setup!Slots : Setup!HelperStep(s) \/ Setup!HelperDies(s)
    BY <1>2
  <2>2. UNCHANGED insFaulted
    BY <2>1 DEF Setup!HelperStep, Setup!HelperDies, Setup!VerifiesInPlace,
                Setup!CleansStaging, Setup!Stages,
                Setup!Verifies, Setup!RemovesOld, Setup!Moves, Setup!MoveEnds,
                Setup!CleansUp, Setup!Checks, Setup!WritesRecord, Setup!Reports,
                Setup!Fails, Setup!Faults
  <2> QED BY <1>1, <2>2
<1>3. CASE \/ Setup!CopiesFile \/ Setup!RunStage \/ Setup!StageEnds \/ UNCHANGED Setup!vars
  <2>1. UNCHANGED insFaulted
    BY <1>3 DEF Setup!CopiesFile, Setup!RunStage, Setup!StageEnds, Setup!vars
  <2> QED BY <1>1, <2>1
<1>4. CASE Setup!CopyEnds
  <2>1. insFaulted' = (insFaulted \/ ~Setup!BuildIsNew) \/ insFaulted' = TRUE
    BY <1>4, Zenon DEF Setup!CopyEnds
  <2> QED BY <1>1, <2>1, Zenon
<1> QED BY <1>1, <1>2, <1>3, <1>4 DEF Setup!Next, Setup!WizardStep

LEMMA CleanKept == OrderInv /\ CleanInv /\ [Setup!Next]_(Setup!vars) => CleanInv'
<1> SUFFICES ASSUME OrderInv, CleanInv, [Setup!Next]_(Setup!vars) PROVE CleanInv'
  OBVIOUS
<1>1. CASE insFaulted'
  BY <1>1 DEF CleanInv, Alone, Placed, WholeOrMoving, Accounted, Recorded
<1>2. CASE ~insFaulted' /\ Setup!RunAgain
  BY <1>2, WizardKeepsClean
<1>3. CASE ~insFaulted' /\ ~Setup!RunAgain
  <2>1. ~insFaulted /\ ~Setup!GivesUp /\ ~Setup!PowerFails
    BY <1>3, FaultsStay
  <2>2. CASE \E s \in Setup!Slots : Setup!HelperStep(s) \/ Setup!HelperDies(s)
    BY <1>3, <2>1, <2>2, HelperHasForm, HelperKeepsClean DEF OrderInv
  <2>3. CASE Setup!CopiesFile \/ Setup!CopyEnds \/ Setup!RunStage \/ Setup!StageEnds
    BY <1>3, <2>3, WizardKeepsClean
  <2>4. CASE UNCHANGED Setup!vars
    BY <2>4 DEF Setup!vars, CleanInv, Alone, Placed, WholeOrMoving, Accounted, Recorded, Starting,
                Moving, Whole, On, Matches, Setup!BuildMatches, Setup!DataMatches
  <2> QED BY <1>3, <2>1, <2>2, <2>3, <2>4 DEF Setup!Next, Setup!WizardStep
<1> QED BY <1>1, <1>2, <1>3

LEMMA CleanAlways == Setup!Spec => [](OrderInv /\ CleanInv)
BY CleanInit, CleanKept, OrderInit, OrderKept, PTL DEF Setup!Spec

\* A run in which nothing fails ends with every component it installed whole and
\* recorded, whatever an earlier run left behind, embedded or staged as its build
\* is, for any set of files.
THEOREM CleanRunRepairsAlways == Setup!Spec => []CleanRunRepairs
BY CleanRepairs, CleanAlways, PTL


-----------------------------------------------------------------------------
(* The type invariants, whose flags are left, and the bundle.              *)

SaveFlags ==
  savReady \in BOOLEAN /\ savDirty \in BOOLEAN /\ savWritable \in BOOLEAN
    /\ savWaits \in BOOLEAN /\ savHolds \in BOOLEAN
SetupFlags == insRecord \in BOOLEAN /\ insBeside \in BOOLEAN /\ insFaulted \in BOOLEAN

LEMMA SaveFlagsKept == SaveFlags /\ [Progress!Next]_(Progress!vars) => SaveFlags'
<1> SUFFICES ASSUME SaveFlags, [Progress!Next]_(Progress!vars) PROVE SaveFlags'
  OBVIOUS
<1> USE DEF SaveFlags, Progress!saveVars
<1>1. CASE Progress!Initializes
  BY <1>1, Zenon DEF Progress!Initializes, Progress!Restore
<1>2. CASE Progress!TearsDown
  BY <1>2, Zenon DEF Progress!TearsDown, Progress!Restore
<1>3. CASE Progress!Mutates \/ Progress!NothingToSave \/ Progress!Saves
  BY <1>3, Zenon DEF Progress!Mutates, Progress!NothingToSave, Progress!Saves
<1>4. CASE Progress!CannotSave \/ Progress!RetryTimeComes \/ Progress!Restarts
  BY <1>4, Zenon DEF Progress!CannotSave, Progress!RetryTimeComes, Progress!Restarts
<1>5. CASE UNCHANGED Progress!vars
  BY <1>5, Zenon DEF Progress!vars
<1> QED BY <1>1, <1>2, <1>3, <1>4, <1>5 DEF Progress!Next

LEMMA SetupFlagsKept == SetupFlags /\ SetupShape /\ [Setup!Next]_(Setup!vars) => SetupFlags'
<1> SUFFICES ASSUME SetupFlags, SetupShape, [Setup!Next]_(Setup!vars) PROVE SetupFlags'
  OBVIOUS
<1> USE DEF SetupFlags
<1>1. CASE \E s \in Setup!Slots : Setup!HelperStep(s) \/ Setup!HelperDies(s)
  <2>1. PICK s \in Setup!Slots : HelperForms(s) /\ UNCHANGED insBeside
    BY <1>1, HelperHasForm DEF OthersStay
  <2>2. CASE CleanForm(s) \/ StageForm(s) \/ VerifyForm(s)
    BY <2>1, <2>2, Zenon DEF CleanForm, StageForm, VerifyForm
  <2>3. CASE RemoveForm(s) \/ MoveForm(s)
    BY <2>1, <2>3, Zenon DEF RemoveForm, MoveForm
  <2>4. CASE EndForm(s) \/ GoneForm(s) \/ InPlaceForm(s)
    BY <2>1, <2>4, Zenon DEF EndForm, GoneForm, InPlaceForm
  <2> QED BY <2>1, <2>2, <2>3, <2>4 DEF HelperForms
<1>2. CASE Setup!RunStage \/ Setup!StageEnds \/ Setup!GivesUp
  BY <1>2, Zenon DEF Setup!RunStage, Setup!StageEnds, Setup!GivesUp, Setup!historyVars
<1>3. CASE Setup!RunAgain \/ Setup!PowerFails \/ UNCHANGED Setup!vars
  BY <1>3, Zenon DEF Setup!RunAgain, Setup!PowerFails, Setup!Faults, Setup!vars,
                     Setup!historyVars
<1>4. CASE Setup!CopiesFile \/ Setup!CopyEnds
  BY <1>4, Zenon DEF Setup!CopiesFile, Setup!CopyEnds, Setup!historyVars
<1> QED BY <1>1, <1>2, <1>3, <1>4 DEF Setup!Next, Setup!WizardStep

LEMMA FlagsInit == (Progress!Init => SaveFlags) /\ (Setup!Init => SetupFlags)
BY Zenon DEF Progress!Init, Setup!Init, SaveFlags, SetupFlags

FilesInv ==
  /\ IInv
  /\ SaveInv /\ SaveFlags
  /\ OrderInv /\ CleanInv /\ SetupFlags

LEMMA FilesInvImplies == FilesInv => FilesTypeOK /\ RequestedIsDurable /\ CleanRunRepairs
<1> SUFFICES ASSUME FilesInv
             PROVE  FilesTypeOK /\ RequestedIsDurable /\ CleanRunRepairs
  OBVIOUS
<1>1. TypeOK /\ RequestedIsDurable
  BY DurableIs DEF FilesInv, IInv
<1>2. Progress!SaveTypeOK
  BY DEF FilesInv, SaveInv, CheckpointOK, SaveFlags, Progress!SaveTypeOK
<1>3. Setup!InstallerTypeOK
  BY DEF FilesInv, OrderInv, SetupShape, SetupFlags, Setup!InstallerTypeOK, Table, Content,
         Wizards, WizardPcs
<1>4. CleanRunRepairs
  BY CleanRepairs DEF FilesInv
<1> QED BY <1>1, <1>2, <1>3, <1>4 DEF FilesTypeOK

\* In every behaviour of the bundle, whichever part it runs, the types hold, what
\* the settings' service reports as requested is in the files, or the defaults when
\* its file cannot be used, the installer touches nothing unverified but the build it
\* embeds, and a clean run repairs.
THEOREM FilesAreSafe ==
  DurableFiles => /\ [](FilesTypeOK /\ RequestedIsDurable /\ CleanRunRepairs)
                  /\ UntouchedUntilVerified
<1>1. Chosen => FilesInv
  BY InitInv, SaveInit, FlagsInit, OrderInit, CleanInit DEF Chosen, FilesInv
<1>2. FilesInv /\ [AnyStep]_allVars => FilesInv'
  BY PartsStep, InvStep, SaveKeeps, SaveFlagsKept, OrderKept, CleanKept, SetupFlagsKept
     DEF FilesInv, OrderInv
<1>3. FilesInv /\ [AnyStep]_allVars =>
        [\A job \in {"payload", "game", "mod"} :
           \A f \in Setup!FilesOf(job) \cup (IF job = "mod" THEN OldMod ELSE {}) :
             insDisk'[f] # insDisk[f] => \/ Setup!Checked(job)
                                         \/ job = "payload" /\ insWizard.pc = "copy"]_(Setup!vars)
  BY PartsStep, UntouchedSteps DEF FilesInv
<1> QED BY <1>1, <1>2, <1>3, FilesInvImplies, PTL
           DEF DurableFiles, UntouchedUntilVerified, Setup!UntouchedUntilVerified

=============================================================================
