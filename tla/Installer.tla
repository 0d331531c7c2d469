------------------------------- MODULE Installer -------------------------------
(***************************************************************************)
(* The installer: the wizard (src/installer/setup.iss, CurStepChanged),    *)
(* which runs one stage after the other, and the helper process each stage *)
(* starts (installer/src/commands.cpp, install.cpp), which stages a        *)
(* component, verifies it there and moves it into place.                   *)
(*                                                                         *)
(* A run's build is either embedded, as in the released installer, whose   *)
(* [Files] section copies it over the installed one before the stages and  *)
(* whose first stage checks it where it is, or staged, as the updater and  *)
(* an installer that downloads its build do.                               *)
(*                                                                         *)
(* The wizard does not hold the helper: it polls a summary file, and gives *)
(* up after ten quiet minutes or an hour.  A helper it gave up on goes on  *)
(* beside the next stage's, and both write the one summary file; it goes on*)
(* beside the next run as well, whose summary is another file.  Any file   *)
(* operation may fail, and the machine may go down between any two.        *)
(*                                                                         *)
(* Abstracted: what a file holds is the version it belongs to; where a     *)
(* source comes from (a download, an archive, a folder, an STFS package);  *)
(* the probes of the wizard's pages and the two configured folders.  A run *)
(* begins when the wizard of the one before is over: two wizards side by   *)
(* side are not followed.  Two helpers that share a staging folder mix     *)
(* their files there; a file caught while the other writes it is not       *)
(* followed, since the properties say little of such a run.                *)
(***************************************************************************)
EXTENDS Naturals

CONSTANTS
  Payload,   \* files of the recompiled build
  Game,      \* files of the game data
  Mod,       \* files of the Ultimate mod
  OldMod,    \* files only an older release of the mod had
  NoHelper,
  Abandoned, \* bound: the helpers, given up on, that go on at a time
  MaxRuns    \* bound: runs of the installer

VARIABLES
  disk,      \* each file's version where the game reads it
  staging,   \* files below a .staging folder
  helpers,   \* the helper the wizard polls, and those it gave up on
  wizard,    \* the wizard: what it does, the stages it has left, whether the
             \* build is embedded in it, and the files its copy added
  summary,   \* the helper summary file of this run: none, ok, failed
  record,    \* install-manifest.toml: written by this run
  run,       \* the run, counted from 1
  verified,  \* history: the jobs whose check passed since this run began, or
             \* was passed by a helper of an earlier run that still moves files
  beside,    \* history: a helper of an earlier run went on into this one
  faulted    \* history: something failed, or a helper was abandoned

vars == <<disk, staging, helpers, wizard, summary, record, run, verified, beside, faulted>>

historyVars == <<verified, beside>>

Files == Payload \cup Game \cup Mod \cup OldMod
Jobs  == {"payload", "game", "mod", "finalize"}
Slots == {"polled"} \cup Abandoned
FilesOf(job) == CASE job = "payload" -> Payload [] job = "game" -> Game
                  [] job = "mod" -> Mod [] OTHER -> {}

\* The game's and the mod's staging folder is one: game\.staging.
SharesStaging(job) == IF job = "payload" THEN Payload ELSE Files \ Payload

Helpers == [job : Jobs, ok : BOOLEAN, todo : SUBSET Files, run : 1 .. MaxRuns,
            pc : {"inplace", "clean", "stage", "verify", "remove", "move", "check",
                  "write", "cleanup", "report"}]

InstallerTypeOK ==
  /\ disk \in [Files -> {"none", "old", "new", "torn"}]
  /\ staging \subseteq Files \ OldMod
  /\ helpers \in [Slots -> Helpers \cup {NoHelper}]
  /\ wizard \in [pc : {"copy", "next", "poll", "failed", "done"}, job : Jobs,
                 left : SUBSET Jobs, embedded : BOOLEAN, added : SUBSET Payload]
  /\ summary \in {"none", "ok", "failed"}
  /\ {record, beside, faulted} \subseteq BOOLEAN
  /\ run \in 1 .. MaxRuns
  /\ verified \subseteq Jobs

\* The stages of a run: the build, then the game and the mod when asked for.
Plans == {jobs \in SUBSET Jobs : {"payload", "finalize"} \subseteq jobs}

\* A wizard that starts: one with the build in it copies that first.
Starts(w) ==
  \E p \in Plans, e \in BOOLEAN :
    w = [pc |-> IF e THEN "copy" ELSE "next", job |-> "payload", left |-> p,
         embedded |-> e, added |-> {}]

\* A first install, or one over an earlier release with or without the mod.
Init ==
  /\ disk \in {[f \in Files |-> "none"],
               [f \in Files |-> "old"],
               [f \in Files |-> IF f \in Payload \cup Game THEN "old" ELSE "none"]}
  /\ staging = {}
  /\ helpers = [s \in Slots |-> NoHelper]
  /\ Starts(wizard)
  /\ summary = "none" /\ record = FALSE
  /\ run = 1
  /\ verified = {} /\ beside = FALSE /\ faulted = FALSE

-----------------------------------------------------------------------------
(* The wizard                                                              *)

Order == [payload |-> 1, game |-> 2, mod |-> 3, finalize |-> 4]
NextJob == CHOOSE j \in wizard.left : \A k \in wizard.left : Order[j] <= Order[k]

\* [Files]: Setup copies the embedded build into the install folder, a file at a
\* time and each of them whole.  The user may have one skipped that cannot be
\* written, or Setup gives up and takes back the files it added.
CopiesFile ==
  /\ wizard.pc = "copy"
  /\ \E f \in Payload :
       /\ disk[f] # "new" /\ disk' = [disk EXCEPT ![f] = "new"]
       /\ wizard' = [wizard EXCEPT !.added = IF disk[f] = "none" THEN @ \cup {f} ELSE @]
  /\ UNCHANGED <<staging, helpers, summary, record, run, historyVars, faulted>>

BuildIsNew == \A f \in Payload : disk[f] = "new"

CopyEnds ==
  /\ wizard.pc = "copy"
  /\ \/ /\ wizard' = [wizard EXCEPT !.pc = "next", !.added = {}]
        /\ faulted' = (faulted \/ ~BuildIsNew)
        /\ UNCHANGED disk
     \/ /\ wizard' = [wizard EXCEPT !.pc = "failed", !.added = {}]
        /\ disk' = [f \in Files |-> IF f \in wizard.added THEN "none" ELSE disk[f]]
        /\ faulted' = TRUE
  /\ UNCHANGED <<staging, helpers, summary, record, run, historyVars>>

\* What a stage's helper does first: an embedded build is checked where it is.
FirstStep(job) == CASE job = "finalize" -> "check"
                    [] job = "payload" /\ wizard.embedded -> "inplace"
                    [] OTHER -> "clean"

\* RunStage: the summary is deleted and the helper started.
RunStage ==
  /\ wizard.pc = "next" /\ wizard.left # {}
  /\ helpers["polled"] = NoHelper
  /\ summary' = "none"
  /\ wizard' = [wizard EXCEPT !.pc = "poll", !.job = NextJob, !.left = @ \ {NextJob}]
  /\ helpers' = [helpers EXCEPT !["polled"] =
       [job |-> NextJob, ok |-> TRUE, todo |-> {}, run |-> run, pc |-> FirstStep(NextJob)]]
  /\ UNCHANGED <<disk, staging, record, run, historyVars, faulted>>

\* What a stage's end means: the build and the data are needed, the mod is not,
\* and a record that could not be written is only said.
AfterStage(ok) ==
  wizard' = [wizard EXCEPT !.pc =
               IF ~ok /\ wizard.job \in {"payload", "game"} THEN "failed"
               ELSE IF wizard.left = {} THEN "done" ELSE "next"]

\* A helper that is still there is no longer looked at.
LetsGo ==
  \/ helpers["polled"] = NoHelper /\ UNCHANGED helpers
  \/ /\ helpers["polled"] # NoHelper
     /\ \E a \in Abandoned :
          /\ helpers[a] = NoHelper
          /\ helpers' = [helpers EXCEPT ![a] = helpers["polled"], !["polled"] = NoHelper]

\* The summary is there; a helper other than the stage's may have written it.
StageEnds ==
  /\ wizard.pc = "poll" /\ summary # "none"
  /\ AfterStage(summary = "ok")
  /\ LetsGo
  /\ UNCHANGED <<disk, staging, summary, record, run, historyVars, faulted>>

\* PollStage gives up.
Silent == summary = "none"

GivesUp ==
  /\ wizard.pc = "poll" /\ Silent
  /\ LetsGo
  /\ AfterStage(FALSE)
  /\ faulted' = TRUE
  /\ UNCHANGED <<disk, staging, summary, record, run, historyVars>>

\* The user starts the installer again; a helper given up on before is not waited for.
Alive == {s \in Slots : helpers[s] # NoHelper}

RunAgain ==
  /\ wizard.pc \in {"failed", "done"}
  /\ run < MaxRuns /\ run' = run + 1
  /\ Starts(wizard')
  /\ summary' = "none" /\ record' = FALSE
  /\ verified' = {helpers[s].job : s \in {t \in Alive : helpers[t].pc \in {"remove", "move"}}}
  /\ beside' = (Alive # {}) /\ faulted' = (Alive # {})
  /\ UNCHANGED <<disk, staging, helpers>>

-----------------------------------------------------------------------------
(* A helper                                                                *)

Runs(s, pc) == helpers[s] # NoHelper /\ helpers[s].pc = pc
Goes(s, pc) == helpers' = [helpers EXCEPT ![s].pc = pc]
Job(s) == helpers[s].job
Faults == faulted' = TRUE
Fails(s) ==
  /\ helpers' = [helpers EXCEPT ![s].pc = "cleanup", ![s].ok = FALSE, ![s].todo = {}]
  /\ Faults

wizardVars == <<wizard, summary, record, run, beside>>

\* finalize checks what is installed against the build's own manifest and the
\* game's fingerprints; the mod is recorded as it is.
BuildMatches == \E v \in {"old", "new"} : \A f \in Payload : disk[f] = v
DataMatches == \A f \in Game : disk[f] \in {"old", "new"}

\* verify-payload: the embedded build against its own manifest, in place.
VerifiesInPlace(s) ==
  /\ Runs(s, "inplace")
  /\ \/ /\ BuildMatches
        /\ Goes(s, "report")
        /\ verified' = verified \cup {Job(s)}
        /\ UNCHANGED faulted
     \/ /\ helpers' = [helpers EXCEPT ![s].pc = "report", ![s].ok = FALSE]
        /\ Faults /\ UNCHANGED verified
  /\ UNCHANGED <<disk, staging, wizardVars>>

\* RemoveTree(staging) before the staging is filled, or it cannot be emptied.
EmptyStaging(s) == staging' = staging \ SharesStaging(Job(s))

CleansStaging(s) ==
  /\ Runs(s, "clean")
  /\ EmptyStaging(s)
  /\ \/ Goes(s, "stage") /\ UNCHANGED faulted
     \/ Fails(s)
  /\ UNCHANGED <<disk, wizardVars, verified>>

\* Materialise, one file at a time; it may fail at any of them.
Stages(s) ==
  /\ Runs(s, "stage")
  /\ \/ /\ \E f \in FilesOf(Job(s)) \ staging : staging' = staging \cup {f}
        /\ UNCHANGED <<helpers, faulted>>
     \/ FilesOf(Job(s)) \subseteq staging /\ Goes(s, "verify")
        /\ UNCHANGED <<staging, faulted>>
     \/ Fails(s) /\ UNCHANGED staging
  /\ UNCHANGED <<disk, wizardVars, verified>>

\* The fingerprints are checked in the staging folder: a build or data that does
\* not match is refused, an incomplete mod too.
RemoveFirst(s) ==  \* faulty variant: the mod's folder goes before the check
  /\ disk' = [f \in Files |-> IF Job(s) = "mod" /\ f \in Mod \cup OldMod THEN "none"
                              ELSE disk[f]]
KeepInstalled(s) == UNCHANGED disk

Verifies(s) ==
  /\ Runs(s, "verify")
  /\ \/ /\ FilesOf(Job(s)) \subseteq staging
        /\ helpers' = [helpers EXCEPT
             ![s].pc = IF Job(s) = "mod" THEN "remove" ELSE "move",
             ![s].todo = staging \cap SharesStaging(Job(s))]
        /\ verified' = verified \cup {Job(s)}
        /\ UNCHANGED faulted
     \/ Fails(s) /\ UNCHANGED verified
  /\ KeepInstalled(s)
  /\ UNCHANGED <<staging, wizardVars>>

\* RemoveTree(ultimate_root), which may stop half way.
MergeOver(s) == disk' = disk  \* faulty variant: the old mod is merged into
RemoveOld(s) == disk' = [f \in Files |-> IF f \in Mod \cup OldMod THEN "none"
                                         ELSE disk[f]]

RemovesOld(s) ==
  /\ Runs(s, "remove")
  /\ \/ RemoveOld(s) /\ Goes(s, "move") /\ UNCHANGED faulted
     \/ /\ \E f \in Mod \cup OldMod : disk' = [disk EXCEPT ![f] = "none"]
        /\ Fails(s)
  /\ UNCHANGED <<staging, wizardVars, verified>>

\* MoveTree takes the files one by one: a rename, or a copy over the old one that
\* may end half way; a file whose folder cannot be listed is passed over, since
\* MoveTreeInner looks at the error pointer and not at the error.
Moves(s) ==
  /\ Runs(s, "move") /\ helpers[s].todo # {}
  /\ \E f \in helpers[s].todo :
       \/ /\ f \in staging
          /\ disk' = [disk EXCEPT ![f] = "new"] /\ staging' = staging \ {f}
          /\ helpers' = [helpers EXCEPT ![s].todo = @ \ {f}]
          /\ UNCHANGED faulted
       \/ /\ disk' \in {disk, [disk EXCEPT ![f] = "torn"]}
          /\ Fails(s) /\ UNCHANGED staging
       \/ /\ helpers' = [helpers EXCEPT ![s].todo = @ \ {f}]
          /\ Faults
          /\ UNCHANGED <<disk, staging>>
  /\ UNCHANGED <<wizardVars, verified>>

MoveEnds(s) ==
  /\ Runs(s, "move") /\ helpers[s].todo = {}
  /\ Goes(s, "cleanup")
  /\ UNCHANGED <<disk, staging, wizardVars, verified, faulted>>

\* ~RemoveOnExit.
CleansUp(s) ==
  /\ Runs(s, "cleanup")
  /\ staging' = staging \ SharesStaging(Job(s))
  /\ Goes(s, "report")
  /\ UNCHANGED <<disk, wizardVars, verified, faulted>>

Checks(s) ==
  /\ Runs(s, "check")
  /\ IF BuildMatches /\ DataMatches
     THEN Goes(s, "write")
     ELSE helpers' = [helpers EXCEPT ![s].pc = "report", ![s].ok = FALSE]
  /\ UNCHANGED <<disk, staging, wizardVars, verified, faulted>>

WritesRecord(s) ==
  /\ Runs(s, "write")
  /\ \/ /\ record' = TRUE
        /\ Goes(s, "report") /\ UNCHANGED faulted
     \/ /\ helpers' = [helpers EXCEPT ![s].pc = "report", ![s].ok = FALSE]
        /\ Faults /\ UNCHANGED record
  /\ UNCHANGED <<disk, staging, wizard, summary, run, historyVars>>

\* The summary is written, in the temporary folder of the wizard that started the
\* helper, and the process ends.
Reports(s) ==
  /\ Runs(s, "report")
  /\ summary' = IF helpers[s].run # run THEN summary
                ELSE IF helpers[s].ok THEN "ok" ELSE "failed"
  /\ helpers' = [helpers EXCEPT ![s] = NoHelper]
  /\ UNCHANGED <<disk, staging, wizard, record, run, historyVars, faulted>>

HelperStep(s) ==
  \/ VerifiesInPlace(s) \/ CleansStaging(s) \/ Stages(s) \/ Verifies(s) \/ RemovesOld(s)
  \/ Moves(s) \/ MoveEnds(s) \/ CleansUp(s)
  \/ Checks(s) \/ WritesRecord(s) \/ Reports(s)

-----------------------------------------------------------------------------
(* The system                                                              *)

\* The machine goes down, or a helper is killed: no destructor runs.
HelperDies(s) ==
  /\ helpers[s] # NoHelper
  /\ helpers' = [helpers EXCEPT ![s] = NoHelper]
  /\ Faults
  /\ UNCHANGED <<disk, staging, wizardVars, verified>>

PowerFails ==
  /\ wizard.pc \in {"copy", "next", "poll"}
  /\ helpers' = [s \in Slots |-> NoHelper]
  /\ wizard' = [wizard EXCEPT !.pc = "failed", !.added = {}]
  /\ Faults
  /\ UNCHANGED <<disk, staging, summary, record, run, historyVars>>

WizardStep == CopiesFile \/ CopyEnds \/ RunStage \/ StageEnds \/ GivesUp

Next == \/ WizardStep \/ RunAgain \/ PowerFails
        \/ \E s \in Slots : HelperStep(s) \/ HelperDies(s)

Spec == Init /\ [][Next]_vars

-----------------------------------------------------------------------------
(* Properties                                                              *)

\* A component's check passed; a helper of an earlier run shares the staging folder
\* of the game and the mod, so the check of one of them lets files of both move.
Checked(job) ==
  \/ job \in verified
  \/ beside /\ job # "payload" /\ verified \cap {"game", "mod"} # {}

\* Until a component passed its check, no file of it is touched: a source that
\* is refused, unreadable or never arrives, a helper that dies or is abandoned in
\* the middle, leave the earlier install as it was, the mod's included.  The one
\* exception is the embedded build, which is in place before it is checked: Setup
\* itself copies it, and takes back what it added.
UntouchedUntilVerified ==
  [][\A job \in {"payload", "game", "mod"} :
       \A f \in FilesOf(job) \cup (IF job = "mod" THEN OldMod ELSE {}) :
         disk'[f] # disk[f] => \/ Checked(job)
                               \/ job = "payload" /\ wizard.pc = "copy"]_vars

\* A run in which nothing fails, and beside which no helper of an earlier one goes
\* on, repairs whatever an earlier one left: a mixed or torn build, a half removed
\* mod, a staging folder full of another attempt's files.  It ends with every
\* component it installed whole, and recorded.
CleanRunRepairs ==
  wizard.pc = "done" /\ ~faulted =>
    /\ BuildIsNew
    /\ "game" \in verified => \A f \in Game : disk[f] = "new"
    /\ "mod" \in verified => /\ \A f \in Mod : disk[f] = "new"
                             /\ \A f \in OldMod : disk[f] = "none"
    /\ BuildMatches /\ DataMatches => record
=============================================================================
