---------------------------- MODULE MCDurableFiles ----------------------------
(***************************************************************************)
(* The three parts of the system whose files must survive a crash, one per *)
(* behaviour: the commit of the settings (SettingsCommit), the installer   *)
(* (Installer), with two files of the build and one of the game, of the mod*)
(* and of its earlier release, and the player's progress (LocalSave).  They*)
(* share no state, so a behaviour picks one of them and the others keep    *)
(* their initial state; they are checked together only to be checked in one*)
(* run.                                                                    *)
(***************************************************************************)
EXTENDS MCSettingsCommit

CONSTANTS
  Payload, Game, Mod, OldMod, NoHelper, Abandoned, MaxRuns,   \* Installer
  Entries, Rests, Fresh, Missing, Damaged, Null    \* LocalSave

\* The components' folders are disjoint, and OldMod is what the mod no longer has.
ASSUME ComponentsAssumption ==
  /\ Payload \cap (Game \cup Mod \cup OldMod) = {} /\ Game \cap (Mod \cup OldMod) = {}
  /\ Mod \cap OldMod = {}
  /\ "polled" \notin Abandoned
  /\ MaxRuns \in Nat /\ MaxRuns > 0

VARIABLES
  which,  \* the part of this behaviour
  insDisk, insStaging, insHelpers, insWizard, insSummary, insRecord, insRun,
  insVerified, insBeside, insFaulted,
  savFile, savObject, savReady, savDirty, savWritable, savLast, savWaits,
  savHolds

Setup == INSTANCE Installer WITH disk <- insDisk,
  staging <- insStaging, helpers <- insHelpers, wizard <- insWizard,
  summary <- insSummary, record <- insRecord, run <- insRun,
  verified <- insVerified, beside <- insBeside, faulted <- insFaulted

Progress == INSTANCE LocalSave WITH file <- savFile, object <- savObject, ready <- savReady,
  dirty <- savDirty, writable <- savWritable, lastSaved <- savLast,
  waits <- savWaits, holds <- savHolds

\* No helper is none of the helpers; a file that is missing or damaged, and no
\* payload, are none of the payloads.
ASSUME SentinelsAssumption ==
  /\ NoHelper \notin Setup!Helpers
  /\ {Missing, Damaged, Null} \cap Progress!Payloads = {}
  /\ Missing # Damaged
  /\ Fresh \in Rests

insVars == <<insDisk, insStaging, insHelpers, insWizard, insSummary,
            insRecord, insRun, insVerified, insBeside, insFaulted>>
savVars == <<savFile, savObject, savReady, savDirty, savWritable, savLast,
            savWaits, savHolds>>
allVars == <<which, vars, insVars, savVars>>

\* A part that is not picked starts, and stays, in one initial state.
Chosen ==
  /\ which \in {"settings", "installer", "progress"}
  /\ Init /\ Setup!Init /\ Progress!Init
  /\ which # "settings" => /\ disk = Default
                           /\ file = [r \in Providers |-> v0]
  /\ which # "installer" => /\ insDisk = [x \in Setup!Files |-> "none"]
                            /\ insWizard.left = Setup!Jobs /\ ~insWizard.embedded
  /\ which # "progress" => savFile = Missing

OnlySettings == which = "settings" /\ UNCHANGED <<which, insVars, savVars>>
OnlySetup == which = "installer" /\ UNCHANGED <<which, vars, savVars>>
OnlyProgress == which = "progress" /\ UNCHANGED <<which, vars, insVars>>

AnyStep ==
  \/ OnlySettings /\ Next
  \/ OnlySetup /\ Setup!Next
  \/ OnlyProgress /\ Progress!Next
DurableFiles == Chosen /\ [][AnyStep]_allVars

\* The values but the default are alike, and so are the two files of the build and
\* two scores.
FilesSymmetry ==
  Symmetry \cup Permutations(Payload) \cup Permutations(Entries)

-----------------------------------------------------------------------------
(* The properties, as their modules state them                             *)

\* Every variable of the three parts has its type.
FilesTypeOK == TypeOK /\ Setup!InstallerTypeOK /\ Progress!SaveTypeOK

\* Installer: nothing is touched before its check passed.
UntouchedUntilVerified == Setup!UntouchedUntilVerified
\* Installer: a run without a failure repairs any earlier one.
CleanRunRepairs == Setup!CleanRunRepairs

\* LocalSave: progress is never replaced by none.
ProgressSurvives == Progress!ProgressSurvives
\* LocalSave: no score of a checkpoint is missing from a later one.
ScoresAccumulate == Progress!ScoresAccumulate
=============================================================================
