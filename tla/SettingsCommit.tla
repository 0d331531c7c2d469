---------------------------- MODULE SettingsCommit ----------------------------
(***************************************************************************)
(* The durable commit of the settings service (src/src/settings/service.cpp *)
(* and store.cpp) with the bridge that drives it (bridge_sink.cpp).  A      *)
(* commit may write two files: settings.toml for the native rows and the    *)
(* Ultimate provider's own file for the provider rows.  Each file is       *)
(* replaced atomically; a journal written before the first makes the pair  *)
(* recoverable.  The process may die between any two steps, every file     *)
(* operation may fail, and another writer may save settings.toml under its *)
(* lock at any time.                                                       *)
(*                                                                         *)
(* Abstracted: the kinds and spellings of values, the descriptors and      *)
(* their validation, and which rows need a restart.  Every row is present  *)
(* in its file, which a load may fail to read.  A provider row is staged   *)
(* here only while the provider is active, as the bridge does              *)
(* (IsLocalToken, bridge_sink.cpp:143-157), so Commit's early refusal of   *)
(* provider rows without one is never taken.                               *)
(***************************************************************************)
EXTENDS Naturals

CONSTANTS
  Natives,     \* rows kept in settings.toml
  Providers,   \* rows kept in the provider's file
  Values,
  Default,     \* a native row's compiled default
  NoJournal,
  MaxRevision  \* bound: durable commits of one process

ASSUME RowsAssumption == Natives \cap Providers = {} /\ Natives # {} /\ Providers # {}
ASSUME DefaultAssumption == Default \in [Natives -> Values]
ASSUME RevisionAssumption == MaxRevision \in Nat

VARIABLES
  disk,        \* settings.toml
  file,        \* the provider's file
  journal,     \* the commit journal beside settings.toml
  doc,         \* Store::document_: the requested native values, none after a failed load
  base,        \* Store::base_: the native values as last loaded or saved
  loaded,      \* Store::load_: the last load could use settings.toml
  provided,    \* provider_values_
  pending,     \* pending_: the open transaction's edits
  editing,     \* txn_ # 0
  revision,    \* revision_
  active,      \* the provider is installed and active for this process
  commitOk,    \* the bridge's commit_ok_
  saved,       \* the bridge's saved_revision_
  restarting,  \* the coordinator accepted a restart
  op,          \* the commit or boot recovery under way: program counter and locals
  foreign      \* history: native rows another writer saved since the last load

fileVars   == <<disk, file, journal>>
memoryVars == <<doc, base, loaded, provided>>
editVars   == <<pending, editing>>
bridgeVars == <<commitOk, saved, restarting>>
vars == <<fileVars, memoryVars, editVars, revision, active, bridgeVars, op, foreign>>

Rows == Natives \cup Providers
NoRows == [r \in {} |-> r]
Edits(S) == UNION {[R -> Values] : R \in SUBSET S}
Journals == [native : Edits(Natives), base : Edits(Natives), provider : Edits(Providers)]
ASSUME JournalAssumption == NoJournal \notin Journals

Pcs == {"off", "idle", "recover", "replay", "reload", "retire", "park", "split",
        "journal", "native", "refused", "provider", "finish"}

TypeOK ==
  /\ disk \in [Natives -> Values] /\ file \in [Providers -> Values]
  /\ journal = NoJournal \/ journal \in Journals
  /\ doc \in Edits(Natives) /\ base \in Edits(Natives)
  /\ provided \in [Providers -> Values]
  /\ pending \in Edits(Rows)
  /\ {loaded, editing, active, commitOk, restarting} \subseteq BOOLEAN
  /\ revision \in 0 .. MaxRevision /\ saved \in 0 .. MaxRevision
  /\ op \in [pc : Pcs, boot : BOOLEAN, before : 0 .. MaxRevision, wrote : BOOLEAN,
             native : Edits(Natives), provider : Edits(Providers),
             seen : Edits(Natives)]
  /\ foreign \subseteq Natives

\* The rows of f, and those of g that f does not have.
Over(f, g) == [r \in DOMAIN f \cup DOMAIN g |-> IF r \in DOMAIN f THEN f[r] ELSE g[r]]
Agrees(rows, whole) == \A r \in DOMAIN rows : rows[r] = whole[r]
Only(rows, S) == [r \in DOMAIN rows \cap S |-> rows[r]]
RequestedValue == Over(Over(doc, Default), provided)

At(pc) == op.pc = pc
Goes(pc) == op' = [op EXCEPT !.pc = pc]
Idle == [pc |-> "idle", boot |-> FALSE, before |-> 0, wrote |-> FALSE,
         native |-> NoRows, provider |-> NoRows, seen |-> NoRows]

(***************************************************************************)
(* The process starts with what the files hold.  With an active provider   *)
(* SetProviderSink tries to finish an interrupted save at once.            *)
(***************************************************************************)
Init ==
  /\ disk \in [Natives -> Values] /\ file \in [Providers -> Values]
  /\ journal = NoJournal
  /\ doc = disk /\ base = disk /\ loaded = TRUE /\ provided = file
  /\ pending = NoRows /\ editing = FALSE /\ revision = 0
  /\ active = FALSE
  /\ commitOk = TRUE /\ saved = 0 /\ restarting = FALSE
  /\ op = [Idle EXCEPT !.pc = "off"]
  /\ foreign = {}

\* Faulty variant: the store keeps what MarkChanged staged.
KeepMarked == UNCHANGED <<doc, base, loaded, foreign>>
\* Store::Load: a file it cannot read or use leaves no row at all, and no caller asks.
Load ==
  /\ \/ loaded' = TRUE /\ doc' = disk /\ base' = disk
     \/ loaded' = FALSE /\ doc' = NoRows /\ base' = NoRows
  /\ foreign' = {}

Boot ==
  /\ At("off")
  /\ active' \in BOOLEAN
  /\ Load /\ provided' = file
  /\ op' = [Idle EXCEPT !.pc = IF active' THEN "recover" ELSE "idle", !.boot = active']
  /\ UNCHANGED <<fileVars, editVars, revision, bridgeVars>>

\* The process ends, by a crash, an exit or the accepted restart.
Ends ==
  /\ ~At("off")
  /\ pending' = NoRows /\ editing' = FALSE /\ revision' = 0
  /\ commitOk' = TRUE /\ saved' = 0 /\ restarting' = FALSE
  /\ doc' = disk /\ base' = disk /\ loaded' = TRUE /\ provided' = file /\ active' = FALSE
  /\ foreign' = {}
  /\ op' = [Idle EXCEPT !.pc = "off"]
  /\ UNCHANGED fileVars

\* Another Store on the same file (a second process, an installer) saves one row.
WriterSaves(n, v) ==
  /\ disk[n] # v
  /\ disk' = [disk EXCEPT ![n] = v]
  /\ foreign' = foreign \cup {n}
  /\ UNCHANGED <<file, journal, memoryVars, editVars, revision, active, bridgeVars, op>>

-----------------------------------------------------------------------------
(* The edits.                                                              *)

BeginEdit ==
  /\ At("idle")
  /\ pending' = NoRows /\ editing' = TRUE
  /\ UNCHANGED <<fileVars, memoryVars, revision, active, bridgeVars, op, foreign>>

Set(r, v) ==
  /\ At("idle") /\ editing
  /\ r \in Providers => active
  /\ pending' = Over([x \in {r} |-> v], pending)
  /\ UNCHANGED <<fileVars, memoryVars, editing, revision, active, bridgeVars, op, foreign>>

CancelField(r) ==
  /\ At("idle") /\ editing /\ r \in DOMAIN pending
  /\ pending' = Only(pending, Rows \ {r})
  /\ UNCHANGED <<fileVars, memoryVars, editing, revision, active, bridgeVars, op, foreign>>

CancelEdit ==
  /\ At("idle") /\ editing
  /\ pending' = NoRows /\ editing' = FALSE
  /\ UNCHANGED <<fileVars, memoryVars, revision, active, bridgeVars, op, foreign>>

\* The restart confirmation: the bridge's own guard and the coordinator's.
RequestRestart ==
  /\ At("idle") /\ ~restarting
  /\ commitOk /\ saved = revision /\ saved # 0
  /\ restarting' = TRUE
  /\ UNCHANGED <<fileVars, memoryVars, editVars, revision, active, commitOk, saved, op,
                 foreign>>

-----------------------------------------------------------------------------
(* Commit.  The bridge answers a commit with nothing staged as a success.   *)

CommitNothing ==
  /\ At("idle") /\ pending = NoRows
  /\ editing' = FALSE
  /\ commitOk' = TRUE /\ saved' = revision
  /\ UNCHANGED <<fileVars, memoryVars, pending, revision, active, restarting, op, foreign>>

CommitBegins ==
  /\ At("idle") /\ editing /\ pending # NoRows
  /\ revision < MaxRevision
  /\ op' = [op EXCEPT !.pc = "recover", !.before = revision]
  /\ UNCHANGED <<fileVars, memoryVars, editVars, revision, active, bridgeVars, foreign>>

\* A commit that failed before its native half: the edits and the transaction stay for a retry.
Fails ==
  /\ op' = Idle
  /\ commitOk' = FALSE /\ saved' = op.before
  /\ UNCHANGED <<editVars, restarting>>

CommitCannotLock ==
  /\ At("recover") /\ ~op.boot
  /\ Fails
  /\ UNCHANGED <<fileVars, memoryVars, revision, active, foreign>>

(* RecoverCommit *)

Recovered == IF op.boot THEN op' = Idle ELSE Goes("split")
Unfinishable == IF op.boot THEN op' = Idle ELSE Goes("park")

NoneInterrupted ==
  /\ At("recover") /\ journal = NoJournal
  /\ Recovered
  /\ UNCHANGED <<fileVars, memoryVars, editVars, revision, active, bridgeVars, foreign>>

\* Faulty variant: the verdict reads the base rows for the new ones.
SwappedVerdict(values) == Agrees(journal.base, values)
Committed(values) == Agrees(journal.native, values)
\* A row without a base counts as changed: every row is in the file.
Unchanged(values) ==
  DOMAIN journal.native = DOMAIN journal.base /\ Agrees(journal.base, values)

RecoveryReads ==
  /\ At("recover") /\ journal # NoJournal
  /\ \/ Committed(disk) /\ active /\ op' = [op EXCEPT !.pc = "replay", !.seen = disk]
     \/ /\ ~Committed(disk) /\ Unchanged(disk)
        /\ op' = [op EXCEPT !.pc = "retire", !.seen = disk]
  /\ UNCHANGED <<fileVars, memoryVars, editVars, revision, active, bridgeVars, foreign>>

\* Neither verdict, no provider, or a journal or a file that cannot be read.
RecoveryRefuses ==
  /\ At("recover") /\ journal # NoJournal
  /\ Unfinishable
  /\ UNCHANGED <<fileVars, memoryVars, editVars, revision, active, bridgeVars, foreign>>

RecoverySaves ==
  /\ At("replay")
  /\ file' = Over(journal.provider, file)
  /\ provided' = Over(journal.provider, provided)
  /\ Goes("reload")
  /\ UNCHANGED <<disk, journal, doc, base, loaded, editVars, revision, active, bridgeVars,
                 foreign>>

RecoveryCannotSave ==
  /\ At("replay")
  /\ Unfinishable
  /\ UNCHANGED <<fileVars, memoryVars, editVars, revision, active, bridgeVars, foreign>>

RecoveryReloads ==
  /\ At("reload")
  /\ Load
  /\ revision' = revision + 1
  /\ Goes("retire")
  /\ UNCHANGED <<fileVars, provided, editVars, active, bridgeVars>>

RecoveryRetires ==
  /\ At("retire")
  /\ \/ journal' = NoJournal /\ Recovered
     \/ UNCHANGED journal /\ Unfinishable
  /\ UNCHANGED <<disk, file, memoryVars, editVars, revision, active, bridgeVars, foreign>>

ParkJournal ==
  /\ At("park")
  /\ \/ journal' = NoJournal /\ Goes("split") /\ UNCHANGED <<editVars, bridgeVars>>
     \/ UNCHANGED journal /\ Fails
  /\ UNCHANGED <<disk, file, memoryVars, revision, active, foreign>>

(* The write itself.                                                       *)

Changed == [r \in {x \in DOMAIN pending : pending[x] # RequestedValue[x]} |-> pending[r]]

FirstWrite(native, provider) ==
  CASE native # NoRows /\ provider # NoRows -> "journal"
    [] native # NoRows /\ provider = NoRows -> "native"
    [] native = NoRows /\ provider # NoRows -> "provider"
    [] OTHER -> "finish"

CommitSplits ==
  /\ At("split")
  /\ LET native == Only(Changed, Natives)
         provider == Only(Changed, Providers)
     IN op' = [op EXCEPT !.native = native, !.provider = provider, !.seen = base,
                         !.pc = FirstWrite(native, provider)]
  /\ UNCHANGED <<fileVars, memoryVars, editVars, revision, active, bridgeVars, foreign>>

WritesJournal ==
  /\ At("journal")
  /\ \/ /\ journal' = [native |-> op.native, base |-> Only(doc, DOMAIN op.native),
                       provider |-> op.provider]
        /\ Goes("native")
        /\ UNCHANGED <<editVars, bridgeVars>>
     \/ UNCHANGED journal /\ Fails
  /\ UNCHANGED <<disk, file, memoryVars, revision, active, foreign>>

NoConflict == \A n \in DOMAIN op.native : n \in DOMAIN base /\ disk[n] = base[n]
AfterNative == IF op.provider = NoRows THEN "finish" ELSE "provider"

SavesNative ==
  /\ At("native") /\ NoConflict
  /\ disk' = Over(op.native, disk)
  /\ doc' = Over(op.native, doc) /\ base' = Over(op.native, base)
  /\ op' = [op EXCEPT !.pc = AfterNative, !.wrote = TRUE, !.seen = disk']
  /\ UNCHANGED <<file, journal, loaded, provided, editVars, revision, active, bridgeVars,
                 foreign>>

\* A conflict or an error, after MarkChanged has staged the rows.
CannotSaveNative ==
  /\ At("native")
  /\ doc' = Over(op.native, doc)
  /\ Goes("refused")
  /\ UNCHANGED <<fileVars, base, loaded, provided, editVars, revision, active, bridgeVars,
                 foreign>>

CommitRefused ==
  /\ At("refused")
  /\ journal' \in {NoJournal, journal}
  /\ Load
  /\ Fails
  /\ UNCHANGED <<disk, file, provided, revision, active>>

SavesProvider ==
  /\ At("provider")
  /\ file' = Over(op.provider, file)
  /\ provided' = Over(op.provider, provided)
  /\ op' = [op EXCEPT !.pc = "finish", !.wrote = TRUE]
  /\ UNCHANGED <<disk, journal, doc, base, loaded, editVars, revision, active, bridgeVars,
                 foreign>>

\* Faulty variant: a partial save ends the transaction.
PartialEndsEdit ==
  /\ At("provider")
  /\ op' = Idle
  /\ commitOk' = FALSE /\ saved' = revision
  /\ pending' = NoRows /\ editing' = FALSE
  /\ UNCHANGED <<fileVars, memoryVars, revision, active, restarting, foreign>>

\* kPartial: the journal, the edits and the transaction stay.
CannotSaveProvider ==
  /\ At("provider")
  /\ op' = Idle
  /\ commitOk' = FALSE /\ saved' = revision
  /\ UNCHANGED <<fileVars, memoryVars, editVars, revision, active, restarting, foreign>>

\* Faulty variant: every written commit counts.
AdvancesAlways == op.wrote
\* A recovery inside this commit has counted already.
AdvancesRevision == op.wrote /\ revision = op.before

CommitFinishes ==
  /\ At("finish")
  /\ revision' = IF AdvancesRevision THEN revision + 1 ELSE revision
  /\ journal' \in {NoJournal, journal}
  /\ pending' = NoRows /\ editing' = FALSE
  /\ commitOk' = TRUE /\ saved' = revision'
  /\ op' = Idle
  /\ UNCHANGED <<disk, file, memoryVars, active, restarting, foreign>>

RecoverStep ==
  \/ NoneInterrupted \/ RecoveryReads \/ RecoveryRefuses \/ RecoverySaves
  \/ RecoveryCannotSave \/ RecoveryReloads \/ RecoveryRetires

CommitStep ==
  \/ CommitNothing \/ CommitBegins \/ CommitCannotLock \/ ParkJournal \/ CommitSplits
  \/ WritesJournal \/ SavesNative \/ CannotSaveNative \/ CommitRefused \/ SavesProvider
  \/ CannotSaveProvider \/ CommitFinishes

Next ==
  \/ Boot \/ Ends
  \/ \E n \in Natives, v \in Values : WriterSaves(n, v)
  \/ BeginEdit \/ CancelEdit \/ RequestRestart
  \/ \E r \in Rows : CancelField(r) \/ \E v \in Values : Set(r, v)
  \/ RecoverStep \/ CommitStep

Spec == Init /\ [][Next]_vars

-----------------------------------------------------------------------------
(* Properties                                                              *)

\* The journal stands for a commit whose first half is on the disk.
HalfDone == journal # NoJournal /\ Agrees(journal.native, disk)

\* What the provider's file holds once the journal is played.
Outcome == IF HalfDone THEN Over(journal.provider, file) ELSE file

\* Crash atomicity.  What a recovery would leave in the provider's file changes
\* only when a commit replaces settings.toml (both halves at once), when a commit of
\* provider rows alone replaces the provider's file, when another writer saves
\* settings.toml, or when a journal is set aside.  No crash, boot, recovery, provider
\* save of a combined commit or journal removal moves it, unless settings.toml is not
\* what that operation read: another writer has saved it since, or it could not be read.
OutcomeMoves ==
  [][Outcome' # Outcome =>
       \/ SavesNative
       \/ SavesProvider /\ op.native = NoRows
       \/ \E n \in Natives, v \in Values : WriterSaves(n, v)
       \/ At("park")
       \/ (RecoverStep \/ CommitStep) /\ op.seen # disk]_vars

\* Between operations no failed or partial commit has left an edit in memory that no
\* file holds.  The provider rows reported are the file's.  The native ones are
\* settings.toml's, but for rows another writer saved since the last load; after a load
\* that could not use settings.toml they are the compiled defaults, every one of them.
RequestedIsDurable ==
  At("idle") =>
    /\ \A r \in Providers : RequestedValue[r] = file[r]
    /\ loaded => \A n \in Natives \ foreign : /\ RequestedValue[n] = disk[n]
                                             /\ n \in DOMAIN base /\ base[n] = disk[n]
    /\ ~loaded => \A n \in Natives : RequestedValue[n] = Default[n] /\ n \notin DOMAIN base

\* A commit never drops an edit its service does not report: when its end clears the
\* transaction, the service's requested values are the edits (in the files as
\* RequestedIsDurable says).
EditsNotLost ==
  [][op.pc # "idle" /\ pending # NoRows /\ pending' = NoRows /\ op'.pc = "idle"
       => Agrees(pending, RequestedValue')]_vars

\* docs/settings/contracts.md, section 6: a commit's partial failure blocks Restart now.
PartialBlocksRestart ==
  [][~restarting /\ restarting' => ~(HalfDone /\ ~Agrees(journal.provider, file))]_vars
=============================================================================
