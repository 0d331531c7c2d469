------------------------- MODULE SettingsCommit_proofs -------------------------
(***************************************************************************)
(* Proofs about SettingsCommit.  The invariant says, for each program      *)
(* counter of a commit or a recovery, what the journal, the service's      *)
(* memory and the two files have to do with each other: RevisionFits for   *)
(* the types, MemoryInv for RequestedIsDurable, JournalInv for OutcomeMoves*)
(* and EditsInv for EditsNotLost.                                          *)
(***************************************************************************)
EXTENDS SettingsCommit, TLAPS

-----------------------------------------------------------------------------
(* The invariant                                                           *)

Writing == {"journal", "native", "refused", "provider", "finish"}

\* A commit begins below the bound and counts once, itself or in its recovery.
RevisionFits ==
  /\ journal # NoJournal => MaxRevision > 0
  /\ At("off") => revision = 0
  /\ op.boot => op.pc \in {"recover", "replay", "reload", "retire"}
  /\ op.boot /\ ~At("retire") => revision = 0
  /\ ~op.boot /\ op.pc \notin {"off", "idle"} =>
       /\ op.before < MaxRevision
       /\ revision = op.before \/ revision = op.before + 1
  /\ ~op.boot /\ op.pc \in {"recover", "replay", "reload"} => revision = op.before

\* Memory is what the files hold, but for a refused save's mark and another
\* writer's rows, or it holds no native row.
MemoryInv ==
  /\ provided = file
  /\ loaded => /\ base \in [Natives -> Values]
               /\ \A n \in Natives \ foreign : base[n] = disk[n]
  /\ ~loaded => base = NoRows
  /\ ~At("refused") => doc = base

\* The journal of a commit of both files, none for a commit of one.
JournalIsOps ==
  IF op.native # NoRows /\ op.provider # NoRows
  THEN /\ journal # NoJournal
       /\ journal.native = op.native /\ journal.provider = op.provider
  ELSE journal = NoJournal

JournalInv ==
  /\ op.pc \in {"replay", "reload", "retire"} => journal # NoJournal
  /\ op.pc \in {"replay", "reload"} => Agrees(journal.native, op.seen)
  /\ At("reload") => Agrees(journal.provider, file)
  /\ At("retire") /\ Agrees(journal.native, op.seen) => Agrees(journal.provider, file)
  /\ op.pc \in {"split", "journal"} => journal = NoJournal
  /\ At("journal") => op.native # NoRows /\ op.provider # NoRows
  /\ op.pc \in {"native", "refused"} => op.native # NoRows
  /\ op.pc \in {"journal", "native", "refused"} =>
       \A r \in DOMAIN op.native \cap DOMAIN op.seen : op.native[r] # op.seen[r]
  /\ op.pc \in {"native", "refused", "provider", "finish"} => JournalIsOps
  /\ op.pc \in {"provider", "finish"} => Agrees(op.native, op.seen)
  /\ At("finish") => Agrees(op.provider, file)

\* The rows the commit writes are the edits that change a value.
EditsInv ==
  /\ op.pc \in Writing =>
       /\ Agrees(op.native, pending) /\ Agrees(op.provider, pending)
       /\ DOMAIN op.native \cup DOMAIN op.provider \subseteq DOMAIN pending
  /\ op.pc \in Writing \ {"refused"} =>
       \A r \in DOMAIN pending \ (DOMAIN op.native \cup DOMAIN op.provider) :
         pending[r] = RequestedValue[r]
  /\ op.pc \in {"provider", "finish"} => Agrees(op.native, RequestedValue)
  /\ At("finish") => Agrees(op.provider, RequestedValue)

IInv == TypeOK /\ RevisionFits /\ MemoryInv /\ JournalInv /\ EditsInv

-----------------------------------------------------------------------------
(* The operators on rows                                                   *)

LEMMA EditsIs ==
  ASSUME NEW S, NEW f \in Edits(S)
  PROVE  DOMAIN f \subseteq S /\ f \in [DOMAIN f -> Values]
BY DEF Edits

LEMMA EditsMake ==
  ASSUME NEW S, NEW R \in SUBSET S, NEW f \in [R -> Values]
  PROVE  f \in Edits(S)
BY DEF Edits

LEMMA NoRowsIs == \A S : NoRows \in Edits(S) /\ DOMAIN NoRows = {}
<1> SUFFICES ASSUME NEW S PROVE NoRows \in Edits(S) /\ DOMAIN NoRows = {}
  OBVIOUS
<1>1. NoRows \in [{} -> Values]
  BY DEF NoRows
<1> QED
  BY <1>1, EditsMake DEF NoRows

\* A whole file with some of its rows replaced is a whole file.
LEMMA OverFile ==
  ASSUME NEW S, NEW f \in Edits(S), NEW g \in [S -> Values]
  PROVE  /\ Over(f, g) \in [S -> Values]
         /\ \A r \in S : Over(f, g)[r] = IF r \in DOMAIN f THEN f[r] ELSE g[r]
         /\ Agrees(f, Over(f, g))
         /\ Agrees(f, g) => Over(f, g) = g
         /\ Over(f, Over(f, g)) = Over(f, g)
<1>1. DOMAIN f \subseteq S /\ f \in [DOMAIN f -> Values]
  BY EditsIs
<1>2. /\ Over(f, g) \in [S -> Values]
      /\ \A r \in S : Over(f, g)[r] = IF r \in DOMAIN f THEN f[r] ELSE g[r]
  BY <1>1 DEF Over
<1>3. Agrees(f, Over(f, g))
  BY <1>1, <1>2 DEF Agrees
<1>4. \A h \in [S -> Values] : Agrees(f, h) => Over(f, h) = h
  BY <1>1 DEF Over, Agrees
<1> QED
  BY <1>2, <1>3, <1>4

LEMMA OverEdits ==
  ASSUME NEW S, NEW f \in Edits(S), NEW g \in Edits(S)
  PROVE  Over(f, g) \in Edits(S)
<1>1. /\ DOMAIN f \cup DOMAIN g \in SUBSET S
      /\ f \in [DOMAIN f -> Values] /\ g \in [DOMAIN g -> Values]
  BY EditsIs
<1>2. Over(f, g) \in [DOMAIN f \cup DOMAIN g -> Values]
  BY <1>1 DEF Over
<1> QED
  BY <1>1, <1>2, EditsMake

\* What the service reports: both files' rows, or a native row's default.
LEMMA RequestedIs ==
  ASSUME NEW d \in Edits(Natives), NEW q \in [Providers -> Values]
  PROVE  /\ Over(Over(d, Default), q) \in [Rows -> Values]
         /\ \A r \in Natives :
              Over(Over(d, Default), q)[r] = IF r \in DOMAIN d THEN d[r] ELSE Default[r]
         /\ \A r \in Providers : Over(Over(d, Default), q)[r] = q[r]
<1> DEFINE n == Over(d, Default)
<1>1. /\ n \in [Natives -> Values]
      /\ \A r \in Natives : n[r] = IF r \in DOMAIN d THEN d[r] ELSE Default[r]
  BY OverFile, DefaultAssumption
<1> HIDE DEF n
<1>2. /\ Over(n, q) \in [Rows -> Values]
      /\ \A r \in Natives : Over(n, q)[r] = n[r]
      /\ \A r \in Providers : Over(n, q)[r] = q[r]
  BY <1>1, RowsAssumption DEF Over, Rows
<1> QED
  BY <1>1, <1>2 DEF n

LEMMA Requested ==
  ASSUME doc \in Edits(Natives), provided \in [Providers -> Values]
  PROVE  /\ RequestedValue \in [Rows -> Values]
         /\ \A r \in Natives :
              RequestedValue[r] = IF r \in DOMAIN doc THEN doc[r] ELSE Default[r]
         /\ \A r \in Providers : RequestedValue[r] = provided[r]
BY RequestedIs DEF RequestedValue

LEMMA ChangedEdits ==
  ASSUME TypeOK
  PROVE  /\ Changed \in Edits(Rows)
         /\ DOMAIN Changed \subseteq DOMAIN pending
         /\ \A r \in DOMAIN pending :
              r \in DOMAIN Changed <=> pending[r] # RequestedValue[r]
         /\ \A r \in DOMAIN Changed : Changed[r] = pending[r]
<1>1. DOMAIN pending \subseteq Rows /\ pending \in [DOMAIN pending -> Values]
  BY EditsIs DEF TypeOK
<1>2. Changed \in [DOMAIN Changed -> Values] /\ DOMAIN Changed \subseteq DOMAIN pending
  BY <1>1 DEF Changed
<1> QED
  BY <1>1, <1>2, EditsMake DEF Changed

LEMMA SplitIs ==
  ASSUME TypeOK, CommitSplits
  PROVE  /\ op'.native \in Edits(Natives) /\ op'.provider \in Edits(Providers)
         /\ DOMAIN op'.native \subseteq DOMAIN pending
         /\ DOMAIN op'.provider \subseteq DOMAIN pending
         /\ \A r \in DOMAIN pending : pending[r] # RequestedValue[r] =>
              r \in DOMAIN op'.native \cup DOMAIN op'.provider
         /\ \A r \in DOMAIN op'.native :
              op'.native[r] = pending[r] /\ pending[r] # RequestedValue[r]
         /\ \A r \in DOMAIN op'.provider : op'.provider[r] = pending[r]
         /\ op' = [op EXCEPT !.native = op'.native, !.provider = op'.provider,
                             !.seen = base, !.pc = op'.pc]
         /\ op'.pc = FirstWrite(op'.native, op'.provider)
<1> DEFINE native == Only(Changed, Natives)
           provider == Only(Changed, Providers)
           next == FirstWrite(native, provider)
<1>1. op' = [op EXCEPT !.native = native, !.provider = provider, !.seen = base, !.pc = next]
  BY DEF CommitSplits
<1>2. op'.native = native /\ op'.provider = provider /\ op'.pc = next
  BY <1>1 DEF TypeOK
<1>3. /\ Changed \in Edits(Rows) /\ DOMAIN Changed \subseteq DOMAIN pending
      /\ \A r \in DOMAIN pending : r \in DOMAIN Changed <=> pending[r] # RequestedValue[r]
      /\ \A r \in DOMAIN Changed : Changed[r] = pending[r]
  BY ChangedEdits
<1>4. DOMAIN Changed \subseteq Rows
  BY <1>3, EditsIs
<1>a. ASSUME NEW T \in SUBSET Rows
      PROVE  /\ Only(Changed, T) \in Edits(T)
             /\ DOMAIN Only(Changed, T) = DOMAIN Changed \cap T
             /\ \A r \in DOMAIN Changed \cap T : Only(Changed, T)[r] = Changed[r]
  <2>1. Changed \in [DOMAIN Changed -> Values]
    BY <1>3, EditsIs
  <2>2. Only(Changed, T) \in [DOMAIN Changed \cap T -> Values]
    BY <2>1 DEF Only
  <2>3. DOMAIN Changed \cap T \in SUBSET T
    OBVIOUS
  <2>4. Only(Changed, T) \in Edits(T)
    BY <2>2, <2>3, EditsMake
  <2> QED
    BY <2>4 DEF Only
<1>b. Natives \in SUBSET Rows /\ Providers \in SUBSET Rows
  BY DEF Rows
<1>5. /\ native \in Edits(Natives) /\ DOMAIN native = DOMAIN Changed \cap Natives
      /\ \A r \in DOMAIN Changed \cap Natives : native[r] = Changed[r]
  BY <1>a, <1>b
<1>6. /\ provider \in Edits(Providers) /\ DOMAIN provider = DOMAIN Changed \cap Providers
      /\ \A r \in DOMAIN Changed \cap Providers : provider[r] = Changed[r]
  BY <1>a, <1>b
<1> HIDE DEF native, provider, next
<1>7. DOMAIN Changed = DOMAIN native \cup DOMAIN provider
  BY <1>4, <1>5, <1>6 DEF Rows
<1>8. op'.pc = FirstWrite(op'.native, op'.provider)
  BY <1>2 DEF next
<1> QED
  BY <1>1, <1>2, <1>3, <1>5, <1>6, <1>7, <1>8

-----------------------------------------------------------------------------
(* The initial state and the types                                         *)

LEMMA PcsAre ==
  /\ {"off", "idle", "recover", "replay", "reload", "retire", "park"} \subseteq Pcs
  /\ {"split", "journal", "native", "refused", "provider", "finish"} \subseteq Pcs
BY DEF Pcs

Ops == [pc : Pcs, boot : BOOLEAN, before : 0 .. MaxRevision, wrote : BOOLEAN,
        native : Edits(Natives), provider : Edits(Providers), seen : Edits(Natives)]

\* The operations that are over, that start a process, and that recover at boot.
LEMMA IdleOps ==
  /\ Idle \in Ops
  /\ \A pc \in Pcs : [Idle EXCEPT !.pc = pc] \in Ops
  /\ \A b \in BOOLEAN :
       [Idle EXCEPT !.pc = IF b THEN "recover" ELSE "idle", !.boot = b] \in Ops
<1>1. NoRows \in Edits(Natives) /\ NoRows \in Edits(Providers)
  BY NoRowsIs
<1>2. Idle \in Ops
  BY <1>1, PcsAre, RevisionAssumption DEF Idle, Ops
<1>3. \A pc \in Pcs : [Idle EXCEPT !.pc = pc] \in Ops
  BY <1>2 DEF Ops
<1>4. /\ [Idle EXCEPT !.pc = "recover", !.boot = TRUE] \in Ops
      /\ [Idle EXCEPT !.pc = "idle", !.boot = FALSE] \in Ops
  BY <1>2, PcsAre DEF Ops
<1>5. ASSUME NEW b \in BOOLEAN
      PROVE  [Idle EXCEPT !.pc = IF b THEN "recover" ELSE "idle", !.boot = b] \in Ops
  <2>1. CASE b = TRUE
    BY <1>4, <2>1, Zenon
  <2>2. CASE b = FALSE
    BY <1>4, <2>2, Zenon
  <2> QED
    BY <2>1, <2>2, Zenon
<1> QED
  BY <1>2, <1>3, <1>5

\* TypeOK in parts.
FilesOK ==
  /\ disk \in [Natives -> Values] /\ file \in [Providers -> Values]
  /\ journal = NoJournal \/ journal \in Journals
MemoryOK ==
  /\ doc \in Edits(Natives) /\ base \in Edits(Natives)
  /\ provided \in [Providers -> Values]
  /\ pending \in Edits(Rows) /\ foreign \subseteq Natives
FlagsOK == loaded \in BOOLEAN /\ editing \in BOOLEAN /\ active \in BOOLEAN /\ commitOk \in BOOLEAN /\ restarting \in BOOLEAN
CountsOK == revision \in 0 .. MaxRevision /\ saved \in 0 .. MaxRevision

LEMMA TypeParts == TypeOK <=> FilesOK /\ MemoryOK /\ FlagsOK /\ CountsOK /\ op \in Ops
BY DEF TypeOK, FilesOK, MemoryOK, FlagsOK, CountsOK, Ops

LEMMA InitInv == Init => IInv
<1> SUFFICES ASSUME Init PROVE IInv
  OBVIOUS
<1>1. op \in Ops /\ NoRows \in Edits(Rows)
  BY IdleOps, PcsAre, NoRowsIs DEF Init
<1>2. FilesOK /\ MemoryOK
  <2>1. disk \in Edits(Natives)
    BY EditsMake DEF Init
  <2> QED
    BY <1>1, <2>1 DEF Init, FilesOK, MemoryOK
<1>3. FlagsOK /\ CountsOK
  <2>1. FlagsOK
    BY DEF Init, FlagsOK
  <2>2. CountsOK
    BY RevisionAssumption DEF Init, CountsOK
  <2> QED
    BY <2>1, <2>2
<1>4. TypeOK
  BY <1>1, <1>2, <1>3, TypeParts
<1>5. RevisionFits /\ MemoryInv
  BY DEF Init, RevisionFits, MemoryInv, At, Idle
<1>6. JournalInv /\ EditsInv
  BY DEF Init, JournalInv, EditsInv, At, Idle, Writing
<1> QED
  BY <1>4, <1>5, <1>6 DEF IInv

LEMMA OpStep == TypeOK /\ JournalInv /\ [Next]_vars => op' \in Ops
<1> SUFFICES ASSUME TypeOK, JournalInv, [Next]_vars PROVE op' \in Ops
  OBVIOUS
<1> USE DEF Goes, At, Recovered, Unfinishable, Fails
<1>1. op \in Ops /\ FlagsOK
  BY TypeParts
<1>2. ASSUME NEW S, NEW f \in [S -> Values] PROVE f \in Edits(S)
  BY EditsMake
<1>3. disk \in Edits(Natives) /\ base \in Edits(Natives)
  BY <1>2 DEF TypeOK
<1>4. CASE Boot
  BY <1>4, IdleOps DEF Boot
<1>5. CASE Ends
  BY <1>5, IdleOps, PcsAre DEF Ends
<1>6. CASE NoneInterrupted \/ RecoveryRefuses \/ RecoverySaves
           \/ RecoveryCannotSave \/ RecoveryReloads \/ RecoveryRetires
  <2>1. op' = Idle \/ \E pc \in Pcs : op' = [op EXCEPT !.pc = pc]
    BY <1>6, PcsAre DEF NoneInterrupted, RecoveryRefuses,
       RecoverySaves, RecoveryCannotSave, RecoveryReloads, RecoveryRetires
  <2> QED
    BY <1>1, <2>1, IdleOps, ZenonT(30) DEF Ops
<1>7. CASE RecoveryReads
  BY <1>1, <1>3, <1>7, PcsAre DEF RecoveryReads, Ops
<1>8. CASE CommitBegins
  BY <1>1, <1>8, PcsAre DEF CommitBegins, Ops, TypeOK
<1>9. CASE CommitCannotLock \/ ParkJournal \/ WritesJournal \/ CannotSaveNative
           \/ CommitRefused \/ CannotSaveProvider \/ CommitFinishes
  <2>1. op' = Idle \/ \E pc \in Pcs : op' = [op EXCEPT !.pc = pc]
    BY <1>9, PcsAre DEF CommitCannotLock, ParkJournal, WritesJournal,
       CannotSaveNative, CommitRefused, CannotSaveProvider, CommitFinishes
  <2> QED
    BY <1>1, <2>1, IdleOps, ZenonT(30) DEF Ops
<1>10. CASE CommitSplits
  <2>1. op'.pc \in Pcs /\ op'.native \in Edits(Natives) /\ op'.provider \in Edits(Providers)
    BY PcsAre, <1>10, SplitIs DEF FirstWrite
  <2>2. op' = [op EXCEPT !.native = op'.native, !.provider = op'.provider,
                         !.seen = base, !.pc = op'.pc]
    BY <1>10, SplitIs
  <2> QED
    BY <1>1, <1>3, <2>1, <2>2 DEF Ops
<1>11. CASE SavesNative
  <2>1. disk' \in [Natives -> Values]
    BY <1>11, OverFile DEF SavesNative, TypeOK
  <2>2. disk' \in Edits(Natives) /\ AfterNative \in Pcs
    BY <1>2, <2>1, PcsAre DEF AfterNative
  <2> QED
    BY <1>1, <1>11, <2>2 DEF SavesNative, Ops
<1>12. CASE SavesProvider
  BY <1>1, <1>12, PcsAre DEF SavesProvider, Ops
<1>13. CASE UNCHANGED op
  BY <1>1, <1>13
<1> QED
  BY <1>4, <1>5, <1>6, <1>7, <1>8, <1>9, <1>10, <1>11, <1>12, <1>13 DEF Next, RecoverStep,
     CommitStep, vars, WriterSaves, BeginEdit, CancelEdit, RequestRestart, CancelField, Set,
     CommitNothing

LEMMA JournalTyped ==
  ASSUME TypeOK, WritesJournal
  PROVE  \/ journal' = journal /\ op' = Idle
         \/ Goes("native") /\ journal' \in Journals
<1>1. op.native \in Edits(Natives) /\ op.provider \in Edits(Providers)
  BY DEF TypeOK
<1>2. DOMAIN doc \cap DOMAIN op.native \in SUBSET Natives /\ doc \in [DOMAIN doc -> Values]
  BY <1>1, EditsIs DEF TypeOK
<1>3. Only(doc, DOMAIN op.native) \in [DOMAIN doc \cap DOMAIN op.native -> Values]
  BY <1>2 DEF Only
<1>4. Only(doc, DOMAIN op.native) \in Edits(Natives)
  BY <1>2, <1>3, EditsMake
<1> QED
  BY <1>1, <1>4 DEF WritesJournal, Journals, Fails

LEMMA TypeStep == TypeOK /\ RevisionFits /\ JournalInv /\ [Next]_vars => TypeOK'
<1> SUFFICES ASSUME TypeOK, RevisionFits, JournalInv, [Next]_vars PROVE TypeOK'
  OBVIOUS
<1> USE DEF At, Fails, Load, fileVars, memoryVars, editVars, bridgeVars
<1>1. FilesOK /\ MemoryOK /\ FlagsOK /\ CountsOK /\ op \in Ops
  BY TypeParts
<1>2. NoRows \in Edits(Rows) /\ NoRows \in Edits(Natives) /\ disk \in Edits(Natives)
  BY <1>1, NoRowsIs, EditsMake DEF FilesOK
<1>3. ASSUME RecoverySaves \/ SavesNative \/ CannotSaveNative \/ SavesProvider
      PROVE  /\ disk' \in [Natives -> Values] /\ file' \in [Providers -> Values]
             /\ doc' \in Edits(Natives) /\ base' \in Edits(Natives)
             /\ provided' \in [Providers -> Values]
  <2>1. CASE RecoverySaves
    <3>1. journal.provider \in Edits(Providers)
      BY <2>1 DEF RecoverySaves, JournalInv, TypeOK, Journals
    <3> QED
      BY <2>1, <3>1, OverFile DEF RecoverySaves, TypeOK
  <2>2. CASE SavesNative \/ CannotSaveNative
    <3>1. op.native \in Edits(Natives)
      BY <1>1 DEF Ops
    <3>2. /\ Over(op.native, doc) \in Edits(Natives) /\ Over(op.native, base) \in Edits(Natives)
          /\ Over(op.native, disk) \in [Natives -> Values]
      BY <3>1, OverFile, OverEdits DEF TypeOK
    <3> QED
      BY <2>2, <3>2 DEF SavesNative, CannotSaveNative, TypeOK
  <2>3. CASE SavesProvider
    <3>1. op.provider \in Edits(Providers)
      BY <1>1 DEF Ops
    <3> QED
      BY <2>3, <3>1, OverFile DEF SavesProvider, TypeOK
  <2> QED
    BY <1>3, <2>1, <2>2, <2>3
<1>4. ASSUME WritesJournal PROVE journal' = journal \/ journal' \in Journals
  BY <1>4, JournalTyped
<1>5. FilesOK'
  <2>1. CASE RecoverySaves \/ SavesNative \/ CannotSaveNative \/ SavesProvider
    BY <1>1, <1>3, <2>1 DEF RecoverySaves, SavesNative, CannotSaveNative, SavesProvider, FilesOK
  <2>2. CASE WritesJournal
    BY <1>1, <1>4, <2>2 DEF WritesJournal, FilesOK
  <2>3. CASE RecoveryRetires \/ ParkJournal \/ CommitRefused \/ CommitFinishes
    BY <1>1, <2>3 DEF RecoveryRetires, ParkJournal, CommitRefused, CommitFinishes, FilesOK
  <2>4. ASSUME NEW n \in Natives, NEW v \in Values, WriterSaves(n, v) PROVE FilesOK'
    BY <1>1, <2>4 DEF WriterSaves, FilesOK
  <2>5. CASE UNCHANGED fileVars
    BY <1>1, <2>5 DEF FilesOK
  <2> QED
    BY <2>1, <2>2, <2>3, <2>4, <2>5 DEF Next, RecoverStep, CommitStep, vars, Boot, Ends,
       BeginEdit, CancelEdit, RequestRestart, CancelField, Set, NoneInterrupted,
       RecoveryReads, RecoveryRefuses, RecoveryCannotSave, RecoveryReloads, CommitNothing,
       CommitBegins, CommitCannotLock, CommitSplits, CannotSaveProvider
<1>6. MemoryOK'
  <2>1. CASE RecoverySaves \/ SavesNative \/ CannotSaveNative \/ SavesProvider
    BY <1>1, <1>3, <2>1 DEF RecoverySaves, SavesNative, CannotSaveNative, SavesProvider, MemoryOK
  <2>2. CASE Boot \/ Ends \/ RecoveryReloads \/ CommitRefused
    BY <1>1, <1>2, <2>2 DEF Boot, Ends, RecoveryReloads, CommitRefused, MemoryOK, FilesOK
  <2>3. CASE BeginEdit \/ CancelEdit \/ CommitFinishes
    BY <1>1, <1>2, <2>3 DEF BeginEdit, CancelEdit, CommitFinishes, MemoryOK
  <2>4. ASSUME NEW n \in Natives, NEW v \in Values, WriterSaves(n, v) PROVE MemoryOK'
    BY <1>1, <2>4 DEF WriterSaves, MemoryOK
  <2>5. ASSUME NEW r \in Rows, NEW v \in Values, Set(r, v) PROVE MemoryOK'
    <3>1. DOMAIN pending \subseteq Rows /\ pending \in [DOMAIN pending -> Values]
      BY <1>1, EditsIs DEF MemoryOK
    <3>2. {r} \cup DOMAIN pending \in SUBSET Rows
      BY <3>1
    <3>3. pending' \in [{r} \cup DOMAIN pending -> Values]
      BY <2>5, <3>1 DEF Set, Over
    <3>4. pending' \in Edits(Rows)
      BY <3>2, <3>3, EditsMake
    <3> QED
      BY <1>1, <2>5, <3>4 DEF Set, MemoryOK
  <2>6. ASSUME NEW r \in Rows, CancelField(r) PROVE MemoryOK'
    <3>1. DOMAIN pending \subseteq Rows /\ pending \in [DOMAIN pending -> Values]
      BY <1>1, EditsIs DEF MemoryOK
    <3>2. DOMAIN pending \cap (Rows \ {r}) \in SUBSET Rows
      BY <3>1
    <3>3. pending' \in [DOMAIN pending \cap (Rows \ {r}) -> Values]
      BY <2>6, <3>1 DEF CancelField, Only
    <3>4. pending' \in Edits(Rows)
      BY <3>2, <3>3, EditsMake
    <3> QED
      BY <1>1, <2>6, <3>4 DEF CancelField, MemoryOK
  <2>7. CASE UNCHANGED <<memoryVars, pending, foreign>>
    BY <1>1, <2>7 DEF MemoryOK
  <2>8. CASE CommitNothing
    BY <1>1, <2>8 DEF CommitNothing, MemoryOK
  <2> QED
    BY <2>1, <2>2, <2>3, <2>4, <2>5, <2>6, <2>7, <2>8 DEF Next, RecoverStep, CommitStep, vars,
       RequestRestart, NoneInterrupted, RecoveryReads, RecoveryRefuses, RecoveryCannotSave,
       RecoveryRetires, CommitBegins, CommitCannotLock, ParkJournal, CommitSplits,
       WritesJournal, CannotSaveProvider
<1>7. FlagsOK'
  BY <1>1 DEF FlagsOK, Next, RecoverStep, CommitStep, vars, Boot, Ends, WriterSaves,
     BeginEdit, CancelEdit, RequestRestart, CancelField, Set, CommitNothing, CommitBegins,
     CommitCannotLock, NoneInterrupted, RecoveryReads, RecoveryRefuses, RecoverySaves,
     RecoveryCannotSave, RecoveryReloads, RecoveryRetires, ParkJournal, CommitSplits,
     WritesJournal, SavesNative, CannotSaveNative, CommitRefused, SavesProvider,
     CannotSaveProvider, CommitFinishes
<1>8. CountsOK'
  <2>1. CASE RecoveryReloads
    BY <1>1, <2>1, RevisionAssumption DEF RecoveryReloads, RevisionFits, JournalInv, CountsOK, Ops
  <2>2. CASE CommitFinishes
    BY <1>1, <2>2, RevisionAssumption
       DEF CommitFinishes, AdvancesRevision, RevisionFits, CountsOK, Ops
  <2>3. CASE CommitCannotLock \/ ParkJournal \/ WritesJournal \/ CommitRefused
    BY <1>1, <2>3 DEF CommitCannotLock, ParkJournal, WritesJournal, CommitRefused, CountsOK, Ops
  <2>4. CASE Ends \/ CommitNothing \/ CannotSaveProvider
    BY <1>1, <2>4, RevisionAssumption DEF Ends, CommitNothing, CannotSaveProvider, CountsOK
  <2>5. CASE UNCHANGED <<revision, saved>>
    BY <1>1, <2>5 DEF CountsOK
  <2> QED
    BY <2>1, <2>2, <2>3, <2>4, <2>5 DEF Next, RecoverStep, CommitStep, vars, Boot,
       WriterSaves, BeginEdit, CancelEdit, RequestRestart, CancelField, Set, NoneInterrupted,
       RecoveryReads, RecoveryRefuses, RecoverySaves, RecoveryCannotSave, RecoveryRetires,
       CommitBegins, CommitSplits, SavesNative, CannotSaveNative, SavesProvider
<1>9. op' \in Ops
  BY OpStep
<1>10. (FilesOK /\ MemoryOK /\ FlagsOK /\ CountsOK /\ op \in Ops)' => TypeOK'
  BY TypeParts, PTL
<1> QED
  BY <1>5, <1>6, <1>7, <1>8, <1>9, <1>10

\* Where a step takes the operation.
LEMMA IdleIs ==
  /\ Idle.pc = "idle" /\ Idle.boot = FALSE
  /\ \A pc : [Idle EXCEPT !.pc = pc].pc = pc /\ [Idle EXCEPT !.pc = pc].boot = FALSE
  /\ \A pc, b : /\ [Idle EXCEPT !.pc = pc, !.boot = b].pc = pc
               /\ [Idle EXCEPT !.pc = pc, !.boot = b].boot = b
BY DEF Idle

LEMMA Moves ==
  ASSUME TypeOK, NEW pc, op' = [op EXCEPT !.pc = pc]
  PROVE  /\ op'.pc = pc /\ op'.boot = op.boot /\ op'.before = op.before
         /\ op'.native = op.native /\ op'.provider = op.provider /\ op'.seen = op.seen
BY DEF TypeOK

LEMMA RevisionStep == IInv /\ [Next]_vars => RevisionFits'
<1> SUFFICES ASSUME IInv, [Next]_vars PROVE RevisionFits'
  OBVIOUS
<1> USE DEF At, RevisionFits
<1>1. TypeOK /\ RevisionFits
  BY DEF IInv
<1>2. /\ op.pc \in Pcs /\ op.boot \in BOOLEAN /\ op.before \in Nat /\ revision \in Nat
      /\ MaxRevision \in Nat
  BY <1>1, RevisionAssumption DEF TypeOK
<1>3. ASSUME Goes("split") \/ Goes("park") PROVE op'.pc \in {"split", "park"} /\ op'.boot = op.boot
                                                /\ op'.before = op.before
  BY <1>1, <1>3 DEF Goes, TypeOK
<1>4. CASE Boot
  BY <1>1, <1>4, IdleIs DEF Boot, fileVars, editVars, bridgeVars
<1>5. CASE Ends
  BY <1>1, <1>5, IdleIs DEF Ends, fileVars
<1>6. CASE UNCHANGED <<journal, revision, op>>
  BY <1>1, <1>6
<1>7. CASE NoneInterrupted \/ RecoveryRefuses \/ RecoveryCannotSave \/ RecoveryRetires
  <2>1. revision' = revision /\ (journal' = journal \/ journal' = NoJournal)
    BY <1>7 DEF NoneInterrupted, RecoveryRefuses, RecoveryCannotSave, RecoveryRetires, fileVars
  <2>2. op.pc \in {"recover", "replay", "retire"}
    BY <1>7 DEF NoneInterrupted, RecoveryRefuses, RecoveryCannotSave, RecoveryRetires
  <2>3. op' = Idle \/ (~op.boot /\ (Goes("split") \/ Goes("park")))
    BY <1>7, <1>2 DEF NoneInterrupted, RecoveryRefuses, RecoveryCannotSave, RecoveryRetires,
       Recovered, Unfinishable
  <2>4. CASE op' = Idle
    BY <1>1, <2>1, <2>4, IdleIs
  <2>5. CASE ~op.boot /\ (Goes("split") \/ Goes("park"))
    BY <1>1, <1>3, <2>1, <2>2, <2>5
  <2> QED
    BY <2>3, <2>4, <2>5
<1>8. CASE RecoveryReads
  <2>1. /\ op'.pc \in {"replay", "retire"} /\ op'.boot = op.boot /\ op'.before = op.before
        /\ op.pc = "recover" /\ UNCHANGED <<journal, revision>>
    BY <1>1, <1>8 DEF RecoveryReads, TypeOK, fileVars
  <2> QED
    BY <1>1, <1>2, <2>1
<1>9. CASE RecoverySaves
  <2>1. /\ op'.pc = "reload" /\ op'.boot = op.boot /\ op'.before = op.before
        /\ op.pc = "replay" /\ UNCHANGED <<journal, revision>>
    BY <1>1, <1>9, Moves DEF RecoverySaves, Goes
  <2> QED
    BY <1>1, <2>1
<1>10. CASE RecoveryReloads
  <2>1. /\ op'.pc = "retire" /\ op'.boot = op.boot /\ op'.before = op.before
        /\ op.pc = "reload" /\ journal' = journal /\ revision' = revision + 1
    BY <1>1, <1>10, Moves DEF RecoveryReloads, Goes, fileVars
  <2> QED
    BY <1>1, <1>2, <2>1
<1>11. CASE CommitBegins
  <2>1. /\ op'.pc = "recover" /\ op'.boot = op.boot /\ op'.before = revision
        /\ op.pc = "idle" /\ revision < MaxRevision /\ UNCHANGED <<journal, revision>>
    BY <1>1, <1>11 DEF CommitBegins, TypeOK, fileVars
  <2> QED
    BY <1>1, <2>1
<1>12. CASE WritesJournal
  <2>1. op.pc = "journal" /\ revision' = revision
    BY <1>12 DEF WritesJournal
  <2>2. ~op.boot /\ MaxRevision > 0
    BY <1>1, <1>2, <2>1
  <2>3. op' = Idle \/ (op'.pc = "native" /\ op'.boot = op.boot /\ op'.before = op.before)
    BY <1>1, <1>12, Moves DEF WritesJournal, Goes, Fails
  <2> QED
    BY <1>1, <2>1, <2>2, <2>3, IdleIs
<1>13. CASE ParkJournal
  <2>1. /\ op.pc = "park" /\ revision' = revision
        /\ (journal' = journal \/ journal' = NoJournal)
    BY <1>13 DEF ParkJournal
  <2>2. op' = Idle \/ Goes("split")
    BY <1>13 DEF ParkJournal, Fails
  <2> QED
    BY <1>1, <1>3, <2>1, <2>2, IdleIs
<1>14. CASE CommitSplits \/ SavesNative \/ CannotSaveNative \/ SavesProvider
  <2>1. /\ op.pc \in {"split", "native", "provider"} /\ UNCHANGED <<journal, revision>>
    BY <1>14 DEF CommitSplits, SavesNative, CannotSaveNative, SavesProvider, fileVars
  <2>2. op'.boot = op.boot /\ op'.before = op.before
    <3>1. CASE CommitSplits
      BY <1>1, <3>1 DEF CommitSplits, TypeOK
    <3>2. CASE SavesNative
      BY <1>1, <3>2 DEF SavesNative, TypeOK
    <3>3. CASE CannotSaveNative
      BY <1>1, <3>3, Moves DEF CannotSaveNative, Goes
    <3>4. CASE SavesProvider
      BY <1>1, <3>4 DEF SavesProvider, TypeOK
    <3> QED
      BY <1>14, <3>1, <3>2, <3>3, <3>4
  <2>3. op'.pc \in {"journal", "native", "refused", "provider", "finish"}
    <3>1. CASE CommitSplits
      BY <1>1, <3>1, SplitIs DEF FirstWrite
    <3>2. CASE SavesNative
      BY <1>1, <3>2 DEF SavesNative, AfterNative, TypeOK
    <3>3. CASE CannotSaveNative
      BY <1>1, <3>3, Moves DEF CannotSaveNative, Goes
    <3>4. CASE SavesProvider
      BY <1>1, <3>4 DEF SavesProvider, TypeOK
    <3> QED
      BY <1>14, <3>1, <3>2, <3>3, <3>4
  <2> QED
    BY <1>1, <2>1, <2>2, <2>3
<1>15. CASE CommitCannotLock \/ CommitRefused \/ CannotSaveProvider \/ CommitFinishes
  <2>1. op' = Idle /\ (journal' = journal \/ journal' = NoJournal)
    BY <1>15 DEF CommitCannotLock, CommitRefused, CannotSaveProvider, CommitFinishes, Fails,
       fileVars
  <2> QED
    BY <1>1, <2>1, IdleIs
<1> QED
  BY <1>4, <1>5, <1>6, <1>7, <1>8, <1>9, <1>10, <1>11, <1>12, <1>13, <1>14, <1>15 DEF Next,
     RecoverStep, CommitStep, vars, fileVars, WriterSaves, BeginEdit, CancelEdit,
     RequestRestart, CancelField, Set, CommitNothing

-----------------------------------------------------------------------------
(* The service's memory                                                    *)

LEMMA MemoryStep == IInv /\ [Next]_vars => MemoryInv'
<1> SUFFICES ASSUME IInv, [Next]_vars PROVE MemoryInv'
  OBVIOUS
<1> USE DEF At, MemoryInv
<1>1. TypeOK /\ MemoryInv
  BY DEF IInv
<1>2. CASE Boot \/ Ends
  BY <1>1, <1>2, IdleIs DEF Boot, Ends, Load, fileVars, TypeOK
<1>3. CASE RecoverySaves
  <2>1. op.pc = "replay" /\ op'.pc = "reload"
    BY <1>1, <1>3, Moves DEF RecoverySaves, Goes
  <2> QED
    BY <1>1, <1>3, <2>1 DEF RecoverySaves
<1>4. CASE RecoveryReloads \/ CommitRefused
  BY <1>1, <1>4 DEF RecoveryReloads, CommitRefused, Load, fileVars, TypeOK
<1>5. CASE SavesNative
  <2>1. op.native \in Edits(Natives) /\ op.pc = "native"
    BY <1>1, <1>5 DEF TypeOK, SavesNative
  <2>4. loaded /\ base \in [Natives -> Values]
    <3>1. op.native # NoRows
      BY <2>1 DEF IInv, JournalInv
    <3>2. DOMAIN op.native # {}
      BY <2>1, <3>1, EditsIs DEF NoRows
    <3>3. base # NoRows
      BY <1>5, <3>2, NoRowsIs DEF SavesNative, NoConflict
    <3> QED
      BY <1>1, <3>3
  <2>2. /\ base' \in [Natives -> Values]
        /\ \A r \in Natives : disk'[r] = IF r \in DOMAIN op.native THEN op.native[r] ELSE disk[r]
        /\ \A r \in Natives : base'[r] = IF r \in DOMAIN op.native THEN op.native[r] ELSE base[r]
    BY <1>1, <1>5, <2>1, <2>4, OverFile DEF SavesNative, TypeOK
  <2>3. doc' = base' /\ UNCHANGED <<provided, file, foreign, loaded>>
    BY <1>1, <1>5, <2>1 DEF SavesNative
  <2> QED
    BY <1>1, <2>2, <2>3, <2>4
<1>6. CASE CannotSaveNative
  <2>1. op'.pc = "refused"
    BY <1>1, <1>6, Moves DEF CannotSaveNative, Goes
  <2> QED
    BY <1>1, <1>6, <2>1 DEF CannotSaveNative, fileVars
<1>7. CASE SavesProvider
  <2>1. op.pc = "provider"
    BY <1>7 DEF SavesProvider
  <2> QED
    BY <1>1, <1>7, <2>1 DEF SavesProvider
<1>8. ASSUME NEW n \in Natives, NEW v \in Values, WriterSaves(n, v) PROVE MemoryInv'
  BY <1>1, <1>8 DEF WriterSaves, memoryVars, TypeOK
<1>9. CASE /\ UNCHANGED <<disk, file, memoryVars, foreign>>
           /\ At("refused") => op'.pc = "refused"
  BY <1>1, <1>9 DEF memoryVars
<1> QED
  BY <1>2, <1>3, <1>4, <1>5, <1>6, <1>7, <1>8, <1>9 DEF Next, RecoverStep, CommitStep, vars,
     fileVars, BeginEdit, CancelEdit, RequestRestart, CancelField, Set, CommitNothing,
     NoneInterrupted, RecoveryReads, RecoveryRefuses, RecoveryCannotSave, RecoveryRetires,
     CommitBegins, CommitCannotLock, ParkJournal, CommitSplits, WritesJournal,
     CannotSaveProvider, CommitFinishes

-----------------------------------------------------------------------------
(* The journal                                                             *)

Quiet == {"off", "idle", "recover", "park"}

LEMMA JournalStep == IInv /\ [Next]_vars => JournalInv'
<1> SUFFICES ASSUME IInv, [Next]_vars PROVE JournalInv'
  OBVIOUS
<1> USE DEF At, JournalInv
<1>1. TypeOK /\ MemoryInv /\ JournalInv
  BY DEF IInv
<1>2. /\ op.native \in Edits(Natives) /\ op.provider \in Edits(Providers)
      /\ journal # NoJournal => journal.provider \in Edits(Providers)
  BY <1>1 DEF TypeOK, Journals
<1>3. DOMAIN NoRows = {}
  BY NoRowsIs
<1>4. CASE op'.pc \in Quiet
  BY <1>4 DEF Quiet
<1>5. CASE UNCHANGED <<op, journal, file>>
  BY <1>1, <1>5 DEF JournalIsOps, Agrees
<1>6. CASE NoneInterrupted \/ RecoveryRetires \/ ParkJournal
  <2>1. /\ op' = Idle \/ Goes("park") \/ (Goes("split") /\ journal' = NoJournal)
    BY <1>6 DEF NoneInterrupted, RecoveryRetires, ParkJournal, Recovered, Unfinishable, Fails,
       fileVars
  <2>2. op'.pc \in Quiet \/ (op'.pc = "split" /\ journal' = NoJournal)
    BY <1>1, <2>1, IdleIs, Moves DEF Goes, Quiet
  <2> QED
    BY <1>4, <2>2
<1>7. CASE RecoveryReads
  <2>1. journal' = journal /\ journal # NoJournal
    BY <1>7 DEF RecoveryReads, fileVars
  <2>2. CASE Committed(disk) /\ op' = [op EXCEPT !.pc = "replay", !.seen = disk]
    <3>1. op'.pc = "replay" /\ op'.seen = disk
      BY <1>1, <2>2 DEF TypeOK
    <3>2. Agrees(journal.native, disk)
      BY <2>2 DEF Committed
    <3> QED
      BY <2>1, <3>1, <3>2
  <2>3. CASE ~Committed(disk) /\ op' = [op EXCEPT !.pc = "retire", !.seen = disk]
    <3>1. op'.pc = "retire" /\ op'.seen = disk
      BY <1>1, <2>3 DEF TypeOK
    <3>2. ~Agrees(journal.native, disk)
      BY <2>3 DEF Committed
    <3> QED
      BY <2>1, <3>1, <3>2
  <2> QED
    BY <1>7, <2>2, <2>3 DEF RecoveryReads
<1>8. CASE RecoverySaves
  <2>1. /\ op.pc = "replay" /\ op'.pc = "reload" /\ op'.seen = op.seen /\ journal' = journal
        /\ file' = Over(journal.provider, file)
    BY <1>1, <1>8, Moves DEF RecoverySaves, Goes
  <2>2. Agrees(journal.provider, file')
    BY <1>1, <1>2, <2>1, OverFile DEF TypeOK
  <2> QED
    BY <1>1, <2>1, <2>2
<1>9. CASE RecoveryReloads
  <2>1. /\ op.pc = "reload" /\ op'.pc = "retire" /\ UNCHANGED <<journal, file>>
    BY <1>1, <1>9, Moves DEF RecoveryReloads, Goes, fileVars
  <2> QED
    BY <1>1, <2>1
<1>10. CASE CommitSplits
  <2>1. op.pc = "split" /\ journal' = journal /\ journal = NoJournal
    BY <1>1, <1>10 DEF CommitSplits, fileVars
  <2>2. op'.seen = base
    BY <1>1, <1>10 DEF CommitSplits, TypeOK
  <2>3. \A r \in DOMAIN op'.native \cap DOMAIN base : op'.native[r] # base[r]
    <3>1. op'.native \in Edits(Natives)
      BY <1>1, <1>10, SplitIs
    <3>2. DOMAIN op'.native \subseteq Natives
      BY <3>1, EditsIs
    <3>3. \A r \in Natives \cap DOMAIN base : RequestedValue[r] = base[r]
      BY <1>1, <2>1, Requested DEF TypeOK, MemoryInv
    <3> QED
      BY <1>1, <1>10, <3>2, <3>3, SplitIs
  <2>4. op'.pc = FirstWrite(op'.native, op'.provider)
    BY <1>1, <1>10, SplitIs
  <2>5. /\ op'.pc \in {"journal", "native", "provider", "finish"}
        /\ op'.pc = "journal" => op'.native # NoRows /\ op'.provider # NoRows
        /\ op'.pc = "native" => op'.native # NoRows /\ op'.provider = NoRows
        /\ op'.pc \in {"provider", "finish"} => op'.native = NoRows
        /\ op'.pc = "finish" => op'.provider = NoRows
    BY <2>4 DEF FirstWrite
  <2>6. /\ op'.pc \in {"provider", "finish"} => Agrees(op'.native, op'.seen)
        /\ op'.pc = "finish" => Agrees(op'.provider, file')
    BY <1>3, <2>5 DEF Agrees
  <2> QED
    BY <2>1, <2>2, <2>3, <2>5, <2>6 DEF JournalIsOps
<1>11. CASE WritesJournal
  <2>1. CASE op' = Idle
    BY <1>4, <2>1, IdleIs DEF Quiet
  <2>2. CASE Goes("native") /\ journal' = [native |-> op.native,
                               base |-> Only(doc, DOMAIN op.native), provider |-> op.provider]
    <3>1. /\ op'.pc = "native" /\ op'.native = op.native /\ op'.provider = op.provider
          /\ op'.seen = op.seen /\ op.pc = "journal"
      BY <1>1, <1>11, <2>2, Moves DEF Goes, WritesJournal
    <3>2. journal' # NoJournal
      <4>1. op' # Idle
        BY <3>1, IdleIs
      <4>2. journal' \in Journals
        BY <1>1, <1>11, <4>1, JournalTyped
      <4> QED
        BY <4>2, JournalAssumption
    <3> QED
      BY <1>1, <2>2, <3>1, <3>2 DEF JournalIsOps
  <2> QED
    BY <1>11, <2>1, <2>2 DEF WritesJournal, Fails
<1>12. CASE SavesNative
  <2>1. /\ op.pc = "native" /\ disk' = Over(op.native, disk) /\ UNCHANGED <<journal, file>>
    BY <1>12 DEF SavesNative
  <2>2. /\ op'.pc = AfterNative /\ op'.native = op.native /\ op'.provider = op.provider
        /\ op'.seen = disk'
    BY <1>1, <1>12 DEF SavesNative, TypeOK
  <2>3. Agrees(op.native, disk')
    BY <1>1, <1>2, <2>1, OverFile DEF TypeOK
  <2>4. op'.pc \in {"provider", "finish"} /\ (op'.pc = "finish" => op.provider = NoRows)
    BY <2>2 DEF AfterNative
  <2>5. op'.pc = "finish" => Agrees(op.provider, file')
    BY <1>3, <2>4 DEF Agrees
  <2> QED
    BY <1>1, <2>1, <2>2, <2>3, <2>4, <2>5 DEF JournalIsOps
<1>13. CASE CannotSaveNative
  <2>1. /\ op.pc = "native" /\ op'.pc = "refused" /\ op'.native = op.native
        /\ op'.provider = op.provider /\ op'.seen = op.seen /\ journal' = journal
    BY <1>1, <1>13, Moves DEF CannotSaveNative, Goes, fileVars
  <2> QED
    BY <1>1, <2>1 DEF JournalIsOps
<1>14. CASE SavesProvider
  <2>1. /\ op.pc = "provider" /\ file' = Over(op.provider, file) /\ journal' = journal
    BY <1>14 DEF SavesProvider
  <2>2. /\ op'.pc = "finish" /\ op'.native = op.native /\ op'.provider = op.provider
        /\ op'.seen = op.seen
    BY <1>1, <1>14 DEF SavesProvider, TypeOK
  <2>3. Agrees(op.provider, file')
    BY <1>1, <1>2, <2>1, OverFile DEF TypeOK
  <2> QED
    BY <1>1, <2>1, <2>2, <2>3 DEF JournalIsOps
<1>15. CASE \/ Boot \/ Ends \/ RecoveryRefuses \/ RecoveryCannotSave \/ CommitBegins
            \/ CommitCannotLock \/ CommitRefused \/ CannotSaveProvider \/ CommitFinishes
  <2>1. CASE Boot \/ Ends
    <3>1. CASE Boot
      <4>1. op'.pc = IF active' THEN "recover" ELSE "idle"
        BY <3>1, IdleIs DEF Boot
      <4> QED
        BY <1>4, <4>1 DEF Quiet
    <3>2. CASE Ends
      BY <1>4, <3>2, IdleIs DEF Ends, Quiet
    <3> QED
      BY <2>1, <3>1, <3>2
  <2>2. CASE RecoveryRefuses \/ RecoveryCannotSave
    <3>1. op' = Idle \/ Goes("park")
      BY <2>2 DEF RecoveryRefuses, RecoveryCannotSave, Unfinishable
    <3> QED
      BY <1>1, <1>4, <3>1, IdleIs, Moves DEF Goes, Quiet
  <2>3. CASE CommitBegins
    <3>1. op'.pc = "recover"
      BY <1>1, <2>3 DEF CommitBegins, TypeOK
    <3> QED
      BY <1>4, <3>1 DEF Quiet
  <2>4. CASE CommitCannotLock \/ CommitRefused \/ CannotSaveProvider \/ CommitFinishes
    <3>1. op' = Idle
      BY <2>4 DEF CommitCannotLock, CommitRefused, CannotSaveProvider, CommitFinishes, Fails
    <3> QED
      BY <1>4, <3>1, IdleIs DEF Quiet
  <2> QED
    BY <1>15, <2>1, <2>2, <2>3, <2>4
<1> QED
  BY <1>5, <1>6, <1>7, <1>8, <1>9, <1>10, <1>11, <1>12, <1>13, <1>14, <1>15 DEF Next,
     RecoverStep, CommitStep, vars, fileVars, WriterSaves, BeginEdit, CancelEdit,
     RequestRestart, CancelField, Set, CommitNothing

-----------------------------------------------------------------------------
(* The edits                                                               *)

LEMMA EditsStep == IInv /\ [Next]_vars => EditsInv'
<1> SUFFICES ASSUME IInv, [Next]_vars PROVE EditsInv'
  OBVIOUS
<1> USE DEF At, EditsInv, Writing
<1>1. TypeOK /\ JournalInv /\ EditsInv
  BY DEF IInv
<1>2. /\ op.native \in Edits(Natives) /\ op.provider \in Edits(Providers)
      /\ DOMAIN op.native \subseteq Natives /\ DOMAIN op.provider \subseteq Providers
      /\ doc \in Edits(Natives) /\ provided \in [Providers -> Values]
      /\ DOMAIN pending \subseteq Rows
  BY <1>1, EditsIs DEF TypeOK
<1>3. DOMAIN NoRows = {}
  BY NoRowsIs
<1>4. /\ \A r \in Natives :
           RequestedValue[r] = IF r \in DOMAIN doc THEN doc[r] ELSE Default[r]
      /\ \A r \in Providers : RequestedValue[r] = provided[r]
  BY <1>2, Requested
<1>5. /\ \A r \in Natives :
           RequestedValue'[r] = IF r \in DOMAIN doc' THEN doc'[r] ELSE Default[r]
      /\ \A r \in Providers : RequestedValue'[r] = provided'[r]
  <2>1. TypeOK'
    BY TypeStep DEF IInv
  <2>2. doc' \in Edits(Natives) /\ provided' \in [Providers -> Values]
    BY <2>1 DEF TypeOK
  <2> QED
    BY <2>2, RequestedIs DEF RequestedValue
<1>6. CASE op'.pc \notin Writing
  BY <1>6
<1>7. CASE UNCHANGED <<op, pending, doc, provided>>
  BY <1>1, <1>7 DEF Agrees, RequestedValue
<1>8. CASE op.pc = "idle" /\ op' = op
  BY <1>6, <1>8
<1>9. CASE CommitSplits
  <2>1. UNCHANGED <<pending, doc, provided>> /\ RequestedValue' = RequestedValue
    BY <1>9 DEF CommitSplits, memoryVars, editVars, RequestedValue
  <2>2. /\ DOMAIN op'.native \cup DOMAIN op'.provider \subseteq DOMAIN pending
        /\ Agrees(op'.native, pending) /\ Agrees(op'.provider, pending)
    BY <1>1, <1>9, SplitIs DEF Agrees
  <2>3. \A r \in DOMAIN pending \ (DOMAIN op'.native \cup DOMAIN op'.provider) :
          pending[r] = RequestedValue[r]
    BY <1>1, <1>9, SplitIs
  <2>4. op'.pc = FirstWrite(op'.native, op'.provider)
    BY <1>1, <1>9, SplitIs
  <2>5. /\ op'.pc \in {"provider", "finish"} => op'.native = NoRows
        /\ op'.pc = "finish" => op'.provider = NoRows
    BY <2>4 DEF FirstWrite
  <2>6. /\ op'.pc \in {"provider", "finish"} => Agrees(op'.native, RequestedValue')
        /\ op'.pc = "finish" => Agrees(op'.provider, RequestedValue')
    BY <1>3, <2>5 DEF Agrees
  <2> QED
    BY <2>1, <2>2, <2>3, <2>6 DEF Agrees
<1>10. CASE WritesJournal
  <2>1. CASE op' = Idle
    BY <1>6, <2>1, IdleIs
  <2>2. CASE Goes("native") /\ UNCHANGED editVars
    <3>1. /\ op'.pc = "native" /\ op'.native = op.native /\ op'.provider = op.provider
          /\ op.pc = "journal" /\ UNCHANGED <<pending, doc, provided>>
      BY <1>1, <1>10, <2>2, Moves DEF Goes, WritesJournal, memoryVars, editVars
    <3> QED
      BY <1>1, <3>1 DEF Agrees, RequestedValue
  <2> QED
    BY <1>10, <2>1, <2>2 DEF WritesJournal, Fails
<1>11. CASE SavesNative
  <2>1. /\ op.pc = "native" /\ doc' = Over(op.native, doc) /\ UNCHANGED <<provided, pending>>
    BY <1>11 DEF SavesNative, editVars
  <2>2. /\ op'.pc \in {"provider", "finish"} /\ op'.native = op.native
        /\ op'.provider = op.provider
        /\ op'.pc = "finish" => op.provider = NoRows
    BY <1>1, <1>11 DEF SavesNative, AfterNative, TypeOK
  <2>3. /\ DOMAIN doc' = DOMAIN op.native \cup DOMAIN doc
        /\ \A r \in DOMAIN doc' : doc'[r] = IF r \in DOMAIN op.native THEN op.native[r] ELSE doc[r]
    <3> DEFINE after == Over(op.native, doc)
    <3>1. /\ DOMAIN after = DOMAIN op.native \cup DOMAIN doc
          /\ \A r \in DOMAIN op.native \cup DOMAIN doc :
               after[r] = IF r \in DOMAIN op.native THEN op.native[r] ELSE doc[r]
      BY DEF Over
    <3>2. doc' = after
      BY <2>1
    <3> HIDE DEF after
    <3> QED
      BY <3>1, <3>2
  <2>6. Agrees(op.native, RequestedValue')
    BY <1>2, <1>5, <2>3 DEF Agrees
  <2>4. op'.pc = "finish" => Agrees(op.provider, RequestedValue')
    BY <1>3, <2>2 DEF Agrees
  <2>5. \A r \in DOMAIN pending \ (DOMAIN op.native \cup DOMAIN op.provider) :
          pending[r] = RequestedValue'[r]
    <3>1. \A r \in Rows \ DOMAIN op.native : RequestedValue'[r] = RequestedValue[r]
      BY <1>4, <1>5, <2>1, <2>3 DEF Rows
    <3> QED
      BY <1>1, <1>2, <2>1, <3>1
  <2> QED
    BY <1>1, <2>1, <2>2, <2>4, <2>5, <2>6 DEF Agrees
<1>12. CASE CannotSaveNative
  <2>1. /\ op.pc = "native" /\ op'.pc = "refused" /\ op'.native = op.native
        /\ op'.provider = op.provider /\ pending' = pending
    BY <1>1, <1>12, Moves DEF CannotSaveNative, Goes, editVars
  <2> QED
    BY <1>1, <2>1 DEF Agrees
<1>13. CASE SavesProvider
  <2>1. /\ op.pc = "provider" /\ provided' = Over(op.provider, provided)
        /\ UNCHANGED <<doc, pending>>
    BY <1>13 DEF SavesProvider, editVars
  <2>2. op'.pc = "finish" /\ op'.native = op.native /\ op'.provider = op.provider
    BY <1>1, <1>13 DEF SavesProvider, TypeOK
  <2>3. \A r \in Providers :
          provided'[r] = IF r \in DOMAIN op.provider THEN op.provider[r] ELSE provided[r]
    BY <1>2, <2>1, OverFile
  <2>5. Agrees(op.provider, RequestedValue')
    BY <1>2, <1>5, <2>3 DEF Agrees
  <2>6. \A r \in Natives : RequestedValue'[r] = RequestedValue[r]
    BY <1>4, <1>5, <2>1
  <2>7. Agrees(op.native, RequestedValue')
    BY <1>1, <1>2, <2>1, <2>6 DEF Agrees
  <2>4. \A r \in DOMAIN pending \ (DOMAIN op.native \cup DOMAIN op.provider) :
          pending[r] = RequestedValue'[r]
    <3>1. \A r \in Rows \ DOMAIN op.provider : RequestedValue'[r] = RequestedValue[r]
      BY <1>4, <1>5, <2>3, <2>6 DEF Rows
    <3> QED
      BY <1>1, <1>2, <2>1, <3>1
  <2> QED
    BY <1>1, <2>1, <2>2, <2>4, <2>5, <2>7
<1>14. CASE op'.pc \in {"off", "idle", "recover", "replay", "reload", "retire", "park", "split"}
  BY <1>6, <1>14
<1>15. CASE Boot \/ Ends \/ RecoverStep
  <2>1. CASE Boot
    <3>1. op'.pc = IF active' THEN "recover" ELSE "idle"
      BY <2>1, IdleIs DEF Boot
    <3> QED
      BY <1>14, <3>1
  <2>2. CASE Ends
    BY <1>14, <2>2, IdleIs DEF Ends
  <2>3. CASE RecoveryReads
    <3>1. op'.pc \in {"replay", "retire"}
      BY <1>1, <2>3 DEF RecoveryReads, TypeOK
    <3> QED
      BY <1>14, <3>1
  <2>4. CASE \/ NoneInterrupted \/ RecoveryRefuses \/ RecoverySaves \/ RecoveryCannotSave
             \/ RecoveryReloads \/ RecoveryRetires
    <3>1. op' = Idle \/ \E pc \in {"split", "park", "reload", "retire"} : Goes(pc)
      BY <2>4 DEF NoneInterrupted, RecoveryRefuses, RecoverySaves, RecoveryCannotSave,
         RecoveryReloads, RecoveryRetires, Recovered, Unfinishable
    <3>2. op'.pc \in {"idle", "split", "park", "reload", "retire"}
      BY <1>1, <3>1, IdleIs, Moves DEF Goes
    <3> QED
      BY <1>14, <3>2
  <2> QED
    BY <1>15, <2>1, <2>2, <2>3, <2>4 DEF RecoverStep
<1>16. CASE \/ CommitBegins \/ CommitCannotLock \/ ParkJournal \/ CommitRefused
            \/ CannotSaveProvider \/ CommitFinishes
  <2>1. CASE CommitBegins
    <3>1. op'.pc = "recover"
      BY <1>1, <2>1 DEF CommitBegins, TypeOK
    <3> QED
      BY <1>14, <3>1
  <2>2. CASE ParkJournal
    <3>1. op' = Idle \/ Goes("split")
      BY <2>2 DEF ParkJournal, Fails
    <3>2. op'.pc \in {"idle", "split"}
      BY <1>1, <3>1, IdleIs, Moves DEF Goes
    <3> QED
      BY <1>14, <3>2
  <2>3. CASE CommitCannotLock \/ CommitRefused \/ CannotSaveProvider \/ CommitFinishes
    <3>1. op' = Idle
      BY <2>3 DEF CommitCannotLock, CommitRefused, CannotSaveProvider, CommitFinishes, Fails
    <3> QED
      BY <1>14, <3>1, IdleIs
  <2> QED
    BY <1>16, <2>1, <2>2, <2>3
<1>17. ASSUME NEW n \in Natives, NEW v \in Values, WriterSaves(n, v) PROVE EditsInv'
  BY <1>7, <1>17 DEF WriterSaves, memoryVars, editVars
<1>18. CASE BeginEdit \/ CancelEdit \/ RequestRestart \/ CommitNothing
  BY <1>8, <1>18 DEF BeginEdit, CancelEdit, RequestRestart, CommitNothing
<1>19. ASSUME NEW r \in Rows, CancelField(r) \/ \E v \in Values : Set(r, v) PROVE EditsInv'
  BY <1>8, <1>19 DEF CancelField, Set
<1>20. CASE UNCHANGED vars
  BY <1>7, <1>20 DEF vars, memoryVars, editVars
<1> QED
  BY <1>9, <1>10, <1>11, <1>12, <1>13, <1>15, <1>16, <1>17, <1>18, <1>19, <1>20
     DEF Next, CommitStep

LEMMA InvStep == IInv /\ [Next]_vars => IInv'
BY TypeStep, RevisionStep, MemoryStep, JournalStep, EditsStep DEF IInv

LEMMA InvAlways == Spec => []IInv
BY InitInv, InvStep, PTL DEF Spec

-----------------------------------------------------------------------------
(* The theorems                                                            *)

\* Every file, the service's memory and a commit's locals keep their shapes, and no
\* commit counts past the bound, in every state of Commit, RecoverCommit and the bridge.
THEOREM TypeCorrect == Spec => []TypeOK
BY InvAlways, PTL DEF IInv

LEMMA DurableIs == IInv => RequestedIsDurable
<1> SUFFICES ASSUME IInv, op.pc = "idle" PROVE RequestedIsDurable
  BY DEF RequestedIsDurable, At
<1>1. /\ provided = file /\ doc = base
      /\ loaded => /\ base \in [Natives -> Values]
                   /\ \A n \in Natives \ foreign : base[n] = disk[n]
      /\ ~loaded => base = NoRows
  BY DEF IInv, MemoryInv, At
<1>2. /\ \A r \in Natives :
           RequestedValue[r] = IF r \in DOMAIN doc THEN doc[r] ELSE Default[r]
      /\ \A r \in Providers : RequestedValue[r] = provided[r]
  BY Requested DEF IInv, TypeOK
<1>3. DOMAIN NoRows = {}
  BY NoRowsIs
<1> QED
  BY <1>1, <1>2, <1>3 DEF RequestedIsDurable

\* Between operations no edit of a failed or partial commit is left in memory that no
\* file holds: what the service reports as requested is what the files hold, but for
\* rows another writer saved since the last load (Commit's reloads, service.cpp), and
\* the compiled defaults of every native row after a load that could not use the file.
THEOREM RequestedIsDurableAlways == Spec => []RequestedIsDurable
BY DurableIs, InvAlways, PTL

\* No commit's end drops an edit it has not made durable: when Commit clears the
\* transaction, the requested values are the edits.
THEOREM EditsNotLostAlways == Spec => EditsNotLost
<1> DEFINE Kept == op.pc # "idle" /\ pending # NoRows /\ pending' = NoRows /\ op'.pc = "idle"
                     => Agrees(pending, RequestedValue')
<1>1. IInv /\ [Next]_vars => Kept
  <2> SUFFICES ASSUME IInv, [Next]_vars, op.pc # "idle", pending # NoRows,
                      pending' = NoRows, op'.pc = "idle"
               PROVE  Agrees(pending, RequestedValue')
    OBVIOUS
  <2>1. TypeOK /\ EditsInv
    BY DEF IInv
  <2>2. CommitFinishes
    <3>1. ~Ends
      BY IdleIs, ZenonT(30) DEF Ends
    <3> QED
      BY <3>1 DEF Next, RecoverStep, CommitStep, vars, editVars, At, Fails, Boot, WriterSaves,
         BeginEdit, CancelEdit, RequestRestart, CancelField, Set, CommitNothing, CommitBegins,
         CommitCannotLock, NoneInterrupted, RecoveryReads, RecoveryRefuses, RecoverySaves,
         RecoveryCannotSave, RecoveryReloads, RecoveryRetires, ParkJournal, CommitSplits,
         WritesJournal, SavesNative, CannotSaveNative, CommitRefused, SavesProvider,
         CannotSaveProvider
  <2>3. op.pc = "finish" /\ RequestedValue' = RequestedValue
    BY <2>2 DEF CommitFinishes, At, memoryVars, RequestedValue
  <2>4. /\ Agrees(op.native, pending) /\ Agrees(op.provider, pending)
        /\ Agrees(op.native, RequestedValue) /\ Agrees(op.provider, RequestedValue)
        /\ \A r \in DOMAIN pending \ (DOMAIN op.native \cup DOMAIN op.provider) :
             pending[r] = RequestedValue[r]
    BY <2>1, <2>3 DEF EditsInv, Writing, At
  <2> QED
    BY <2>3, <2>4 DEF Agrees
<1>2. Spec => [][Kept]_vars
  BY <1>1, InvAlways, PTL DEF Spec
<1> QED
  BY <1>2 DEF EditsNotLost

\* Crash atomicity: what a recovery would leave in the provider's file is moved by no
\* crash, boot, recovery, provider save of a combined commit or journal removal that
\* works on the settings.toml it read.
THEOREM OutcomeMovesAlways == Spec => OutcomeMoves
<1> DEFINE Moved == Outcome' # Outcome =>
                      \/ SavesNative
                      \/ SavesProvider /\ op.native = NoRows
                      \/ \E n \in Natives, v \in Values : WriterSaves(n, v)
                      \/ At("park")
                      \/ (RecoverStep \/ CommitStep) /\ op.seen # disk
<1>1. IInv /\ [Next]_vars => Moved
  <2> SUFFICES ASSUME IInv, [Next]_vars, ~Moved PROVE FALSE
    OBVIOUS
  <2>1. TypeOK /\ JournalInv
    BY DEF IInv
  <2>2. /\ op.native \in Edits(Natives) /\ op.provider \in Edits(Providers)
        /\ journal # NoJournal => journal.provider \in Edits(Providers)
        /\ file \in [Providers -> Values]
    BY <2>1 DEF TypeOK, Journals
  <2>3. Outcome' # Outcome
    OBVIOUS
  <2>4. ~(UNCHANGED fileVars)
    BY <2>3 DEF Outcome, HalfDone, Agrees, fileVars
  <2>5. /\ \/ RecoverySaves \/ RecoveryRetires \/ WritesJournal \/ CommitRefused
           \/ SavesProvider \/ CommitFinishes
        /\ op.seen = disk /\ (SavesProvider => op.native # NoRows)
    <3>1. RecoverStep \/ CommitStep
      BY <2>4 DEF Next, vars, Boot, Ends, WriterSaves, BeginEdit, CancelEdit,
         RequestRestart, CancelField, Set
    <3>2. op.seen = disk /\ ~SavesNative /\ ~At("park") /\ (SavesProvider => op.native # NoRows)
      BY <3>1
    <3> QED
      BY <2>4, <3>1, <3>2 DEF RecoverStep, CommitStep, CommitNothing, CommitBegins,
         CommitCannotLock, NoneInterrupted, RecoveryReads, RecoveryRefuses,
         RecoveryCannotSave, RecoveryReloads, ParkJournal, CommitSplits,
         CannotSaveNative, CannotSaveProvider
  <2>6. ASSUME RecoverySaves PROVE FALSE
    <3>1. /\ journal # NoJournal /\ Agrees(journal.native, disk)
          /\ file' = Over(journal.provider, file) /\ UNCHANGED <<journal, disk>>
      BY <2>1, <2>5, <2>6 DEF RecoverySaves, JournalInv, At
    <3>2. Outcome = Over(journal.provider, file) /\ Outcome' = Over(journal.provider, file')
      BY <3>1 DEF Outcome, HalfDone
    <3> QED
      BY <2>2, <2>3, <3>1, <3>2, OverFile
  <2>7. ASSUME RecoveryRetires PROVE FALSE
    <3>1. /\ Agrees(journal.native, disk) => Agrees(journal.provider, file)
          /\ journal # NoJournal /\ UNCHANGED <<file, disk>>
          /\ journal' = NoJournal \/ journal' = journal
      BY <2>1, <2>5, <2>7 DEF RecoveryRetires, JournalInv, At
    <3>2. Outcome = file
      BY <2>2, <3>1, OverFile DEF Outcome, HalfDone
    <3>3. journal' = NoJournal
      BY <2>4, <3>1 DEF fileVars
    <3> QED
      BY <2>3, <3>1, <3>2, <3>3 DEF Outcome, HalfDone
  <2>8. ASSUME op.pc \in {"journal", "refused"} PROVE ~Agrees(op.native, disk)
    <3>3. DOMAIN op.native \subseteq DOMAIN disk
      BY <2>1, <2>2, EditsIs DEF TypeOK
    <3>1. /\ op.native # NoRows /\ \A r \in DOMAIN op.native : op.native[r] # disk[r]
      BY <2>1, <2>5, <2>8, <3>3 DEF JournalInv, At
    <3>2. DOMAIN op.native # {}
      BY <2>2, <3>1, EditsIs DEF NoRows
    <3> QED
      BY <3>1, <3>2 DEF Agrees
  <2>9. ASSUME WritesJournal PROVE FALSE
    <3>1. /\ op.pc = "journal" /\ journal = NoJournal /\ UNCHANGED <<disk, file>>
          /\ journal' = journal \/ journal'.native = op.native
      BY <2>1, <2>9 DEF WritesJournal, JournalInv, At
    <3>2. Outcome = file
      BY <3>1 DEF Outcome, HalfDone
    <3>3. journal'.native = op.native
      BY <2>4, <3>1 DEF fileVars
    <3>4. ~HalfDone'
      BY <2>8, <3>1, <3>3 DEF HalfDone, Agrees
    <3> QED
      BY <2>3, <3>1, <3>2, <3>4 DEF Outcome
  <2>10. ASSUME CommitRefused PROVE FALSE
    <3>1. /\ op.pc = "refused" /\ UNCHANGED <<disk, file>>
          /\ journal' = NoJournal \/ journal' = journal
          /\ journal = NoJournal \/ journal.native = op.native
      BY <2>1, <2>10 DEF CommitRefused, JournalInv, JournalIsOps, At
    <3>2. journal' = NoJournal /\ journal.native = op.native
      BY <2>4, <3>1 DEF fileVars
    <3>3. ~HalfDone /\ ~HalfDone'
      BY <2>8, <3>1, <3>2 DEF HalfDone
    <3> QED
      BY <2>3, <3>1, <3>3 DEF Outcome
  <2>11. ASSUME SavesProvider PROVE FALSE
    <3>1. /\ file' = Over(op.provider, file) /\ UNCHANGED <<journal, disk>>
          /\ op.native # NoRows /\ JournalIsOps /\ Agrees(op.native, disk)
      BY <2>1, <2>5, <2>11 DEF SavesProvider, JournalInv, At
    <3>2. CASE op.provider = NoRows
      <4>1. Agrees(op.provider, file)
        BY <3>2, NoRowsIs DEF Agrees
      <4>2. file' = file
        BY <2>2, <3>1, <4>1, OverFile
      <4> QED
        BY <2>4, <3>1, <4>2 DEF fileVars
    <3>3. CASE op.provider # NoRows
      <4>1. journal # NoJournal /\ journal.native = op.native /\ journal.provider = op.provider
        BY <3>1, <3>3 DEF JournalIsOps
      <4>2. Outcome = Over(op.provider, file) /\ Outcome' = Over(op.provider, file')
        BY <3>1, <4>1 DEF Outcome, HalfDone
      <4> QED
        BY <2>2, <2>3, <3>1, <4>2, OverFile
    <3> QED
      BY <3>2, <3>3
  <2>12. ASSUME CommitFinishes PROVE FALSE
    <3>1. /\ journal' = NoJournal \/ journal' = journal
          /\ UNCHANGED <<disk, file>> /\ Agrees(op.provider, file)
          /\ journal = NoJournal \/ journal.provider = op.provider
      BY <2>1, <2>12 DEF CommitFinishes, JournalInv, JournalIsOps, At
    <3>2. journal' = NoJournal /\ journal.provider = op.provider
      BY <2>4, <3>1 DEF fileVars
    <3>3. Outcome = file
      BY <2>2, <3>1, <3>2, OverFile DEF Outcome
    <3> QED
      BY <2>3, <3>1, <3>2, <3>3 DEF Outcome, HalfDone
  <2> QED
    BY <2>5, <2>6, <2>7, <2>9, <2>10, <2>11, <2>12
<1>2. Spec => [][Moved]_vars
  BY <1>1, InvAlways, PTL DEF Spec
<1> QED
  BY <1>2 DEF OutcomeMoves
=============================================================================
