-------------------------- MODULE StoreServices_proofs -------------------------
(***************************************************************************)
(* Proofs about the five services of MCStoreServices, for every set of     *)
(* packages, filters, queries and covers and for every bound.  Each service*)
(* has an inductive invariant of its own; what they all promise together   *)
(* is ServicesAreSafe at the end.                                          *)
(***************************************************************************)
EXTENDS MCStoreServices, FiniteSetTheorems, SequenceTheorems, TLAPS

-----------------------------------------------------------------------------
(* The index: what the builder has gathered describes the list and the     *)
(* disk as long as nothing has moved the revision since the builder read   *)
(* it, and everything that makes it untrue, a new list or a deletion,      *)
(* moves the revision before the index is judged again.                    *)

\* The revision the builder read is the current one.
Snapshot == builder.pc \in {"list", "build", "publish"} /\ builder.revision = revision

\* What the builder gathers while its snapshot is current.
BuildIsCurrent ==
  /\ builder.revision <= revision
  /\ builder.pc = "publish" => builder.todo = {}
  /\ builder.pc = "list" => builder.todo = {} /\ builder.found = {}
  /\ Snapshot => builder.found \subseteq disk \cup {deleting}
  /\ Snapshot /\ publisher # "invalidate" =>
       /\ builder.found \cup builder.todo \subseteq paths
       /\ builder.pc # "list" =>
            paths \ absent \subseteq builder.found \cup builder.todo \cup builder.unread

\* Whatever is off the disk has been off it.
AbsentIsKnown ==
  /\ Packages \ disk \subseteq absent
  /\ deleting # None => deleting \notin disk

RevisionsBound == Owed <= MaxRevision

IndexInv == TypeOK /\ RevisionsBound /\ AbsentIsKnown /\ BuildIsCurrent /\ IndexIsCurrent

LEMMA IndexInit == Init => IndexInv
<1> SUFFICES ASSUME Init PROVE IndexInv
  OBVIOUS
<1> USE NullAssumption, RevisionAssumption
<1>1. TypeOK
  <2>1. builder \in [pc : {"wait", "list", "build", "publish", "ended"},
                     revision : 0 .. MaxRevision,
                     todo : SUBSET Packages, found : SUBSET Packages,
                     unread : SUBSET Packages]
    BY DEF Init
  <2> QED BY <2>1 DEF Init, TypeOK
<1> QED
  BY <1>1 DEF Init, IndexInv, RevisionsBound, Owed, AbsentIsKnown, BuildIsCurrent, Snapshot,
     IndexIsCurrent

-----------------------------------------------------------------------------
\* The builder's own steps.
LEMMA BuilderKeeps == ASSUME IndexInv, BuilderStep PROVE IndexInv'
<1> USE NullAssumption, RevisionAssumption
<1> USE DEF indexVars, flagVars, worldVars
<1>1. CASE BuilderTakes
  <2>1. builder'.revision \in {builder.revision, revision} /\ builder'.pc \in {"list", "ended"}
        /\ builder'.todo = (IF builder'.pc = "list" THEN {} ELSE builder.todo)
        /\ builder'.found = (IF builder'.pc = "list" THEN {} ELSE builder.found)
    <3>1. CASE builder' = [builder EXCEPT !.pc = "ended"]
      BY <3>1 DEF IndexInv, TypeOK
    <3>2. CASE builder' = [pc |-> "list", revision |-> revision, todo |-> {}, found |-> {},
                            unread |-> {}]
      BY <3>2
    <3> QED BY <1>1, <3>1, <3>2 DEF BuilderTakes
  <2>2. TypeOK'
    <3>1. builder' \in [pc : {"wait", "list", "build", "publish", "ended"},
                        revision : 0 .. MaxRevision,
                        todo : SUBSET Packages, found : SUBSET Packages,
                        unread : SUBSET Packages]
      BY <1>1 DEF BuilderTakes, IndexInv, TypeOK
    <3> QED BY <1>1, <3>1 DEF BuilderTakes, IndexInv, TypeOK
  <2>3. BuildIsCurrent'
    BY <1>1, <2>1 DEF BuilderTakes, IndexInv, TypeOK, BuildIsCurrent, Snapshot
  <2> QED
    BY <1>1, <2>2, <2>3 DEF BuilderTakes, IndexInv, RevisionsBound, Owed, AbsentIsKnown,
       IndexIsCurrent
<1>2. CASE BuilderLists
  BY <1>2 DEF BuilderLists, IndexInv, TypeOK, RevisionsBound, Owed, AbsentIsKnown,
     BuildIsCurrent, Snapshot, IndexIsCurrent
<1>3. CASE BuilderMounts
  <2>1. CASE builder.todo = {} /\ builder' = [builder EXCEPT !.pc = "publish"]
    BY <1>3, <2>1 DEF BuilderMounts, IndexInv, TypeOK, RevisionsBound, Owed, AbsentIsKnown,
       BuildIsCurrent, Snapshot, IndexIsCurrent
  <2>2. ASSUME NEW p \in builder.todo, NEW read \in SUBSET ({p} \cap disk),
               builder' = [builder EXCEPT !.todo = @ \ {p}, !.found = @ \cup read,
                                          !.unread = @ \cup (({p} \cap disk) \ read)]
        PROVE  IndexInv'
    <3>1. builder'.pc = "build" /\ builder'.revision = builder.revision
          /\ builder'.todo = builder.todo \ {p}
          /\ builder'.found = builder.found \cup read
          /\ builder'.unread = builder.unread \cup (({p} \cap disk) \ read)
      BY <1>3, <2>2 DEF BuilderMounts, IndexInv, TypeOK
    <3>2. TypeOK'
      BY <1>3, <2>2 DEF BuilderMounts, IndexInv, TypeOK
    <3>3. p \in Packages /\ (p \in disk \/ p \in absent)
      BY DEF IndexInv, TypeOK, AbsentIsKnown
    <3>4. BuildIsCurrent'
      BY <1>3, <3>1, <3>3 DEF BuilderMounts, IndexInv, BuildIsCurrent, Snapshot
    <3> QED
      BY <1>3, <3>2, <3>4 DEF BuilderMounts, IndexInv, RevisionsBound, Owed, AbsentIsKnown,
         IndexIsCurrent
  <2> QED BY <1>3, <2>1, <2>2 DEF BuilderMounts
<1>4. CASE BuilderPublishes
  BY <1>4 DEF BuilderPublishes, SnapshotIsCurrent, BuildAgain, IndexInv, TypeOK,
     RevisionsBound, Owed, AbsentIsKnown, BuildIsCurrent, Snapshot, IndexIsCurrent
<1> QED BY <1>1, <1>2, <1>3, <1>4 DEF BuilderStep

\* The steps of everybody else.
LEMMA OthersKeep ==
  ASSUME IndexInv,
         \/ PublisherStep \/ PublisherSets \/ StoreOpens \/ StoreInstalls
         \/ StoreDeletes \/ ForgetInstalledPackage \/ Quits
  PROVE  IndexInv'
<1> USE NullAssumption, RevisionAssumption
<1> USE DEF indexVars, flagVars, worldVars, RequestLibraryRefresh, IndexInv, RevisionsBound, Owed,
            AbsentIsKnown, BuildIsCurrent, Snapshot, IndexIsCurrent
<1>1. CASE PublisherSets
  BY <1>1 DEF PublisherSets, TypeOK
<1>2. CASE PublisherInvalidates
  BY <1>2 DEF PublisherInvalidates, TypeOK
<1>3. CASE PublisherRequests
  BY <1>3 DEF PublisherRequests, Covered, TypeOK
<1>4. CASE StoreOpens
  BY <1>4 DEF StoreOpens, Covered, TypeOK
<1>5. CASE StoreInstalls
  BY <1>5 DEF StoreInstalls, TypeOK
<1>6. CASE StoreDeletes
  BY <1>6 DEF StoreDeletes, TypeOK
<1>7. CASE ForgetInstalledPackage
  BY <1>7 DEF ForgetInstalledPackage, NextRevision, TypeOK
<1>8. CASE Quits
  BY <1>8 DEF Quits, TypeOK
<1> QED
  BY <1>1, <1>2, <1>3, <1>4, <1>5, <1>6, <1>7, <1>8 DEF PublisherStep

LEMMA IndexStep == IndexInv /\ [Next]_vars => IndexInv'
<1>1. ASSUME IndexInv, UNCHANGED vars PROVE IndexInv'
  BY <1>1 DEF vars, IndexInv, TypeOK, RevisionsBound, Owed, AbsentIsKnown, BuildIsCurrent,
     Snapshot, IndexIsCurrent
<1> QED
  BY <1>1, BuilderKeeps, OthersKeep DEF Next

\* A published index describes the current list and the disk: nothing of an older
\* list, everything of this one that stayed and that the index's own build could
\* read, nothing gone but what RunDelete is about to have forgotten.
THEOREM IndexIsCurrentAlways == Spec => []IndexIsCurrent
<1>1. IndexInv => IndexIsCurrent
  BY DEF IndexInv
<1> QED
  BY <1>1, IndexInit, IndexStep, PTL DEF Spec

-----------------------------------------------------------------------------
(* The covers                                                              *)

\* The worker holds a key from taking it until it has erased its mark.
ArtWorkerHolds ==
  /\ artWorker.pc \in {"wait", "done"} => artWorker.key = NoKey
  /\ artWorker.pc \in {"look", "fetch", "erase"} => artWorker.key \in Keys

\* A call under way is about a cover.
ArtCallsNameKeys == \A c \in Callers :
  artCaller[c] # Art!Idle => artCaller[c].key \in Keys /\ artCaller[c].asks # "none"

\* The queue and the marks, which are the two the property relates.
ArtBooks == /\ artQueue \in Seq(Keys) /\ artPending \in SUBSET Keys
            /\ IsFiniteSet(artPending)
            /\ PendingIsOwed

\* The worker and the callers.
ArtWorkers == [pc : {"wait", "look", "fetch", "erase", "done"}, key : Keys \cup {NoKey}]
ArtCalls == [asks : {"none", "page", "selected"}, key : Keys \cup {NoKey}]
ArtActorsOK == /\ artUrls \subseteq Keys /\ artTextures \subseteq Keys
               /\ artQuit \in BOOLEAN
               /\ artWorker \in ArtWorkers /\ artCaller \in [Callers -> ArtCalls]

ArtInv == ArtActorsOK /\ ArtWorkerHolds /\ ArtCallsNameKeys /\ ArtBooks

\* The instance's operators on finite sets are the library's.
LEMMA SameFinite == \A S : Art!IsFiniteSet(S) <=> IsFiniteSet(S)
BY DEF Art!IsFiniteSet, IsFiniteSet

LEMMA SameCardinality == \A S : Art!Cardinality(S) = Cardinality(S)
BY SameFinite DEF Art!Cardinality, Cardinality

\* A sequence of covers, by its indices.
LEMMA Indexed ==
  ASSUME NEW q \in Seq(Keys)
  PROVE  /\ Len(q) \in Nat
         /\ Art!ToSet(q) = {q[i] : i \in 1 .. Len(q)}
         /\ Art!IsInjective(q) <=> \A i, j \in 1 .. Len(q) : q[i] = q[j] => i = j
         /\ \A i \in 1 .. Len(q) : q[i] \in Keys
BY LenProperties, ElementOfSeq DEF Art!ToSet, Art!IsInjective

\* r is q without its i-th element, the others in their order.
Without(q, i, r) ==
  /\ r \in Seq(Keys) /\ Len(r) = Len(q) - 1
  /\ \A j \in 1 .. Len(q) - 1 : r[j] = IF j < i THEN q[j] ELSE q[j + 1]

\* r is q with k before its first element.
Before(k, q, r) ==
  /\ r \in Seq(Keys) /\ Len(r) = Len(q) + 1 /\ r[1] = k
  /\ \A j \in 1 .. Len(q) : r[j + 1] = q[j]

\* r is q with k after its last element.
After(k, q, r) ==
  /\ r \in Seq(Keys) /\ Len(r) = Len(q) + 1 /\ r[Len(q) + 1] = k
  /\ \A j \in 1 .. Len(q) : r[j] = q[j]

LEMMA RemoveIsWithout ==
  ASSUME NEW q \in Seq(Keys), NEW i \in 1 .. Len(q)
  PROVE  Without(q, i, Art!RemoveAt(q, i))
<1> DEFINE l == SubSeq(q, 1, i - 1)
           r == SubSeq(q, i + 1, Len(q))
<1>0. Len(q) \in Nat /\ \A j \in 1 .. Len(q) : q[j] \in Keys
  BY Indexed
<1>1. l \in Seq(Keys) /\ Len(l) = i - 1 /\ \A j \in 1 .. i - 1 : l[j] = q[j]
  <2>1. \A j \in 1 .. i - 1 : q[j] \in Keys
    BY <1>0
  <2>2. /\ l \in Seq(Keys)
        /\ Len(l) = IF 1 <= i - 1 THEN (i - 1) - 1 + 1 ELSE 0
        /\ \A j \in 1 .. (i - 1) - 1 + 1 : l[j] = q[1 + j - 1]
    BY <2>1, <1>0, SubSeqProperties
  <2> QED BY <2>2, <1>0
<1>2. r \in Seq(Keys) /\ Len(r) = Len(q) - i
      /\ \A j \in 1 .. Len(q) - i : r[j] = q[i + j]
  <2>1. \A j \in i + 1 .. Len(q) : q[j] \in Keys
    BY <1>0
  <2>2. /\ r \in Seq(Keys)
        /\ Len(r) = IF i + 1 <= Len(q) THEN Len(q) - (i + 1) + 1 ELSE 0
        /\ \A j \in 1 .. Len(q) - (i + 1) + 1 : r[j] = q[(i + 1) + j - 1]
    BY <2>1, <1>0, SubSeqProperties
  <2> QED BY <2>2, <1>0
<1>3. /\ l \o r \in Seq(Keys) /\ Len(l \o r) = Len(l) + Len(r)
      /\ \A j \in 1 .. Len(l) + Len(r) :
           (l \o r)[j] = IF j <= Len(l) THEN l[j] ELSE r[j - Len(l)]
  BY <1>1, <1>2, ConcatProperties
<1>4. Art!RemoveAt(q, i) = l \o r
  BY DEF Art!RemoveAt
<1> HIDE DEF l, r
<1>5. ASSUME NEW j \in 1 .. Len(q) - 1
      PROVE  (l \o r)[j] = IF j < i THEN q[j] ELSE q[j + 1]
  <2>1. CASE j < i
    BY <2>1, <1>0, <1>1, <1>2, <1>3
  <2>2. CASE ~(j < i)
    <3>1. j - Len(l) \in 1 .. Len(q) - i
      BY <2>2, <1>0, <1>1
    <3>2. (l \o r)[j] = r[j - Len(l)]
      BY <2>2, <1>0, <1>1, <1>2, <1>3
    <3>3. i + (j - Len(l)) = j + 1
      BY <1>0, <1>1
    <3> QED BY <3>1, <3>2, <3>3, <1>2, <2>2
  <2> QED BY <2>1, <2>2
<1>6. Len(l \o r) = Len(q) - 1
  BY <1>0, <1>1, <1>2, <1>3
<1> QED BY ONLY <1>3, <1>4, <1>5, <1>6 DEF Without

LEMMA EndsAreWithout ==
  ASSUME NEW q \in Seq(Keys), q # <<>>
  PROVE  /\ 1 \in 1 .. Len(q) /\ Len(q) \in 1 .. Len(q)
         /\ Without(q, 1, Tail(q)) /\ Head(q) = q[1]
         /\ Without(q, Len(q), Art!Front(q)) /\ Art!Last(q) = q[Len(q)]
<1>1. Len(q) \in Nat \ {0} /\ \A j \in 1 .. Len(q) : q[j] \in Keys
  BY Indexed, EmptySeq
<1>2. Without(q, 1, Tail(q)) /\ Head(q) = q[1]
  <2>1. Tail(q) \in Seq(Keys) /\ Len(Tail(q)) = Len(q) - 1
        /\ \A j \in 1 .. Len(Tail(q)) : Tail(q)[j] = q[j + 1]
    BY HeadTailProperties
  <2> QED BY <2>1, <1>1 DEF Without
<1>3. Without(q, Len(q), Art!Front(q))
  <2>1. \A j \in 1 .. Len(q) - 1 : q[j] \in Keys
    BY <1>1
  <2> DEFINE r == SubSeq(q, 1, Len(q) - 1)
  <2>2. /\ r \in Seq(Keys)
        /\ Len(r) = IF 1 <= Len(q) - 1 THEN (Len(q) - 1) - 1 + 1 ELSE 0
        /\ \A j \in 1 .. (Len(q) - 1) - 1 + 1 : r[j] = q[1 + j - 1]
    BY <2>1, <1>1, SubSeqProperties
  <2>4. Art!Front(q) = r
    BY DEF Art!Front
  <2> HIDE DEF r
  <2>3. r \in Seq(Keys) /\ Len(r) = Len(q) - 1
        /\ \A j \in 1 .. Len(q) - 1 : r[j] = q[j]
    <3>1. Len(r) = Len(q) - 1
      <4>1. Len(r) = IF 1 <= Len(q) - 1 THEN (Len(q) - 1) - 1 + 1 ELSE 0
        BY ONLY <2>2
      <4>2. \A m \in Nat \ {0} : (IF 1 <= m - 1 THEN (m - 1) - 1 + 1 ELSE 0) = m - 1
        OBVIOUS
      <4> QED BY ONLY <4>1, <4>2, <1>1
    <3>2. ASSUME NEW j \in 1 .. Len(q) - 1 PROVE r[j] = q[j]
      <4>1. j \in 1 .. (Len(q) - 1) - 1 + 1 /\ 1 + j - 1 = j
        BY <1>1
      <4>2. r[j] = q[1 + j - 1]
        BY <4>1, <2>2
      <4> QED BY <4>1, <4>2
    <3> QED BY <2>2, <3>1, <3>2
  <2>5. \A j \in 1 .. Len(q) - 1 : j < Len(q)
    BY <1>1
  <2>6. Without(q, Len(q), r)
    BY <2>3, <2>5 DEF Without
  <2> QED BY <2>4, <2>6
<1> QED BY <1>1, <1>2, <1>3 DEF Art!Last

\* What is left without one element of a sequence that has none twice.
LEMMA WithoutKeys ==
  ASSUME NEW q \in Seq(Keys), NEW i \in 1 .. Len(q), NEW r, Without(q, i, r),
         Art!IsInjective(q)
  PROVE  /\ Art!ToSet(r) = Art!ToSet(q) \ {q[i]}
         /\ Art!IsInjective(r)
<1>1. /\ Len(q) \in Nat /\ r \in Seq(Keys) /\ Len(r) = Len(q) - 1
      /\ \A j \in 1 .. Len(q) - 1 : r[j] = IF j < i THEN q[j] ELSE q[j + 1]
  BY Indexed DEF Without
<1>2. \A a, b \in 1 .. Len(q) : q[a] = q[b] => a = b
  BY Indexed
<1> DEFINE at(j) == IF j < i THEN j ELSE j + 1
<1>3. \A j \in 1 .. Len(q) - 1 : at(j) \in (1 .. Len(q)) \ {i} /\ r[j] = q[at(j)]
  BY <1>1
<1>4. \A a, b \in 1 .. Len(q) - 1 : at(a) = at(b) => a = b
  BY <1>1
<1>5. \A a \in (1 .. Len(q)) \ {i} : \E j \in 1 .. Len(q) - 1 : at(j) = a
  <2> SUFFICES ASSUME NEW a \in (1 .. Len(q)) \ {i}
               PROVE  \E j \in 1 .. Len(q) - 1 : at(j) = a
    OBVIOUS
  <2>1. CASE a < i
    BY <2>1, <1>1
  <2>2. CASE i < a
    <3>1. a - 1 \in 1 .. Len(q) - 1 /\ at(a - 1) = a
      BY <2>2, <1>1
    <3> QED BY <3>1
  <2> QED BY <2>1, <2>2, <1>1
<1> HIDE DEF at
<1>6. Art!ToSet(r) = {r[j] : j \in 1 .. Len(q) - 1}
      /\ Art!ToSet(q) = {q[a] : a \in 1 .. Len(q)}
  BY <1>1, Indexed
<1>7. Art!ToSet(r) = Art!ToSet(q) \ {q[i]}
  <2>1. \A j \in 1 .. Len(q) - 1 : r[j] \in Art!ToSet(q) /\ r[j] # q[i]
    BY <1>2, <1>3, <1>6
  <2>2. \A a \in (1 .. Len(q)) \ {i} : q[a] \in Art!ToSet(r)
    BY <1>3, <1>5, <1>6
  <2> QED BY <2>1, <2>2, <1>6
<1>8. \A a, b \in 1 .. Len(r) : r[a] = r[b] => a = b
  BY <1>1, <1>2, <1>3, <1>4
<1> QED BY <1>1, <1>7, <1>8, Indexed

\* A new element at either end.
LEMMA AddedKeys ==
  ASSUME NEW q \in Seq(Keys), NEW k \in Keys \ Art!ToSet(q), Art!IsInjective(q),
         NEW r, Before(k, q, r) \/ After(k, q, r)
  PROVE  /\ r \in Seq(Keys)
         /\ Art!ToSet(r) = Art!ToSet(q) \cup {k}
         /\ Art!IsInjective(r)
<1>1. Len(q) \in Nat /\ r \in Seq(Keys) /\ Len(r) = Len(q) + 1
  BY Indexed DEF Before, After
<1>2. \A a, b \in 1 .. Len(q) : q[a] = q[b] => a = b
  BY Indexed
<1>3. \A j \in 1 .. Len(q) : q[j] # k
  BY Indexed
<1>4. Art!ToSet(q) = {q[a] : a \in 1 .. Len(q)} /\ Art!ToSet(r) = {r[j] : j \in 1 .. Len(q) + 1}
  BY <1>1, Indexed
<1>5. CASE Before(k, q, r)
  <2>1. \A j \in 1 .. Len(q) + 1 : IF j = 1 THEN r[j] = k
                                  ELSE j - 1 \in 1 .. Len(q) /\ r[j] = q[j - 1]
    <3> SUFFICES ASSUME NEW j \in 1 .. Len(q) + 1, j # 1
                 PROVE  j - 1 \in 1 .. Len(q) /\ r[j] = q[j - 1]
      BY <1>5 DEF Before
    <3>1. j - 1 \in 1 .. Len(q) /\ (j - 1) + 1 = j
      BY <1>1
    <3>2. r[(j - 1) + 1] = q[j - 1]
      BY <3>1, <1>5 DEF Before
    <3> QED BY <3>1, <3>2
  <2>2. \A j \in 1 .. Len(q) : j + 1 \in 1 .. Len(q) + 1 /\ r[j + 1] = q[j]
    BY <1>1, <1>5 DEF Before
  <2>3. Art!ToSet(r) = Art!ToSet(q) \cup {k}
    <3>1. 1 \in 1 .. Len(q) + 1 /\ r[1] = k
      BY <1>1, <2>1
    <3>2. Art!ToSet(r) \subseteq Art!ToSet(q) \cup {k}
      BY <1>4, <2>1
    <3>3. Art!ToSet(q) \subseteq Art!ToSet(r)
      BY <1>4, <2>2
    <3>4. k \in Art!ToSet(r)
      BY <1>4, <3>1
    <3> QED BY <3>2, <3>3, <3>4
  <2>4. \A a, b \in 1 .. Len(r) : r[a] = r[b] => a = b
    <3> SUFFICES ASSUME NEW a \in 1 .. Len(q) + 1, NEW b \in 1 .. Len(q) + 1, r[a] = r[b]
                 PROVE  a = b
      BY <1>1
    <3>1. CASE a = 1 \/ b = 1
      BY <3>1, <2>1, <1>3
    <3>2. CASE a # 1 /\ b # 1
      <4>1. a - 1 = b - 1
        BY <3>2, <2>1, <1>2
      <4> QED BY <4>1, <1>1
    <3> QED BY <3>1, <3>2
  <2> QED BY <1>1, <2>3, <2>4, Indexed
<1>6. CASE After(k, q, r)
  <2>1. \A j \in 1 .. Len(q) + 1 : IF j = Len(q) + 1 THEN r[j] = k
                                  ELSE j \in 1 .. Len(q) /\ r[j] = q[j]
    BY <1>1, <1>6 DEF After
  <2>2. Art!ToSet(r) = Art!ToSet(q) \cup {k}
    <3>1. Len(q) + 1 \in 1 .. Len(q) + 1 /\ \A j \in 1 .. Len(q) : j \in 1 .. Len(q) + 1
      BY <1>1
    <3>2. Art!ToSet(r) \subseteq Art!ToSet(q) \cup {k}
      BY <1>4, <2>1
    <3>3. Art!ToSet(q) \subseteq Art!ToSet(r)
      BY <1>4, <1>6, <3>1 DEF After
    <3>4. k \in Art!ToSet(r)
      BY <1>4, <2>1, <3>1
    <3> QED BY <3>2, <3>3, <3>4
  <2>3. \A a, b \in 1 .. Len(r) : r[a] = r[b] => a = b
    BY <1>1, <1>2, <1>3, <2>1
  <2> QED BY <1>1, <2>2, <2>3, Indexed
<1> QED BY <1>5, <1>6

LEMMA AddsAreEnds ==
  ASSUME NEW q \in Seq(Keys), NEW k \in Keys
  PROVE  Before(k, q, <<k>> \o q) /\ After(k, q, Append(q, k))
<1>1. <<k>> \in Seq(Keys) /\ Len(<<k>>) = 1 /\ <<k>>[1] = k
  OBVIOUS
<1>2. Len(q) \in Nat
  BY Indexed
<1>3. /\ <<k>> \o q \in Seq(Keys) /\ Len(<<k>> \o q) = 1 + Len(q)
      /\ \A i \in 1 .. 1 + Len(q) :
           (<<k>> \o q)[i] = IF i <= 1 THEN <<k>>[i] ELSE q[i - 1]
  BY <1>1, ConcatProperties
<1> DEFINE r == <<k>> \o q
<1> HIDE DEF r
<1>4. \A j \in 1 .. Len(q) : r[j + 1] = q[j]
  <2> SUFFICES ASSUME NEW j \in 1 .. Len(q) PROVE r[j + 1] = q[j]
    OBVIOUS
  <2>1. j + 1 \in 1 .. 1 + Len(q) /\ ~(j + 1 <= 1) /\ (j + 1) - 1 = j
    BY <1>2
  <2> QED BY <2>1, <1>3 DEF r
<1>5. r[1] = k
  BY <1>1, <1>2, <1>3 DEF r
<1>6. Before(k, q, r)
  BY <1>2, <1>3, <1>4, <1>5 DEF r, Before
<1>7. After(k, q, Append(q, k))
  BY <1>2, AppendProperties DEF After
<1> QED BY <1>6, <1>7 DEF r

LEMMA BooksFacts ==
  ASSUME ArtBooks
  PROVE  /\ artQueue \in Seq(Keys) /\ artPending \in SUBSET Keys
         /\ IsFiniteSet(artPending) /\ Cardinality(artPending) \in Nat
         /\ artPending = Art!ToSet(artQueue) \cup Art!InFlight
         /\ Art!IsInjective(artQueue) /\ Art!ToSet(artQueue) \cap Art!InFlight = {}
         /\ Cardinality(artPending) <= MaxQueued
BY FS_CardinalityType, SameCardinality DEF ArtBooks, PendingIsOwed, Art!PendingIsOwed

\* A page's cover goes behind the others, when there is a place.
LEMMA QueueBehindKeeps ==
  ASSUME ArtBooks, NEW k \in Keys, Art!QueueBehind(k), artWorker' = artWorker
  PROVE  ArtBooks'
<1>1. CASE artQueue' = artQueue /\ artPending' = artPending
  BY <1>1 DEF ArtBooks, PendingIsOwed, Art!PendingIsOwed, Art!InFlight
<1>2. CASE /\ ~Art!Full /\ k \notin artPending
           /\ artQueue' = Append(artQueue, k) /\ artPending' = artPending \cup {k}
  <2>1. k \in Keys \ Art!ToSet(artQueue) /\ k \notin Art!InFlight
    BY <1>2, BooksFacts
  <2>2. After(k, artQueue, artQueue')
    BY <1>2, BooksFacts, AddsAreEnds
  <2>3. /\ artQueue' \in Seq(Keys) /\ Art!IsInjective(artQueue')
        /\ Art!ToSet(artQueue') = Art!ToSet(artQueue) \cup {k}
    BY <2>1, <2>2, BooksFacts, AddedKeys
  <2>4. IsFiniteSet(artPending') /\ Cardinality(artPending') = Cardinality(artPending) + 1
    BY <1>2, BooksFacts, FS_AddElement
  <2>5. Cardinality(artPending') <= MaxQueued
    BY <1>2, <2>4, BooksFacts, SameCardinality, CoversAssumption DEF Art!Full
  <2>6. Art!InFlight' = Art!InFlight
    BY DEF Art!InFlight
  <2>7. artPending' \in SUBSET Keys /\ artPending' = Art!ToSet(artQueue') \cup Art!InFlight
        /\ Art!ToSet(artQueue') \cap Art!InFlight = {}
    BY <1>2, <2>1, <2>3, BooksFacts
  <2> QED
    BY <2>3, <2>4, <2>5, <2>6, <2>7, SameCardinality DEF ArtBooks, PendingIsOwed, Art!PendingIsOwed
<1> QED BY <1>1, <1>2 DEF Art!QueueBehind, Art!bookVars

\* A selected cover goes first: it moves there, or takes the last one's place.
LEMMA QueueFirstKeeps ==
  ASSUME ArtBooks, NEW k \in Keys, Art!QueueFirst(k), artWorker' = artWorker,
         artWorker.key \in Keys \cup {NoKey}
  PROVE  ArtBooks'
<1>0. Art!InFlight' = Art!InFlight
  BY DEF Art!InFlight
<1>1. CASE k \in Art!ToSet(artQueue)
  <2>1. PICK i \in 1 .. Len(artQueue) :
          artQueue[i] = k /\ artQueue' = <<k>> \o Art!RemoveAt(artQueue, i)
    BY <1>1 DEF Art!QueueFirst
  <2>2. artPending' = artPending
    BY <1>1 DEF Art!QueueFirst
  <2> DEFINE r == Art!RemoveAt(artQueue, i)
  <2>3. Without(artQueue, i, r)
    BY BooksFacts, RemoveIsWithout
  <2>4. artQueue' = <<k>> \o r
    BY <2>1
  <2> HIDE DEF r
  <2>5. r \in Seq(Keys)
    BY <2>3 DEF Without
  <2>6. Art!ToSet(r) = Art!ToSet(artQueue) \ {k} /\ Art!IsInjective(r)
    BY <2>1, <2>3, BooksFacts, WithoutKeys
  <2>7. Before(k, r, artQueue') /\ k \in Keys \ Art!ToSet(r)
    BY <2>4, <2>5, <2>6, AddsAreEnds
  <2>8. /\ artQueue' \in Seq(Keys) /\ Art!IsInjective(artQueue')
        /\ Art!ToSet(artQueue') = Art!ToSet(r) \cup {k}
    BY <2>5, <2>6, <2>7, AddedKeys
  <2>9. Art!ToSet(artQueue') = Art!ToSet(artQueue)
    BY <1>1, <2>6, <2>8
  <2> QED
    BY <1>0, <2>2, <2>8, <2>9, BooksFacts DEF ArtBooks, PendingIsOwed, Art!PendingIsOwed
<1>2. CASE k \in artPending \ Art!ToSet(artQueue)
  BY <1>0, <1>2 DEF Art!QueueFirst, Art!bookVars, ArtBooks, PendingIsOwed, Art!PendingIsOwed
<1>3. CASE k \notin artPending
  <2>1. k \notin Art!ToSet(artQueue) /\ k \notin Art!InFlight
    BY <1>3, BooksFacts
  <2>2. artQueue' = <<k>> \o Art!Evict.queue /\ artPending' = Art!Evict.pending \cup {k}
    BY <1>3, <2>1 DEF Art!QueueFirst
  <2> SUFFICES ASSUME NEW r, NEW marks, artQueue' = <<k>> \o r, artPending' = marks \cup {k},
                      r \in Seq(Keys), Art!IsInjective(r),
                      Art!ToSet(r) \subseteq Art!ToSet(artQueue),
                      IsFiniteSet(marks), Cardinality(marks) + 1 <= MaxQueued,
                      marks = Art!ToSet(r) \cup Art!InFlight
               PROVE  ArtBooks'
    <3>1. CASE Art!Full /\ artQueue # <<>>
      <4> DEFINE n == Len(artQueue)
                 r == Art!Front(artQueue)
                 marks == artPending \ {Art!Last(artQueue)}
      <4>1. artQueue' = <<k>> \o r /\ artPending' = marks \cup {k}
        BY <2>2, <3>1 DEF Art!Evict
      <4>2. n \in 1 .. n /\ Without(artQueue, n, r) /\ Art!Last(artQueue) = artQueue[n]
        BY <3>1, BooksFacts, EndsAreWithout
      <4>3. r \in Seq(Keys)
        BY <4>2 DEF Without
      <4> HIDE DEF r
      <4>4. Art!ToSet(r) = Art!ToSet(artQueue) \ {Art!Last(artQueue)} /\ Art!IsInjective(r)
        BY <4>2, BooksFacts, WithoutKeys
      <4>5. Art!Last(artQueue) \in Art!ToSet(artQueue)
        BY <4>2, BooksFacts, Indexed
      <4>6. IsFiniteSet(marks) /\ Cardinality(marks) = Cardinality(artPending) - 1
        BY <4>5, BooksFacts, FS_RemoveElement
      <4>7. Cardinality(marks) + 1 <= MaxQueued
        BY <4>6, BooksFacts, CoversAssumption
      <4>8. marks = Art!ToSet(r) \cup Art!InFlight
        BY <4>4, <4>5, BooksFacts
      <4> HIDE DEF marks
      <4> QED BY <4>1, <4>3, <4>4, <4>6, <4>7, <4>8
    <3>2. CASE ~Art!Full
      <4>1. artQueue' = <<k>> \o artQueue /\ artPending' = artPending \cup {k}
        BY <2>2, <3>2 DEF Art!Evict
      <4>2. Cardinality(artPending) + 1 <= MaxQueued
        BY <3>2, BooksFacts, SameCardinality, CoversAssumption DEF Art!Full
      <4> QED BY <4>1, <4>2, BooksFacts
    <3>3. CASE Art!Full /\ artQueue = <<>>
      <4>1. Art!ToSet(artQueue) = {}
        <5>1. Len(artQueue) = 0
          BY <3>3, EmptySeq
        <5>2. Art!ToSet(artQueue) = {artQueue[i] : i \in 1 .. Len(artQueue)}
          BY BooksFacts, Indexed
        <5>3. 1 .. Len(artQueue) = {}
          BY <5>1
        <5> QED BY <5>2, <5>3
      <4>2. artPending \subseteq {artWorker.key}
        BY <4>1, BooksFacts DEF Art!InFlight
      <4>3. IsFiniteSet({artWorker.key}) /\ Cardinality({artWorker.key}) = 1
        <5>1. {artWorker.key} = {} \cup {artWorker.key}
          OBVIOUS
        <5>2. IsFiniteSet({}) /\ Cardinality({}) = 0
          BY FS_EmptySet
        <5>3. IsFiniteSet({} \cup {artWorker.key})
              /\ Cardinality({} \cup {artWorker.key}) = Cardinality({}) + 1
          BY <5>2, FS_AddElement
        <5> QED BY <5>1, <5>2, <5>3
      <4>4. Cardinality(artPending) <= 1
        BY <4>2, <4>3, FS_Subset
      <4> QED BY <3>3, <4>4, BooksFacts, SameCardinality, CoversAssumption DEF Art!Full
    <3> QED BY <3>1, <3>2, <3>3
  <2>3. k \in Keys \ Art!ToSet(r) /\ k \notin marks
    BY <1>3, <2>1
  <2>4. Before(k, r, artQueue')
    BY AddsAreEnds
  <2>5. /\ artQueue' \in Seq(Keys) /\ Art!IsInjective(artQueue')
        /\ Art!ToSet(artQueue') = Art!ToSet(r) \cup {k}
    BY <2>3, <2>4, AddedKeys
  <2>6. IsFiniteSet(artPending') /\ Cardinality(artPending') = Cardinality(marks) + 1
    BY <2>3, FS_AddElement
  <2>7. artPending' = Art!ToSet(artQueue') \cup Art!InFlight
        /\ Art!ToSet(artQueue') \cap Art!InFlight = {}
    BY <2>1, <2>5, BooksFacts
  <2>8. artPending' \in SUBSET Keys
    BY BooksFacts
  <2> QED
    BY <1>0, <2>5, <2>6, <2>7, <2>8, SameCardinality DEF ArtBooks, PendingIsOwed, Art!PendingIsOwed
<1> QED BY <1>1, <1>2, <1>3

LEMMA ArtTypes ==
  ASSUME ArtInv
  PROVE  /\ artUrls \subseteq Keys /\ artTextures \subseteq Keys
         /\ artQuit \in BOOLEAN
         /\ artWorker \in ArtWorkers /\ artCaller \in [Callers -> ArtCalls]
BY DEF ArtInv, ArtActorsOK

\* The invariant is no weaker than the module's own typing.
LEMMA ArtIsTyped == ArtInv => Art!ArtTypeOK
<1> SUFFICES ASSUME ArtInv PROVE Art!ArtTypeOK
  OBVIOUS
<1>1. {artUrls, artTextures, artPending} \subseteq SUBSET Keys /\ artQueue \in Seq(Keys)
  BY ArtTypes DEF ArtInv, ArtBooks
<1> QED BY <1>1, ArtTypes DEF Art!ArtTypeOK, ArtWorkers, ArtCalls

LEMMA ArtInit == Art!Init => ArtInv
<1> SUFFICES ASSUME Art!Init PROVE ArtInv
  OBVIOUS
<1>1. artQueue = <<>> /\ artPending = {} /\ artWorker = [pc |-> "wait", key |-> NoKey]
      /\ artUrls = {} /\ artTextures = {} /\ artQuit = FALSE
      /\ artCaller = [c \in Callers |-> Art!Idle]
  BY DEF Art!Init
<1>2. ArtBooks
  <2>1. artQueue \in Seq(Keys) /\ Len(artQueue) = 0
    BY <1>1, EmptySeq
  <2>2. Art!ToSet(artQueue) = {} /\ Art!IsInjective(artQueue)
    <3>1. Art!ToSet(artQueue) = {artQueue[i] : i \in 1 .. Len(artQueue)}
          /\ (Art!IsInjective(artQueue) <=>
                \A i, j \in 1 .. Len(artQueue) : artQueue[i] = artQueue[j] => i = j)
      BY <2>1, Indexed
    <3>2. 1 .. Len(artQueue) = {}
      BY <2>1
    <3> QED BY <3>1, <3>2
  <2>3. IsFiniteSet(artPending) /\ Cardinality(artPending) = 0
    BY <1>1, FS_EmptySet
  <2>4. Art!InFlight = {}
    BY <1>1 DEF Art!InFlight
  <2>5. Cardinality(artPending) <= MaxQueued
    BY <2>3, CoversAssumption
  <2> QED
    BY <1>1, <2>1, <2>2, <2>3, <2>4, <2>5, SameCardinality
       DEF ArtBooks, PendingIsOwed, Art!PendingIsOwed
<1>3. artWorker \in ArtWorkers /\ artCaller \in [Callers -> ArtCalls]
  BY <1>1 DEF ArtWorkers, ArtCalls, Art!Idle
<1>4. ArtWorkerHolds /\ ArtCallsNameKeys
  BY <1>1 DEF ArtWorkerHolds, ArtCallsNameKeys
<1> QED BY <1>1, <1>2, <1>3, <1>4 DEF ArtInv, ArtActorsOK

LEMMA ArtCallerSteps ==
  ASSUME ArtInv, NEW c \in Callers,
         Art!PageArrives(c) \/ Art!CoverSelected(c) \/ Art!Enqueue(c)
  PROVE  ArtInv'
<1>1. artWorker' = artWorker
  BY DEF Art!PageArrives, Art!CoverSelected, Art!Enqueue
<1>2. artWorker' \in ArtWorkers /\ ArtWorkerHolds' /\ artWorker.key \in Keys \cup {NoKey}
  BY <1>1, ArtTypes DEF ArtInv, ArtWorkerHolds, ArtWorkers
<1>3. /\ artUrls' \subseteq Keys /\ artTextures' \subseteq Keys
  BY ArtTypes DEF Art!PageArrives, Art!CoverSelected, Art!Enqueue, Art!bookVars
<1>4. artQuit' \in BOOLEAN
  BY ArtTypes DEF Art!PageArrives, Art!CoverSelected, Art!Enqueue
<1>5. ASSUME NEW call \in ArtCalls, artCaller' = [artCaller EXCEPT ![c] = call],
             call = Art!Idle \/ (call.key \in Keys /\ call.asks # "none")
      PROVE  artCaller' \in [Callers -> ArtCalls] /\ ArtCallsNameKeys'
  BY <1>5, ArtTypes DEF ArtInv, ArtCallsNameKeys, Art!Idle
<1>6. artCaller' \in [Callers -> ArtCalls] /\ ArtCallsNameKeys'
  <2>1. CASE Art!PageArrives(c)
    <3>1. PICK k \in Keys : artCaller' = [artCaller EXCEPT ![c] = [asks |-> "page", key |-> k]]
      BY <2>1 DEF Art!PageArrives
    <3>2. [asks |-> "page", key |-> k] \in ArtCalls
      BY DEF ArtCalls
    <3> QED BY <3>1, <3>2, <1>5
  <2>2. CASE Art!CoverSelected(c)
    <3>1. PICK k \in artUrls \ artTextures :
            artCaller' = [artCaller EXCEPT ![c] = [asks |-> "selected", key |-> k]]
      BY <2>2 DEF Art!CoverSelected
    <3>2. k \in Keys /\ [asks |-> "selected", key |-> k] \in ArtCalls
      BY ArtTypes DEF ArtCalls
    <3> QED BY <3>1, <3>2, <1>5
  <2>3. CASE Art!Enqueue(c)
    <3>1. artCaller' = [artCaller EXCEPT ![c] = Art!Idle] /\ Art!Idle \in ArtCalls
      BY <2>3 DEF Art!Enqueue, Art!Idle, ArtCalls
    <3> QED BY <3>1, <1>5
  <2> QED BY <2>1, <2>2, <2>3
<1>7. ArtBooks'
  <2>1. ArtBooks
    BY DEF ArtInv
  <2>2. CASE artQueue' = artQueue /\ artPending' = artPending
    BY <2>1, <2>2, <1>1 DEF ArtBooks, PendingIsOwed, Art!PendingIsOwed, Art!InFlight
  <2>3. CASE Art!Enqueue(c)
    <3>1. artCaller[c].key \in Keys /\ artCaller[c].asks \in {"page", "selected"}
      BY <2>3, ArtTypes DEF Art!Enqueue, ArtInv, ArtCallsNameKeys, ArtCalls
    <3>2. \/ artQueue' = artQueue /\ artPending' = artPending
          \/ Art!QueueBehind(artCaller[c].key)
          \/ Art!QueueFirst(artCaller[c].key)
      <4>1. CASE artQuit
        BY <2>3, <4>1 DEF Art!Enqueue, Art!bookVars
      <4>2. CASE ~artQuit /\ artCaller[c].asks = "page"
        BY <2>3, <4>2 DEF Art!Enqueue, Art!bookVars
      <4>3. CASE ~artQuit /\ artCaller[c].asks = "selected"
        BY <2>3, <4>3 DEF Art!Enqueue, Art!bookVars
      <4> QED BY <4>1, <4>2, <4>3, <3>1
    <3> QED BY <2>1, <2>2, <3>1, <3>2, <1>1, <1>2, QueueBehindKeeps, QueueFirstKeeps
  <2> QED BY <2>2, <2>3 DEF Art!PageArrives, Art!CoverSelected, Art!bookVars
<1> QED BY <1>2, <1>3, <1>4, <1>6, <1>7 DEF ArtInv, ArtActorsOK, ArtBooks

LEMMA ArtWorkerSteps == ASSUME ArtInv, Art!WorkerStep PROVE ArtInv'
<1>0. ArtBooks /\ ArtWorkerHolds /\ artWorker \in ArtWorkers
  BY DEF ArtInv, ArtActorsOK
<1>1. artCaller' = artCaller /\ artUrls' = artUrls /\ artQuit' = artQuit
  BY DEF Art!WorkerStep, Art!TakesKey, Art!NothingToFetch, Art!StartsFetch, Art!FetchEnds,
         Art!ErasesKey, Art!WorkerExits
<1>2. /\ artUrls' \subseteq Keys /\ artQuit' \in BOOLEAN
      /\ artCaller' \in [Callers -> ArtCalls] /\ ArtCallsNameKeys'
  BY <1>1, ArtTypes DEF ArtInv, ArtCallsNameKeys, Art!Idle
\* What a step does with the key in the worker's hands.
<1>3. ASSUME artTextures' \subseteq Keys, artWorker' \in ArtWorkers, ArtWorkerHolds', ArtBooks'
      PROVE  ArtInv'
  BY <1>2, <1>3 DEF ArtInv, ArtActorsOK
<1>4. ASSUME artQueue' = artQueue, artPending' = artPending, artTextures' \subseteq Keys,
             NEW pc \in {"look", "fetch", "erase", "done"},
             artWorker' = [artWorker EXCEPT !.pc = pc],
             IF pc = "done" THEN artWorker.pc = "wait" ELSE artWorker.pc \in {"look", "fetch"}
      PROVE  ArtInv'
  <2>1. artWorker' \in ArtWorkers /\ artWorker'.key = artWorker.key /\ artWorker'.pc = pc
    BY <1>0, <1>4 DEF ArtWorkers
  <2>2. ArtWorkerHolds'
    BY <1>0, <1>4, <2>1 DEF ArtWorkerHolds
  <2>3. ArtBooks'
    BY <1>0, <1>4, <2>1 DEF ArtBooks, PendingIsOwed, Art!PendingIsOwed, Art!InFlight
  <2> QED BY <1>3, <1>4, <2>1, <2>2, <2>3
<1>5. CASE Art!TakesKey
  <2>1. /\ artQueue # <<>> /\ artQueue' = Tail(artQueue)
        /\ artPending' = artPending /\ artTextures' = artTextures
        /\ artWorker' = [pc |-> "look", key |-> Head(artQueue)]
        /\ artWorker.key = NoKey
    BY <1>5, <1>0 DEF Art!TakesKey, ArtWorkerHolds
  <2>2. /\ 1 \in 1 .. Len(artQueue) /\ Without(artQueue, 1, artQueue')
        /\ Head(artQueue) = artQueue[1]
    BY <2>1, <1>0, BooksFacts, EndsAreWithout
  <2>3. artQueue' \in Seq(Keys) /\ Art!IsInjective(artQueue')
        /\ Art!ToSet(artQueue') = Art!ToSet(artQueue) \ {Head(artQueue)}
    <3>1. artQueue \in Seq(Keys) /\ Art!IsInjective(artQueue)
      BY <1>0, BooksFacts
    <3>2. artQueue' \in Seq(Keys)
      BY <2>2, Zenon DEF Without
    <3>3. /\ Art!ToSet(artQueue') = Art!ToSet(artQueue) \ {artQueue[1]}
          /\ Art!IsInjective(artQueue')
      BY <2>2, <3>1, WithoutKeys, Zenon
    <3> QED BY <2>2, <3>2, <3>3, Zenon
  <2>4. Head(artQueue) \in Keys /\ Head(artQueue) \in Art!ToSet(artQueue)
    <3>1. artQueue \in Seq(Keys)
      BY <1>0, BooksFacts
    <3>2. /\ Art!ToSet(artQueue) = {artQueue[i] : i \in 1 .. Len(artQueue)}
          /\ \A i \in 1 .. Len(artQueue) : artQueue[i] \in Keys
      BY <3>1, Indexed
    <3> QED BY <2>2, <3>2
  <2>5. Art!InFlight = {} /\ Art!InFlight' = {Head(artQueue)}
    BY <2>1, <2>4, NamesAssumption DEF Art!InFlight
  <2>6. artWorker' \in ArtWorkers /\ ArtWorkerHolds'
    BY <2>1, <2>4 DEF ArtWorkers, ArtWorkerHolds
  <2>7. artPending' = Art!ToSet(artQueue') \cup Art!InFlight'
        /\ Art!ToSet(artQueue') \cap Art!InFlight' = {}
    BY <2>1, <2>3, <2>4, <2>5, <1>0, BooksFacts
  <2>8. ArtBooks'
    BY <2>1, <2>3, <2>7, <1>0, BooksFacts, SameCardinality
       DEF ArtBooks, PendingIsOwed, Art!PendingIsOwed
  <2> QED BY <2>1, <2>6, <2>8, <1>3, ArtTypes
<1>6. CASE Art!NothingToFetch
  BY <1>6, <1>4, ArtTypes DEF Art!NothingToFetch, Art!WorkerAt, Art!bookVars
<1>7. CASE Art!StartsFetch
  BY <1>7, <1>4, ArtTypes DEF Art!StartsFetch, Art!WorkerAt, Art!bookVars
<1>8. CASE Art!FetchEnds
  <2>1. artWorker.key \in Keys
    BY <1>8, <1>0 DEF Art!FetchEnds, Art!WorkerAt, ArtWorkerHolds
  <2> QED BY <1>8, <2>1, <1>4, ArtTypes DEF Art!FetchEnds, Art!WorkerAt, Art!bookVars
<1>9. CASE Art!ErasesKey
  <2>1. /\ artQueue' = artQueue /\ artPending' = artPending \ {artWorker.key}
        /\ artTextures' = artTextures /\ artWorker' = [pc |-> "wait", key |-> NoKey]
        /\ artWorker.key \in Keys
    BY <1>9, <1>0 DEF Art!ErasesKey, Art!Forgets, ArtWorkerHolds
  <2>2. artWorker' \in ArtWorkers /\ ArtWorkerHolds'
    BY <2>1 DEF ArtWorkers, ArtWorkerHolds
  <2>3. Art!InFlight = {artWorker.key} /\ Art!InFlight' = {}
    BY <2>1, NamesAssumption DEF Art!InFlight
  <2>4. /\ IsFiniteSet(artPending')
        /\ Cardinality(artPending') = Cardinality(artPending) - 1
    BY <2>1, <2>3, <1>0, BooksFacts, FS_RemoveElement
  <2>5. Cardinality(artPending') <= MaxQueued
    BY <2>4, <1>0, BooksFacts, CoversAssumption
  <2>6. artPending' = Art!ToSet(artQueue') \cup Art!InFlight'
        /\ Art!ToSet(artQueue') \cap Art!InFlight' = {} /\ artPending' \in SUBSET Keys
    BY <2>1, <2>3, <1>0, BooksFacts
  <2>7. ArtBooks'
    BY <2>1, <2>4, <2>5, <2>6, <1>0, BooksFacts, SameCardinality
       DEF ArtBooks, PendingIsOwed, Art!PendingIsOwed
  <2> QED BY <2>1, <2>2, <2>7, <1>3, ArtTypes
<1>10. CASE Art!WorkerExits
  BY <1>10, <1>4, ArtTypes DEF Art!WorkerExits, Art!WorkerAt, Art!bookVars
<1> QED BY <1>5, <1>6, <1>7, <1>8, <1>9, <1>10 DEF Art!WorkerStep

LEMMA ArtRests == ArtInv /\ UNCHANGED Art!vars => ArtInv'
BY DEF Art!vars, Art!bookVars, ArtInv, ArtActorsOK, ArtWorkerHolds, ArtCallsNameKeys, ArtBooks,
       PendingIsOwed, Art!PendingIsOwed, Art!InFlight

LEMMA ArtStep == ArtInv /\ [Art!Next]_(Art!vars) => ArtInv'
<1> SUFFICES ASSUME ArtInv, [Art!Next]_(Art!vars) PROVE ArtInv'
  OBVIOUS
<1>1. CASE \E c \in Callers : Art!PageArrives(c) \/ Art!CoverSelected(c) \/ Art!Enqueue(c)
  BY <1>1, ArtCallerSteps
<1>2. CASE Art!Quits
  BY <1>2 DEF Art!Quits, Art!bookVars, ArtInv, ArtActorsOK, ArtWorkerHolds, ArtCallsNameKeys,
     ArtBooks, PendingIsOwed, Art!PendingIsOwed, Art!InFlight
<1>3. CASE Art!WorkerStep
  BY <1>3, ArtWorkerSteps
<1>4. CASE UNCHANGED Art!vars
  BY <1>4, ArtRests
<1> QED BY <1>1, <1>2, <1>3, <1>4 DEF Art!Next

\* A cover's key is marked pending exactly while it waits once in the queue or is in
\* the worker's hands, and the marks stay within the bound: through pages and
\* selections of any number of threads, moves to the front, evictions and fetches
\* that fail.
THEOREM PendingIsOwedAlways == Art!Init /\ [][Art!Next]_(Art!vars) => []PendingIsOwed
<1>1. ArtInv => PendingIsOwed
  BY DEF ArtInv, ArtBooks
<1> QED BY <1>1, ArtInit, ArtStep, PTL

-----------------------------------------------------------------------------
(* The transfer                                                            *)

\* Nothing of a body has been seen.
NothingRead ==
  /\ xferReceived = 0 /\ xferPrefix = 0 /\ xferStream = 0 /\ xferSent = 0
  /\ ~xferChecked /\ ~xferFailed /\ xferRefusal = "none"

\* Every unit the server sent is counted or held back for the magic, and the part
\* file holds no unit that is not counted.
Counted ==
  /\ xferReceived + xferPrefix = xferSent
  /\ xferReceived <= Ceiling
  /\ xferDisk + xferStream <= xferReceived
  /\ xferChecked => xferPrefix = 0 /\ xferReceived >= Magic
  /\ ~xferChecked => xferReceived = 0

\* The body is being received: what was counted is in the stream or on the volume.
Receiving ==
  /\ Counted /\ ~xferFailed /\ xferRefusal = "none"
  /\ xferDisk + xferStream = xferReceived
  /\ ~xferChecked => xferPrefix < Magic

\* No complaint has been noted of the exchange.
Unblemished == xferOk /\ ~xferFailed /\ ~xferCancel /\ xferRefusal = "none"

\* What the transfer accepts.
Accepted ==
  /\ xferReceived = xferSent /\ xferPrefix = 0 /\ ~xferFailed
  /\ xferLength # 0 => xferReceived = xferLength
  /\ xferReceived \in Magic .. Ceiling
  /\ xferDisk <= xferReceived

NoPartFile == xferDisk = Xfer!Absent
PartFileFits == NoPartFile \/ xferDisk + xferStream <= Ceiling + 1
RetryLeft == xferAttempt < MaxRetries

XferPhases ==
  /\ xferPc \in {"hop", "head"} => NothingRead
  /\ xferPc = "body" => Receiving
  /\ xferPc = "close" => PartFileFits
  /\ xferPc \in {"close", "judge"} => (Unblemished => Counted)
  /\ xferPc = "judge" => xferStream = 0
  /\ xferPc = "returned" => (xferOutcome = "none" => Accepted)
  /\ xferPc = "commit" => Accepted
  /\ xferPc = "delay" => RetryLeft

\* The variables' types: the names, the flags and the numbers.
XferNames ==
  /\ xferPc \in {"start", "attempt", "hop", "head", "body", "close", "judge", "returned",
                 "delay", "commit", "over"}
  /\ xferRefusal \in Xfer!Refusals /\ xferOutcome \in Xfer!Outcomes
XferFlags ==
  /\ xferAgree \in BOOLEAN /\ xferChecked \in BOOLEAN /\ xferFailed \in BOOLEAN
  /\ xferOk \in BOOLEAN /\ xferCancel \in BOOLEAN
XferUnits ==
  /\ xferLength \in Xfer!Sizes /\ xferReceived \in Xfer!Sizes /\ xferSent \in Xfer!Sizes
  /\ xferPrefix \in 0 .. Magic /\ xferStream \in 0 .. Buffered
  /\ xferDisk \in Xfer!Sizes \cup {Xfer!Absent}
XferTries == xferAttempt \in 0 .. MaxRetries /\ xferHops \in 0 .. MaxHops

XferInv == XferNames /\ XferFlags /\ XferUnits /\ XferTries /\ XferPhases

LEMMA XferIsTyped == XferInv => Xfer!TransferTypeOK
<1> SUFFICES ASSUME XferInv PROVE Xfer!TransferTypeOK
  OBVIOUS
<1>1. {xferChecked, xferFailed, xferOk, xferCancel} \subseteq BOOLEAN
  BY Zenon DEF XferInv, XferFlags
<1>2. xferAgree \in BOOLEAN
  BY Zenon DEF XferInv, XferFlags
<1>3. XferNames /\ XferUnits /\ XferTries
  BY Zenon DEF XferInv
<1> QED BY <1>1, <1>2, <1>3 DEF Xfer!TransferTypeOK, XferNames, XferUnits, XferTries

LEMMA XferBounds ==
  /\ Magic \in Nat /\ Ceiling \in Nat /\ 0 < Magic /\ Magic <= Ceiling
  /\ Buffered \in Nat /\ MaxHops \in Nat /\ MaxRetries \in Nat
  /\ Xfer!Sizes = 0 .. Ceiling + 1 /\ Xfer!Absent = Ceiling + 2
BY SizesAssumption, BudgetsAssumption DEF Xfer!Sizes, Xfer!Absent

LEMMA XferInit == Xfer!Init => XferInv
<1> SUFFICES ASSUME Xfer!Init PROVE XferInv
  OBVIOUS
<1>1. XferNames
  BY DEF Xfer!Init, XferNames, Xfer!Refusals, Xfer!Outcomes
<1>2. XferFlags
  BY Zenon DEF Xfer!Init, XferFlags
<1>3. XferUnits /\ XferTries
  BY XferBounds DEF Xfer!Init, XferUnits, XferTries
<1>4. XferPhases
  BY DEF Xfer!Init, XferPhases
<1> QED BY <1>1, <1>2, <1>3, <1>4 DEF XferInv

\* Where a step leads says what it owes.
LEMMA XferLeads ==
  /\ xferPc' \in {"attempt", "over"} => XferPhases'
  /\ xferPc' \in {"hop", "head"} /\ NothingRead' => XferPhases'
  /\ xferPc' = "body" /\ Receiving' => XferPhases'
  /\ xferPc' = "close" /\ PartFileFits' /\ (Unblemished' => Counted') => XferPhases'
  /\ xferPc' = "judge" /\ xferStream' = 0 /\ (Unblemished' => Counted') => XferPhases'
  /\ xferPc' = "returned" /\ (xferOutcome' = "none" => Accepted') => XferPhases'
  /\ xferPc' = "commit" /\ Accepted' => XferPhases'
  /\ xferPc' = "delay" /\ RetryLeft' => XferPhases'
BY DEF XferPhases

\* The flags keep their type.
LEMMA XferFlagsStep == ASSUME XferInv, Xfer!Next PROVE XferFlags'
<1>0. XferFlags
  BY Zenon DEF XferInv
<1>1. ASSUME xferAgree' \in BOOLEAN, xferChecked' \in {xferChecked, TRUE, FALSE},
             xferFailed' \in {xferFailed, TRUE, FALSE}, xferOk' \in {xferOk, TRUE, FALSE},
             xferCancel' \in {xferCancel, TRUE}
      PROVE  XferFlags'
  BY <1>0, <1>1, Zenon DEF XferFlags
<1>2. xferAgree' \in BOOLEAN
  BY <1>0, Zenon DEF XferFlags, Xfer!Next, Xfer!WorkerStep, Xfer!Cancel, Xfer!StartsJob, Xfer!BeginsAttempt,
     Xfer!Reports, Xfer!DelayEnds, Xfer!Commits, Xfer!BeginsHop, Xfer!AcceptsHead,
     Xfer!RefusesHead, Xfer!Redirected, Xfer!OtherStatus, Xfer!Chunk, Xfer!BodyEnds,
     Xfer!CloseFile, Xfer!Judges, Xfer!headVars
<1>3. xferChecked' \in {xferChecked, TRUE, FALSE}
  BY Zenon DEF Xfer!Next, Xfer!WorkerStep, Xfer!Cancel, Xfer!StartsJob, Xfer!BeginsAttempt,
     Xfer!Reports, Xfer!DelayEnds, Xfer!Commits, Xfer!BeginsHop, Xfer!AcceptsHead,
     Xfer!RefusesHead, Xfer!Redirected, Xfer!OtherStatus, Xfer!Chunk, Xfer!BodyEnds,
     Xfer!CloseFile, Xfer!Judges, Xfer!bodyVars
<1>4. xferFailed' \in {xferFailed, TRUE, FALSE}
  BY Zenon DEF Xfer!Next, Xfer!WorkerStep, Xfer!Cancel, Xfer!StartsJob, Xfer!BeginsAttempt,
     Xfer!Reports, Xfer!DelayEnds, Xfer!Commits, Xfer!BeginsHop, Xfer!AcceptsHead,
     Xfer!RefusesHead, Xfer!Redirected, Xfer!OtherStatus, Xfer!Chunk, Xfer!Write, Xfer!BodyEnds,
     Xfer!CloseFile, Xfer!Judges, Xfer!bodyVars
<1>5. xferOk' \in {xferOk, TRUE, FALSE}
  BY Zenon DEF Xfer!Next, Xfer!WorkerStep, Xfer!Cancel, Xfer!StartsJob, Xfer!BeginsAttempt,
     Xfer!Reports, Xfer!DelayEnds, Xfer!Commits, Xfer!BeginsHop, Xfer!AcceptsHead,
     Xfer!RefusesHead, Xfer!Redirected, Xfer!OtherStatus, Xfer!Chunk, Xfer!BodyEnds,
     Xfer!CloseFile, Xfer!Judges
<1>6. xferCancel' \in {xferCancel, TRUE}
  BY Zenon DEF Xfer!Next, Xfer!WorkerStep, Xfer!Cancel, Xfer!StartsJob, Xfer!BeginsAttempt,
     Xfer!Reports, Xfer!DelayEnds, Xfer!Commits, Xfer!BeginsHop, Xfer!AcceptsHead,
     Xfer!RefusesHead, Xfer!Redirected, Xfer!OtherStatus, Xfer!Chunk, Xfer!BodyEnds,
     Xfer!CloseFile, Xfer!Judges
<1> QED BY <1>1, <1>2, <1>3, <1>4, <1>5, <1>6

\* What XferInv says, one part at a time.
LEMMA XferParts ==
  ASSUME XferInv
  PROVE  /\ XferNames /\ XferFlags /\ XferUnits /\ XferTries /\ XferPhases
BY DEF XferInv

\* The bodies' units, when a step leaves them alone.
LEMMA BodyStays ==
  ASSUME UNCHANGED <<Xfer!bodyVars, xferDisk>>
  PROVE  /\ xferReceived' = xferReceived /\ xferPrefix' = xferPrefix
         /\ xferStream' = xferStream /\ xferSent' = xferSent
         /\ xferChecked' = xferChecked /\ xferFailed' = xferFailed
         /\ Counted' = Counted
BY Zenon DEF Xfer!bodyVars, Counted

\* The job's own steps: the loop, the report, the wait and the commit.
LEMMA XferJobSteps ==
  ASSUME XferInv,
         \/ Xfer!StartsJob \/ Xfer!BeginsAttempt
         \/ Xfer!Reports \/ Xfer!DelayEnds \/ Xfer!Commits
  PROVE  XferNames' /\ XferUnits' /\ XferTries' /\ XferPhases'
<1> USE XferBounds, XferParts
<1>0. CASE Xfer!StartsJob
  <2>1. UNCHANGED <<xferAttempt, xferHops, Xfer!headVars, Xfer!bodyVars, xferRefusal, xferDisk>>
        /\ \/ xferPc' = "over" /\ xferOutcome' = "storage"
           \/ xferPc' = "attempt" /\ xferOutcome' = xferOutcome
    BY <1>0, Zenon DEF Xfer!StartsJob, Xfer!Ends
  <2>2. XferNames' /\ XferUnits' /\ XferTries'
    BY <2>1 DEF Xfer!headVars, Xfer!bodyVars, XferNames, XferUnits, XferTries, Xfer!Outcomes,
       Xfer!Refusals
  <2> QED BY <2>1, <2>2, XferLeads
<1>1. CASE Xfer!BeginsAttempt
  <2>1. NothingRead'
    BY <1>1, Zenon DEF Xfer!BeginsAttempt, NothingRead
  <2>2. XferNames' /\ XferUnits' /\ XferTries'
    BY <1>1 DEF Xfer!BeginsAttempt, Xfer!Discard, Xfer!Ends, Xfer!headVars, Xfer!Refusals, Xfer!Outcomes,
       XferNames, XferUnits, XferTries
  <2>3. xferPc' \in {"over", "hop"}
    BY <1>1 DEF Xfer!BeginsAttempt, Xfer!Ends
  <2> QED BY <2>1, <2>2, <2>3, XferLeads
<1>2. CASE Xfer!Reports
  <2>1. UNCHANGED <<xferAttempt, xferHops, Xfer!headVars, Xfer!bodyVars, xferRefusal, xferOk,
                    xferCancel, xferOutcome>>
        /\ xferPc = "returned"
        /\ \/ xferOutcome = "none" /\ xferPc' = "commit" /\ xferDisk' = xferDisk
           \/ xferDisk' \in {xferDisk, Xfer!Absent} /\ xferPc' = "delay" /\ RetryLeft
           \/ xferDisk' \in {xferDisk, Xfer!Absent} /\ xferPc' = "over"
    BY <1>2, Zenon DEF Xfer!Reports, Xfer!Discard, Xfer!RetriesLeft, RetryLeft
  <2>2. XferNames' /\ XferUnits' /\ XferTries'
    BY <2>1 DEF Xfer!headVars, Xfer!bodyVars, XferNames, XferUnits, XferTries, Xfer!Absent
  <2>3. CASE xferOutcome = "none" /\ xferPc' = "commit" /\ xferDisk' = xferDisk
    <3>1. Accepted
      BY <2>1, <2>3 DEF XferPhases
    <3>2. Accepted'
      BY <2>1, <2>3, <3>1, Zenon DEF Accepted, Xfer!headVars, Xfer!bodyVars
    <3> QED BY <2>2, <2>3, <3>2, XferLeads
  <2>4. CASE xferPc' = "delay" /\ RetryLeft
    <3>1. RetryLeft'
      BY <2>1, <2>4 DEF RetryLeft
    <3> QED BY <2>2, <2>4, <3>1, XferLeads
  <2>5. CASE xferPc' = "over"
    BY <2>2, <2>5, XferLeads
  <2> QED BY <2>1, <2>3, <2>4, <2>5
<1>3. CASE Xfer!DelayEnds
  <2>1. UNCHANGED <<xferHops, Xfer!headVars, Xfer!bodyVars, xferRefusal, xferDisk>>
        /\ xferPc = "delay"
        /\ \/ xferPc' = "over" /\ xferOutcome' = "cancelled" /\ xferAttempt' = xferAttempt
           \/ xferPc' = "attempt" /\ xferAttempt' = xferAttempt + 1
              /\ xferOutcome' = xferOutcome
    BY <1>3, Zenon DEF Xfer!DelayEnds, Xfer!Ends
  <2>2. RetryLeft
    BY <2>1 DEF XferPhases
  <2>3. XferNames' /\ XferUnits' /\ XferTries'
    BY <2>1, <2>2 DEF Xfer!headVars, Xfer!bodyVars, XferNames, XferUnits, XferTries, Xfer!Outcomes,
       RetryLeft
  <2> QED BY <2>1, <2>3, XferLeads
<1>4. CASE Xfer!Commits
  <2>1. UNCHANGED <<xferAttempt, xferHops, Xfer!headVars, Xfer!bodyVars, xferRefusal>>
        /\ xferPc' = "over"
        /\ \/ xferOutcome' = "installed" /\ xferDisk' = xferDisk
           \/ xferOutcome' = "storage" /\ xferDisk' \in {xferDisk, Xfer!Absent}
    BY <1>4, Zenon DEF Xfer!Commits, Xfer!Ends, Xfer!Discard
  <2>2. XferNames' /\ XferUnits' /\ XferTries'
    BY <2>1 DEF Xfer!headVars, Xfer!bodyVars, XferNames, XferUnits, XferTries, Xfer!Outcomes,
       Xfer!Refusals, Xfer!Absent
  <2> QED BY <2>1, <2>2, XferLeads
<1> QED BY <1>0, <1>1, <1>2, <1>3, <1>4

\* The steps between a request and its head.
LEMMA XferHeadSteps ==
  ASSUME XferInv,
         \/ Xfer!BeginsHop \/ Xfer!AcceptsHead \/ Xfer!RefusesHead
         \/ Xfer!Redirected \/ Xfer!OtherStatus
  PROVE  XferNames' /\ XferUnits' /\ XferTries' /\ XferPhases'
<1> USE XferBounds, XferParts
<1>0. NothingRead
  BY DEF XferPhases, Xfer!BeginsHop, Xfer!AcceptsHead, Xfer!RefusesHead, Xfer!Redirected,
     Xfer!OtherStatus
<1>1. CASE Xfer!BeginsHop
  <2>1. UNCHANGED <<xferAttempt, xferHops, Xfer!headVars, Xfer!bodyVars, xferRefusal, xferDisk,
                    xferCancel>>
        /\ \/ xferPc' = "returned" /\ xferOutcome' = "cancelled"
           \/ xferPc' = "head" /\ xferOutcome' = xferOutcome
           \/ xferPc' = "close" /\ ~xferOk' /\ xferOutcome' = xferOutcome
    BY <1>1, Zenon DEF Xfer!BeginsHop, Xfer!Returns
  <2>2. XferNames' /\ XferUnits' /\ XferTries'
    BY <2>1 DEF Xfer!headVars, Xfer!bodyVars, XferNames, XferUnits, XferTries, Xfer!Outcomes
  <2>3. NothingRead'
    BY <2>1, <1>0, Zenon DEF NothingRead, Xfer!bodyVars
  <2>4. CASE xferPc' = "close" /\ ~xferOk'
    <3>1. PartFileFits'
      BY <2>1, <2>3 DEF NothingRead, PartFileFits, NoPartFile, XferUnits
    <3>2. ~Unblemished'
      BY <2>4, Zenon DEF Unblemished
    <3> QED BY <2>2, <2>4, <3>1, <3>2, XferLeads
  <2> QED BY <2>1, <2>2, <2>3, <2>4, XferLeads
<1>2. CASE Xfer!AcceptsHead
  <2>1. UNCHANGED <<xferAttempt, xferHops, Xfer!bodyVars, xferRefusal, xferOutcome>>
        /\ xferPc' = "body" /\ xferLength' \in 0 .. Ceiling /\ xferDisk' = 0
    BY <1>2, Zenon DEF Xfer!AcceptsHead, Xfer!Truncated
  <2>2. XferNames' /\ XferUnits' /\ XferTries'
    BY <2>1 DEF Xfer!bodyVars, XferNames, XferUnits, XferTries
  <2>3. NothingRead'
    BY <2>1, <1>0, Zenon DEF NothingRead, Xfer!bodyVars
  <2>4. Receiving'
    BY <2>1, <2>3 DEF NothingRead, Receiving, Counted
  <2> QED BY <2>1, <2>2, <2>4, XferLeads
<1>3. CASE Xfer!RefusesHead
  <2>1. UNCHANGED <<xferAttempt, xferHops, Xfer!headVars, Xfer!bodyVars, xferDisk, xferOutcome>>
        /\ xferPc' = "close" /\ xferRefusal' \in {"policy", "archive", "too-large", "storage"}
    BY <1>3, Zenon DEF Xfer!RefusesHead
  <2>2. XferNames' /\ XferUnits' /\ XferTries'
    BY <2>1 DEF Xfer!headVars, Xfer!bodyVars, XferNames, XferUnits, XferTries, Xfer!Refusals
  <2>3. xferStream' = 0
    BY <2>1, <1>0 DEF NothingRead, Xfer!bodyVars
  <2>4. PartFileFits'
    BY <2>1, <2>3 DEF PartFileFits, NoPartFile, XferUnits
  <2>5. ~Unblemished'
    BY <2>1 DEF Unblemished
  <2> QED BY <2>1, <2>2, <2>4, <2>5, XferLeads
<1>4. CASE Xfer!Redirected
  <2>1. UNCHANGED <<xferAttempt, Xfer!headVars, Xfer!bodyVars, xferRefusal, xferDisk>>
        /\ \/ xferPc' = "returned" /\ xferOutcome' \in {"cancelled", "policy"}
              /\ xferHops' = xferHops
           \/ xferPc' = "hop" /\ xferOutcome' = xferOutcome
              /\ xferHops < MaxHops /\ xferHops' = xferHops + 1
    BY <1>4, Zenon DEF Xfer!Redirected, Xfer!Returns, Xfer!CountHop
  <2>2. XferNames' /\ XferUnits' /\ XferTries'
    BY <2>1 DEF Xfer!headVars, Xfer!bodyVars, XferNames, XferUnits, XferTries, Xfer!Outcomes,
       Xfer!Refusals
  <2>3. NothingRead'
    BY <2>1, <1>0, Zenon DEF NothingRead, Xfer!bodyVars
  <2> QED BY <2>1, <2>2, <2>3, XferLeads
<1>5. CASE Xfer!OtherStatus
  <2>1. UNCHANGED <<xferAttempt, xferHops, Xfer!headVars, Xfer!bodyVars, xferRefusal, xferDisk>>
        /\ xferPc' = "returned" /\ xferOutcome' \in {"cancelled", "busy", "http"}
    BY <1>5, Zenon DEF Xfer!OtherStatus, Xfer!Returns
  <2>2. XferNames' /\ XferUnits' /\ XferTries'
    BY <2>1 DEF Xfer!headVars, Xfer!bodyVars, XferNames, XferUnits, XferTries, Xfer!Outcomes
  <2> QED BY <2>1, <2>2, XferLeads
<1> QED BY <1>1, <1>2, <1>3, <1>4, <1>5

\* A chunk that is written: what was held back for the magic goes with it.
LEMMA ChunkWritten ==
  ASSUME XferInv, xferPc = "body", NEW n \in 1 .. Ceiling,
         xferSent' = xferSent + n, xferSent' <= Ceiling + 1,
         xferChecked \/ xferPrefix + n >= Magic,
         NEW got \in Nat, got = IF xferChecked THEN n ELSE xferPrefix + n,
         xferReceived + got <= Ceiling,
         xferChecked', xferPrefix' = 0, xferReceived' = xferReceived + got,
         Xfer!Write(got), xferPc' = IF ~xferFailed' THEN "body" ELSE "close",
         UNCHANGED <<xferLength, xferRefusal>>
  PROVE  XferUnits' /\ XferPhases'
<1> USE XferBounds, XferParts
<1>1. Receiving
  BY DEF XferPhases
<1>2. /\ xferReceived \in 0 .. Ceiling + 1 /\ xferPrefix \in 0 .. Magic
      /\ xferStream \in 0 .. Buffered /\ xferSent \in 0 .. Ceiling + 1
      /\ xferDisk \in 0 .. Ceiling + 2 /\ xferLength \in 0 .. Ceiling + 1
  BY DEF XferUnits
<1>3. /\ xferReceived + xferPrefix = xferSent /\ xferDisk + xferStream = xferReceived
      /\ ~xferFailed /\ xferRefusal = "none"
      /\ xferChecked => xferPrefix = 0 /\ xferReceived >= Magic
      /\ ~xferChecked => xferReceived = 0
  BY <1>1 DEF Receiving, Counted
<1>4. xferReceived' = xferSent' /\ xferReceived' \in Magic .. Ceiling
  <2>1. CASE xferChecked
    BY <2>1, <1>2, <1>3
  <2>2. CASE ~xferChecked
    BY <2>2, <1>2, <1>3
  <2> QED BY <2>1, <2>2
<1>5. \/ /\ ~xferFailed' /\ xferDisk' + xferStream' = xferReceived'
         /\ xferStream' \in 0 .. Buffered /\ xferDisk' \in 0 .. Ceiling + 1
      \/ xferFailed' /\ xferStream' = 0 /\ xferDisk' = xferDisk
  <2>1. CASE xferStream + got <= Buffered /\ xferStream' = xferStream + got
             /\ UNCHANGED <<xferDisk, xferFailed>>
    BY <2>1, <1>2, <1>3
  <2>2. CASE xferDisk' = xferDisk + xferStream + got /\ xferStream' = 0
             /\ UNCHANGED xferFailed
    BY <2>2, <1>2, <1>3
  <2>3. CASE xferFailed' = TRUE /\ xferStream' = 0 /\ UNCHANGED xferDisk
    BY <2>3
  <2> QED BY <2>1, <2>2, <2>3 DEF Xfer!Write
<1>6. XferUnits'
  BY <1>2, <1>4, <1>5 DEF XferUnits
<1>7. CASE ~xferFailed'
  <2>1. Receiving'
    BY <1>2, <1>3, <1>4, <1>5, <1>7 DEF Receiving, Counted
  <2> QED BY <1>6, <1>7, <2>1, XferLeads
<1>8. CASE xferFailed'
  <2>1. PartFileFits'
    BY <1>2, <1>5, <1>8 DEF PartFileFits, NoPartFile
  <2>2. ~Unblemished'
    BY <1>8, Zenon DEF Unblemished
  <2> QED BY <1>6, <1>8, <2>1, <2>2, XferLeads
<1> QED BY <1>7, <1>8

LEMMA XferChunk ==
  ASSUME XferInv, NEW n \in 1 .. Ceiling, Xfer!Chunk(n)
  PROVE  XferNames' /\ XferUnits' /\ XferTries' /\ XferPhases'
<1> USE XferBounds, XferParts
<1>1. /\ xferPc = "body" /\ xferSent' = xferSent + n /\ xferSent' <= Ceiling + 1
      /\ UNCHANGED <<xferAttempt, xferHops, Xfer!headVars, xferOk, xferCancel, xferOutcome>>
  BY DEF Xfer!Chunk
<1>2. Receiving /\ xferAttempt' = xferAttempt /\ xferHops' = xferHops
      /\ xferLength' = xferLength /\ xferOutcome' = xferOutcome
  BY <1>1 DEF XferPhases, Xfer!headVars
<1>3. /\ xferReceived \in 0 .. Ceiling + 1 /\ xferPrefix \in 0 .. Magic
      /\ xferStream \in 0 .. Buffered /\ xferSent \in 0 .. Ceiling + 1
      /\ xferDisk \in 0 .. Ceiling + 2 /\ xferLength \in 0 .. Ceiling + 1
      /\ xferDisk + xferStream = xferReceived /\ xferReceived <= Ceiling
      /\ xferReceived + xferPrefix = xferSent
  BY <1>2 DEF XferUnits, Receiving, Counted
<1>4. XferTries'
  BY <1>2 DEF XferTries
<1>5. CASE xferCancel
  <2>1. xferPc' = "close" /\ xferRefusal' = xferRefusal
        /\ UNCHANGED <<xferReceived, xferPrefix, xferStream, xferDisk>>
    BY <1>5, Zenon DEF Xfer!Chunk
  <2>2. XferNames' /\ XferUnits' /\ PartFileFits'
    BY <1>1, <1>2, <1>3, <2>1 DEF XferNames, XferUnits, PartFileFits, NoPartFile
  <2>3. ~Unblemished'
    BY <1>1, <1>5, Zenon DEF Unblemished
  <2> QED BY <1>4, <2>1, <2>2, <2>3, XferLeads
<1>6. CASE ~xferCancel /\ ~xferChecked /\ xferPrefix + n < Magic
  <2>1. xferPrefix' = xferPrefix + n
        /\ UNCHANGED <<xferPc, xferReceived, xferChecked, xferStream, xferFailed, xferRefusal,
                       xferDisk>>
    BY <1>6, Zenon DEF Xfer!Chunk
  <2>2. XferNames' /\ XferUnits'
    BY <1>1, <1>2, <1>3, <1>6, <2>1 DEF XferNames, XferUnits
  <2>3. ~xferChecked' /\ ~xferFailed' /\ ~xferFailed
    BY <1>2, <1>6, <2>1, Zenon DEF Receiving
  <2>4. Receiving'
    BY <1>1, <1>2, <1>3, <1>6, <2>1, <2>3 DEF Receiving, Counted
  <2> QED BY <1>1, <1>4, <2>1, <2>2, <2>4, XferLeads
<1>7. CASE ~xferCancel /\ (xferChecked \/ xferPrefix + n >= Magic)
  <2> DEFINE got == IF xferChecked THEN n ELSE xferPrefix + n
  <2>1. got \in Nat /\ got >= 1
    BY <1>3
  <2>2. ~(~xferChecked /\ xferPrefix + n < Magic)
    BY <1>3, <1>7
  <2>3. \/ /\ xferRefusal' \in {"archive", "bad-prefix"} /\ xferPc' = "close"
           /\ xferPrefix' = IF xferPrefix + n > Magic THEN Magic ELSE xferPrefix + n
           /\ UNCHANGED <<xferReceived, xferStream, xferDisk>>
        \/ /\ xferRefusal' = "too-large" /\ xferPc' = "close"
           /\ xferReceived' = Ceiling + 1
           /\ UNCHANGED <<xferPrefix, xferStream, xferDisk>>
        \/ /\ xferReceived + got <= Ceiling /\ xferChecked' = TRUE
           /\ xferPrefix' = 0 /\ xferReceived' = xferReceived + got
           /\ Xfer!Write(got) /\ xferPc' = IF ~xferFailed' THEN "body" ELSE "close"
           /\ xferRefusal' = xferRefusal
    BY <1>7, <2>2, Zenon DEF Xfer!Chunk, Xfer!Flushed, Xfer!GoesOn
  <2> HIDE DEF got
  <2>4. CASE /\ xferRefusal' \in {"archive", "bad-prefix"} /\ xferPc' = "close"
             /\ xferPrefix' = IF xferPrefix + n > Magic THEN Magic ELSE xferPrefix + n
             /\ UNCHANGED <<xferReceived, xferStream, xferDisk>>
    <3>1. XferNames' /\ XferUnits' /\ PartFileFits'
      BY <1>1, <1>2, <1>3, <2>4
         DEF XferNames, XferUnits, PartFileFits, NoPartFile, Xfer!Refusals
    <3>2. ~Unblemished'
      BY <2>4 DEF Unblemished
    <3> QED BY <1>4, <2>4, <3>1, <3>2, XferLeads
  <2>5. CASE /\ xferRefusal' = "too-large" /\ xferPc' = "close"
             /\ xferReceived' = Ceiling + 1
             /\ UNCHANGED <<xferPrefix, xferStream, xferDisk>>
    <3>1. XferNames' /\ XferUnits' /\ PartFileFits'
      BY <1>1, <1>2, <1>3, <2>5
         DEF XferNames, XferUnits, PartFileFits, NoPartFile, Xfer!Refusals
    <3>2. ~Unblemished'
      BY <2>5 DEF Unblemished
    <3> QED BY <1>4, <2>5, <3>1, <3>2, XferLeads
  <2>6. CASE /\ xferReceived + got <= Ceiling /\ xferChecked' = TRUE
             /\ xferPrefix' = 0 /\ xferReceived' = xferReceived + got
             /\ Xfer!Write(got) /\ xferPc' = IF ~xferFailed' THEN "body" ELSE "close"
             /\ xferRefusal' = xferRefusal
    <3>1. xferChecked'
      BY <2>6, Zenon
    <3>2. XferUnits' /\ XferPhases'
      BY <1>1, <1>2, <1>7, <2>1, <2>6, <3>1, ChunkWritten DEF got
    <3>3. XferNames'
      BY <1>2, <2>6 DEF XferNames
    <3> QED BY <1>4, <3>2, <3>3
  <2> QED BY <2>3, <2>4, <2>5, <2>6
<1> QED
  <2>1. xferCancel \in BOOLEAN /\ xferChecked \in BOOLEAN
    BY Zenon DEF XferFlags
  <2>2. xferPrefix + n < Magic \/ xferPrefix + n >= Magic
    BY <1>3
  <2> QED BY <1>5, <1>6, <1>7, <2>1, <2>2

\* What remains of the exchange: its end, the close, the verdict, and the player.
LEMMA XferEndSteps ==
  ASSUME XferInv, Xfer!BodyEnds \/ Xfer!CloseFile \/ Xfer!Judges \/ Xfer!Cancel
  PROVE  XferNames' /\ XferUnits' /\ XferTries' /\ XferPhases'
<1> USE XferBounds, XferParts
<1>1. CASE Xfer!BodyEnds
  <2>1. UNCHANGED <<xferAttempt, xferHops, Xfer!headVars, Xfer!bodyVars, xferRefusal, xferDisk,
                    xferOutcome>>
        /\ xferPc = "body" /\ xferPc' = "close"
    BY <1>1, Zenon DEF Xfer!BodyEnds
  <2>2. XferNames' /\ XferUnits' /\ XferTries'
    BY <2>1 DEF Xfer!headVars, Xfer!bodyVars, XferNames, XferUnits, XferTries
  <2>3. Receiving
    BY <2>1 DEF XferPhases
  <2>4. Counted'
    BY <2>1, <2>3, Zenon, BodyStays DEF Receiving
  <2>5. PartFileFits'
    BY <2>1, <2>3 DEF Receiving, Counted, PartFileFits, NoPartFile, XferUnits, Xfer!bodyVars
  <2> QED BY <2>1, <2>2, <2>4, <2>5, XferLeads
<1>2. CASE Xfer!CloseFile
  <2>1. UNCHANGED <<xferAttempt, xferHops, Xfer!headVars, xferReceived, xferPrefix, xferChecked,
                    xferFailed, xferSent, xferRefusal, xferOk, xferCancel, xferOutcome>>
        /\ xferPc = "close" /\ xferPc' = "judge" /\ xferStream' = 0
        /\ \/ xferDisk' = xferDisk
           \/ ~NoPartFile /\ xferDisk' = xferDisk + xferStream
    BY <1>2 DEF Xfer!CloseFile, NoPartFile
  <2>2. PartFileFits /\ (Unblemished => Counted)
    BY <2>1 DEF XferPhases
  <2>3. XferNames' /\ XferTries'
    BY <2>1 DEF XferNames, XferTries
  <2>4. xferDisk' \in Xfer!Sizes \cup {Xfer!Absent}
    BY <2>1, <2>2 DEF XferUnits, PartFileFits, NoPartFile
  <2>5. XferUnits'
    BY <2>1, <2>4 DEF Xfer!headVars, XferUnits
  <2>6. Unblemished' => Counted'
    <3>1. Unblemished' = Unblemished
      BY <2>1, Zenon DEF Unblemished
    <3>2. xferDisk + xferStream <= xferReceived => xferDisk' + xferStream' <= xferReceived'
      BY <2>1 DEF XferUnits
    <3>3. Counted => Counted'
      BY <2>1, <3>2, Zenon DEF Counted
    <3> QED BY <3>1, <3>3, <2>2, Zenon
  <2> QED BY <2>1, <2>3, <2>5, <2>6, XferLeads
<1>3. CASE Xfer!Judges
  <2>1. UNCHANGED <<xferAttempt, xferHops, Xfer!headVars, Xfer!bodyVars, xferRefusal, xferDisk>>
        /\ xferPc = "judge" /\ xferPc' = "returned"
        /\ \/ Xfer!Verdict # "none" /\ xferOutcome' = Xfer!Verdict
           \/ Xfer!Verdict = "none" /\ xferOutcome' \in {"none", "invalid"}
    BY <1>3, Zenon DEF Xfer!Judges, Xfer!Returns
  <2>2. Xfer!Verdict \in Xfer!Outcomes
    BY DEF Xfer!Verdict, Xfer!Outcomes, Xfer!Refusals, XferNames
  <2>3. "none" \in Xfer!Outcomes /\ "invalid" \in Xfer!Outcomes
    BY DEF Xfer!Outcomes, Xfer!Refusals
  <2>4. XferNames' /\ XferUnits' /\ XferTries'
    BY <2>1, <2>2, <2>3 DEF Xfer!headVars, Xfer!bodyVars, XferNames, XferUnits, XferTries
  <2>5. CASE Xfer!Verdict = "none"
    <3>1. xferOk /\ ~xferFailed /\ ~xferCancel /\ xferRefusal = "none" /\ xferChecked
          /\ Xfer!LengthAgrees
      BY <2>5 DEF Xfer!Verdict
    <3>2. Counted /\ xferStream = 0
      BY <2>1, <3>1 DEF XferPhases, Unblemished
    <3>3. Accepted
      BY <3>1, <3>2 DEF Counted, Accepted, Xfer!LengthAgrees, XferUnits
    <3>4. Accepted'
      BY <2>1, <3>3, Zenon DEF Accepted, Xfer!headVars, Xfer!bodyVars
    <3> QED BY <2>1, <2>4, <3>4, XferLeads
  <2>6. CASE Xfer!Verdict # "none"
    BY <2>1, <2>4, <2>6, XferLeads
  <2> QED BY <2>5, <2>6
<1>4. CASE Xfer!Cancel
  <2>1. UNCHANGED <<xferPc, xferAttempt, xferHops, Xfer!headVars, Xfer!bodyVars, xferRefusal,
                    xferOk, xferDisk, xferOutcome>>
        /\ xferCancel'
    BY <1>4, Zenon DEF Xfer!Cancel
  <2>2. XferNames' /\ XferUnits' /\ XferTries'
    BY <2>1 DEF Xfer!headVars, Xfer!bodyVars, XferNames, XferUnits, XferTries
  <2>3. /\ NothingRead' = NothingRead /\ Receiving' = Receiving /\ Accepted' = Accepted
        /\ PartFileFits' = PartFileFits /\ RetryLeft' = RetryLeft /\ xferStream' = xferStream
    <3>1. UNCHANGED <<xferDisk, xferStream, xferReceived, xferPrefix, xferSent, xferChecked,
                      xferFailed, xferRefusal, xferLength, xferAttempt>>
      BY <2>1, Zenon DEF Xfer!headVars, Xfer!bodyVars
    <3>2. NothingRead' = NothingRead /\ RetryLeft' = RetryLeft
      BY <3>1, Zenon DEF NothingRead, RetryLeft
    <3>3. Receiving' = Receiving
      BY <3>1, Zenon DEF Receiving, Counted
    <3>4. Accepted' = Accepted
      BY <3>1, Zenon DEF Accepted
    <3>5. PartFileFits' = PartFileFits
      BY <3>1, Zenon DEF PartFileFits, NoPartFile, Xfer!Absent
    <3> QED BY <3>1, <3>2, <3>3, <3>4, <3>5
  <2>4. ~Unblemished'
    BY <2>1, Zenon DEF Unblemished
  <2>5. XferPhases'
    BY <2>1, <2>3, <2>4 DEF XferPhases
  <2> QED BY <2>2, <2>5
<1> QED BY <1>1, <1>2, <1>3, <1>4

LEMMA XferRests == XferInv /\ UNCHANGED Xfer!vars => XferInv'
<1> SUFFICES ASSUME XferInv, UNCHANGED Xfer!vars PROVE XferInv'
  OBVIOUS
<1>1. UNCHANGED <<xferPc, xferAttempt, xferHops, xferLength, xferAgree, xferReceived, xferPrefix,
                  xferChecked, xferStream, xferFailed, xferRefusal, xferOk, xferDisk, xferSent,
                  xferCancel, xferOutcome>>
  BY DEF Xfer!vars, Xfer!headVars, Xfer!bodyVars
<1>2. /\ XferNames' = XferNames /\ XferFlags' = XferFlags /\ XferUnits' = XferUnits
      /\ XferTries' = XferTries /\ NothingRead' = NothingRead /\ Counted' = Counted
      /\ Unblemished' = Unblemished /\ Accepted' = Accepted /\ NoPartFile' = NoPartFile
      /\ PartFileFits' = PartFileFits /\ RetryLeft' = RetryLeft /\ Receiving' = Receiving
  BY <1>1, Zenon
     DEF XferNames, XferFlags, XferUnits, XferTries, NothingRead, Receiving, Counted, Unblemished,
         Accepted, NoPartFile, PartFileFits, RetryLeft, Xfer!Refusals, Xfer!Outcomes, Xfer!Sizes,
         Xfer!Absent
<1>3. XferPhases' = XferPhases
  BY <1>1, <1>2, Zenon DEF XferPhases
<1> QED BY <1>2, <1>3, Zenon DEF XferInv

LEMMA XferStep == XferInv /\ [Xfer!Next]_(Xfer!vars) => XferInv'
<1> SUFFICES ASSUME XferInv, [Xfer!Next]_(Xfer!vars) PROVE XferInv'
  OBVIOUS
<1>1. CASE Xfer!Next
  <2>1. XferNames' /\ XferUnits' /\ XferTries' /\ XferPhases'
    BY <1>1, XferJobSteps, XferHeadSteps, XferChunk, XferEndSteps DEF Xfer!Next, Xfer!WorkerStep
  <2> QED BY <1>1, <2>1, XferFlagsStep DEF XferInv
<1>2. CASE UNCHANGED Xfer!vars
  BY <1>2, XferRests
<1> QED BY <1>1, <1>2

\* What is accepted for installation is what the server sent, every unit of it counted
\* once and none reported lost, under the ceiling and as long as the sizes that were
\* announced; and the part file that is renamed holds no unit of an earlier try, even
\* where the removal of that try's file failed.
THEOREM AcceptedIsTheBodyAlways == Xfer!Spec => []AcceptedIsTheBody
<1>1. XferInv => AcceptedIsTheBody
  BY DEF XferInv, XferPhases, Accepted, AcceptedIsTheBody, Xfer!AcceptedIsTheBody
<1> QED BY <1>1, XferInit, XferStep, PTL DEF Xfer!Spec

-----------------------------------------------------------------------------
(* The catalogue                                                           *)

\* Every page of a list was made with this filter.
MadeWith(pages, filter) == \A i \in 1 .. Len(pages) : pages[i].filter = filter

\* The walk's generation is read.
Dated == \/ catWorker.pc \in {"fetch", "land", "fail", "pause", "drop", "finish"}
         \/ catWorker.pc = "say" /\ catWorker.then # "wait"

\* The walk goes on to another page.
Paused == catWorker.pc = "pause" \/ (catWorker.pc = "say" /\ catWorker.then = "pause")

\* The walk has landed a page: the list and its stamp are the walk's.
Landed == \/ catWorker.pc \in {"fetch", "fail"} /\ catWorker.fetched > 0
          \/ catWorker.pc \in {"pause", "finish"}
          \/ catWorker.pc = "say" /\ catWorker.then # "wait"

\* Nothing is of a generation that is not counted yet.
CatGenerations == catFetchedGen <= catGeneration /\ catWorker.gen <= catGeneration

\* Between walks the locals are gone.
CatRests ==
  /\ catWorker.pc = "wait" => catWorker.kept = <<>> /\ ~catWorker.torn
  /\ catWorker.pc \in {"wait", "generation"} => catWorker.fetched = 0

\* A walk asks for pages that exist, no more of them than the budget.
CatPages ==
  /\ catWorker.page # 0
  /\ catWorker.fetched <= CataloguePages
  /\ catWorker.pc = "fetch" => catWorker.fetched < CataloguePages
  /\ catWorker.pc = "land" \/ Paused =>
       (catWorker.next # 0 => catWorker.fetched < CataloguePages)
  /\ Paused => catWorker.next # 0

\* The walk's pages have the walk's filter, and that is the current one while its
\* generation is, unless a commit fell between the two reads.
CatFilters ==
  /\ MadeWith(catWorker.kept, catWorker.filter)
  /\ catWorker.pc = "generation" /\ ~catWorker.torn => catWorker.filter = catFilter
  /\ Dated /\ catWorker.gen = catGeneration /\ ~catWorker.torn =>
       catWorker.filter = catFilter

\* A list that has the current stamp has the current filter.
CatList ==
  /\ Landed => catFetchedGen = catWorker.gen /\ catTorn = catWorker.torn
  /\ catFetchedGen = catGeneration /\ ~catTorn => MadeWith(catOffers, catFilter)

CatFrame ==
  /\ catState \in Cat!States /\ catPending \in BOOLEAN /\ catAged \in BOOLEAN
  /\ catBackoff \in BOOLEAN /\ catQuit \in BOOLEAN
  /\ catCaption \in Cat!Captions /\ catClient \in Cat!Clients

CatSettings == catFilter \in Filters /\ catGeneration \in Nat
CatLists == catOffers \in Seq(Cat!Pages) /\ catFetchedGen \in Nat /\ catTorn \in BOOLEAN
CatWorks == catWorker \in Cat!Workers

CatInv == /\ CatFrame /\ CatSettings /\ CatLists /\ CatWorks
          /\ CatGenerations /\ CatRests /\ CatPages /\ CatFilters /\ CatList

LEMMA CatIsTyped == CatInv => Cat!CatalogueTypeOK /\ CurrentUnlessTorn
BY DEF CatInv, CatFrame, CatSettings, CatLists, CatWorks, CatPages, CatList, MadeWith,
       Cat!CatalogueTypeOK, CurrentUnlessTorn, Cat!CurrentUnlessTorn

\* The worker's record has its fields' types.
LEMMA WalkTypes ==
  ASSUME CatWorks
  PROVE  /\ catWorker.filter \in Filters /\ catWorker.gen \in Nat /\ catWorker.page \in Nat
         /\ catWorker.fetched \in Nat /\ catWorker.next \in Nat
         /\ catWorker.kept \in Seq(Cat!Pages) /\ catWorker.say \in Cat!States
         /\ catWorker.then \in {"wait", "pause", "finish"} /\ catWorker.torn \in BOOLEAN
BY DEF CatWorks, Cat!Workers

LEMMA CatParts ==
  ASSUME CatInv
  PROVE  /\ CatFrame /\ CatSettings /\ CatLists /\ CatWorks
         /\ CatGenerations /\ CatRests /\ CatPages /\ CatFilters /\ CatList
BY DEF CatInv

LEMMA NoPages == /\ <<>> \in Seq(Cat!Pages)
                 /\ \A filter : MadeWith(<<>>, filter)
<1>1. <<>> \in Seq(Cat!Pages) /\ Len(<<>>) = 0
  BY EmptySeq
<1>2. 1 .. Len(<<>>) = {}
  BY <1>1
<1> QED BY <1>1, <1>2 DEF MadeWith

LEMMA CatInit == Cat!Init => CatInv
<1> SUFFICES ASSUME Cat!Init PROVE CatInv
  OBVIOUS
<1>1. /\ catFilter \in Filters /\ catGeneration = 1 /\ catOffers = <<>> /\ catFetchedGen = 0
      /\ catTorn = FALSE /\ catWorker = Cat!AtRest(catFilter)
      /\ catState = "idle" /\ catPending = FALSE /\ catAged = FALSE /\ catBackoff = FALSE
      /\ catQuit = FALSE /\ catCaption = [state |-> "idle", some |-> FALSE]
      /\ catClient = [pc |-> "idle", some |-> FALSE]
  BY Zenon DEF Cat!Init
<1>2. /\ catWorker.pc = "wait" /\ catWorker.kept = <<>> /\ catWorker.fetched = 0
      /\ catWorker.page = 1 /\ catWorker.gen = 0 /\ catWorker.then = "wait"
      /\ catWorker.filter = catFilter /\ catWorker.torn = FALSE
  BY <1>1 DEF Cat!AtRest
<1>3. CatWorks
  BY <1>1, NoPages DEF Cat!AtRest, CatWorks, Cat!Workers, Cat!States
<1>4. CatFrame
  BY <1>1 DEF CatFrame, Cat!States, Cat!Captions, Cat!Clients
<1>5. CatSettings /\ CatGenerations
  BY <1>1, <1>2 DEF CatSettings, CatGenerations
<1>8. CatLists
  <2>1. 0 \in Nat
    OBVIOUS
  <2> QED BY <1>1, <2>1, NoPages, Zenon DEF CatLists
<1>6. CatRests /\ CatPages
  BY <1>2, BudgetsAssumption DEF CatRests, CatPages, Paused
<1>7. CatFilters /\ CatList
  BY <1>1, <1>2, NoPages DEF CatFilters, CatList, Dated, Landed
<1> QED BY <1>3, <1>4, <1>5, <1>6, <1>7, <1>8 DEF CatInv

\* The worker's invariants depend on its record alone, the settings and the list.
CatWalkOK == CatWorks /\ CatGenerations /\ CatRests /\ CatPages /\ CatFilters /\ CatList

\* Types of what is not the worker's.
LEMMA CatFrameStep == ASSUME CatInv, Cat!Next PROVE CatFrame' /\ CatSettings' /\ CatLists'
<1> USE CatParts
<1>1. CatSettings'
  <2>1. CASE UNCHANGED Cat!settingsVars
    BY <2>1 DEF CatSettings, Cat!settingsVars
  <2>2. CASE Cat!Commit
    BY <2>2 DEF CatSettings, Cat!Commit
  <2> QED BY <2>1, <2>2, Zenon
    DEF Cat!Next, Cat!RequestCatalogueRefresh, Cat!HandleCatalogueWrite,
     Cat!StartWalk, Cat!ClientSays, Cat!Quit, Cat!WorkerStep, Cat!WorkerExits, Cat!BeginsWalk,
     Cat!ReadsGeneration, Cat!FetchPage, Cat!LandPage, Cat!PauseEnds, Cat!DropWalk, Cat!FailWalk,
     Cat!FinishWalk, Cat!WorkerSays, Cat!TimePasses
<1>2. CatLists'
  <2>1. CASE UNCHANGED Cat!listVars
    BY <2>1 DEF CatLists, Cat!listVars
  <2>2. CASE Cat!LandPage \/ Cat!DropWalk
    BY <2>2, NoPages, WalkTypes, Zenon DEF CatLists, Cat!LandPage, Cat!DropWalk, Cat!Dropped
  <2>3. CASE Cat!FailWalk \/ Cat!FinishWalk
    BY <2>3, WalkTypes, Zenon DEF CatLists, Cat!FailWalk, Cat!FinishWalk, Cat!Stamp
  <2> QED BY <2>1, <2>2, <2>3
    DEF Cat!Next, Cat!Commit, Cat!RequestCatalogueRefresh, Cat!HandleCatalogueWrite,
     Cat!StartWalk, Cat!ClientSays, Cat!Quit, Cat!WorkerStep, Cat!WorkerExits, Cat!BeginsWalk,
     Cat!ReadsGeneration, Cat!FetchPage, Cat!PauseEnds, Cat!WorkerSays, Cat!TimePasses
<1>3. catState' \in Cat!States
  BY WalkTypes DEF CatFrame, Cat!States, Cat!Next, Cat!Commit, Cat!RequestCatalogueRefresh,
     Cat!HandleCatalogueWrite, Cat!StartWalk, Cat!ClientSays, Cat!Quit, Cat!WorkerStep,
     Cat!WorkerExits, Cat!BeginsWalk, Cat!ReadsGeneration, Cat!FetchPage, Cat!LandPage,
     Cat!Dropped, Cat!PauseEnds, Cat!DropWalk, Cat!FailWalk, Cat!FailedState, Cat!FinishWalk,
     Cat!WorkerSays, Cat!TimePasses
<1>4. catPending' \in {catPending, TRUE, FALSE} /\ catAged' \in {catAged, TRUE, FALSE}
      /\ catBackoff' \in {catBackoff, TRUE, FALSE} /\ catQuit' \in {catQuit, TRUE}
  BY Zenon DEF Cat!Next, Cat!Commit, Cat!RequestCatalogueRefresh, Cat!HandleCatalogueWrite,
     Cat!StartWalk, Cat!ClientSays, Cat!Quit, Cat!WorkerStep, Cat!WorkerExits, Cat!BeginsWalk,
     Cat!ReadsGeneration, Cat!FetchPage, Cat!LandPage, Cat!Dropped, Cat!PauseEnds, Cat!DropWalk,
     Cat!FailWalk, Cat!FinishWalk, Cat!ClearPending, Cat!WorkerSays, Cat!TimePasses, Cat!timeVars
<1>5. catPending' \in BOOLEAN /\ catAged' \in BOOLEAN /\ catBackoff' \in BOOLEAN
      /\ catQuit' \in BOOLEAN
  BY <1>4, Zenon DEF CatFrame
<1>6. catCaption' \in Cat!Captions
  <2>1. CASE catCaption' = catCaption
    BY <2>1 DEF CatFrame
  <2>2. CASE Cat!ClientSays
    BY <2>2 DEF Cat!ClientSays, CatFrame, Cat!Clients, Cat!Captions, Cat!States
  <2>3. CASE Cat!WorkerSays
    BY <2>3, WalkTypes DEF Cat!WorkerSays, Cat!Captions
  <2> QED BY <2>1, <2>2, <2>3, Zenon
    DEF Cat!Next, Cat!Commit, Cat!RequestCatalogueRefresh, Cat!HandleCatalogueWrite,
     Cat!StartWalk, Cat!Quit, Cat!WorkerStep, Cat!WorkerExits, Cat!BeginsWalk,
     Cat!ReadsGeneration, Cat!FetchPage, Cat!LandPage, Cat!PauseEnds, Cat!DropWalk, Cat!FailWalk,
     Cat!FinishWalk, Cat!TimePasses
<1>7. catClient' \in Cat!Clients
  <2>1. CASE catClient' = catClient
    BY <2>1 DEF CatFrame
  <2>2. CASE Cat!StartWalk
    BY <2>2 DEF Cat!StartWalk, Cat!Clients
  <2>3. CASE Cat!ClientSays
    BY <2>3 DEF Cat!ClientSays, CatFrame, Cat!Clients
  <2>4. CASE Cat!Quit
    BY <2>4 DEF Cat!Quit, CatFrame, Cat!Clients
  <2> QED BY <2>1, <2>2, <2>3, <2>4, Zenon
    DEF Cat!Next, Cat!Commit, Cat!RequestCatalogueRefresh, Cat!HandleCatalogueWrite,
     Cat!WorkerStep, Cat!WorkerExits, Cat!BeginsWalk,
     Cat!ReadsGeneration, Cat!FetchPage, Cat!LandPage, Cat!PauseEnds, Cat!DropWalk, Cat!FailWalk,
     Cat!FinishWalk, Cat!WorkerSays, Cat!TimePasses
<1> QED BY <1>1, <1>2, <1>3, <1>5, <1>6, <1>7 DEF CatFrame

LEMMA WalkStays ==
  CatWalkOK /\ UNCHANGED <<catWorker, catFilter, catGeneration, catOffers, catFetchedGen, catTorn>>
    => CatWalkOK'
<1> SUFFICES ASSUME CatWalkOK,
                    UNCHANGED <<catWorker, catFilter, catGeneration, catOffers, catFetchedGen,
                                catTorn>>
             PROVE  CatWalkOK'
  OBVIOUS
<1>1. /\ CatWorks' = CatWorks /\ CatGenerations' = CatGenerations /\ CatRests' = CatRests
      /\ CatPages' = CatPages /\ CatFilters' = CatFilters /\ CatList' = CatList
  BY Zenon DEF CatWorks, Cat!Workers, CatGenerations, CatRests, CatPages, CatFilters, CatList,
     Paused, Dated, Landed, MadeWith, Cat!States, Cat!Pages
<1> QED BY <1>1, Zenon DEF CatWalkOK

\* A commit outdates whatever is stamped so far.
LEMMA CommitKeeps == ASSUME CatInv, Cat!Commit PROVE CatWalkOK'
<1> USE CatParts
<1>1. /\ catGeneration' = catGeneration + 1
      /\ catWorker' = [catWorker EXCEPT !.torn = @ \/ catWorker.pc = "generation"]
      /\ catOffers' = catOffers /\ catFetchedGen' = catFetchedGen /\ catTorn' = catTorn
  BY DEF Cat!Commit, Cat!listVars
<1>2. /\ catWorker'.pc = catWorker.pc /\ catWorker'.filter = catWorker.filter
      /\ catWorker'.gen = catWorker.gen /\ catWorker'.page = catWorker.page
      /\ catWorker'.fetched = catWorker.fetched /\ catWorker'.next = catWorker.next
      /\ catWorker'.kept = catWorker.kept /\ catWorker'.then = catWorker.then
  BY <1>1 DEF CatWorks, Cat!Workers
<1>3. /\ catWorker.pc = "generation" => catWorker'.torn
      /\ catWorker.pc # "generation" => catWorker'.torn = catWorker.torn
  <2>1. catWorker'.torn = (catWorker.torn \/ catWorker.pc = "generation")
    BY <1>1 DEF CatWorks, Cat!Workers
  <2>2. catWorker.torn \in BOOLEAN
    BY WalkTypes
  <2> QED BY <2>1, <2>2, Zenon
<1>4. CatWorks'
  <2>1. (catWorker.torn \/ catWorker.pc = "generation") \in BOOLEAN
    OBVIOUS
  <2> DEFINE t == catWorker.torn \/ catWorker.pc = "generation"
  <2>2. catWorker' = [catWorker EXCEPT !.torn = t]
    BY <1>1
  <2> HIDE DEF t
  <2>3. t \in BOOLEAN
    BY <2>1 DEF t
  <2> QED BY <2>2, <2>3 DEF CatWorks, Cat!Workers
<1>5. catGeneration' \in Nat /\ catFetchedGen < catGeneration' /\ catWorker.gen < catGeneration'
      /\ catFetchedGen \in Nat /\ catWorker.gen \in Nat
  BY <1>1, WalkTypes DEF CatSettings, CatLists, CatGenerations
<1>6. catFetchedGen # catGeneration' /\ catWorker.gen # catGeneration'
  BY <1>5
<1>7. CatGenerations'
  BY <1>1, <1>2, <1>5 DEF CatGenerations
<1>8. CatRests'
  BY <1>2, <1>3, Zenon DEF CatRests
<1>9. CatPages'
  BY <1>2 DEF CatPages, Paused
<1>10. CatFilters'
  BY <1>2, <1>3, <1>6, Zenon DEF CatFilters, Dated
<1>11. CatList'
  <2>1. Landed' = Landed /\ (Landed => catWorker.pc # "generation")
    BY <1>2 DEF Landed
  <2> QED BY <1>1, <1>2, <1>3, <1>6, <2>1, Zenon DEF CatList
<1> QED BY <1>4, <1>7, <1>8, <1>9, <1>10, <1>11 DEF CatWalkOK

\* A step of the worker that leaves the settings, the list and its stamp alone.
LEMMA QuietSteps ==
  ASSUME CatInv, Cat!WorkerExits \/ Cat!BeginsWalk \/ Cat!ReadsGeneration \/ Cat!PauseEnds
                 \/ Cat!WorkerSays
  PROVE  CatWalkOK'
<1> USE CatParts
<1>0. /\ catFilter' = catFilter /\ catGeneration' = catGeneration /\ catOffers' = catOffers
      /\ catFetchedGen' = catFetchedGen /\ catTorn' = catTorn
  BY DEF Cat!WorkerExits, Cat!BeginsWalk, Cat!ReadsGeneration, Cat!PauseEnds, Cat!WorkerSays,
     Cat!settingsVars, Cat!listVars
<1>1. CASE Cat!WorkerExits
  <2>1. catWorker' = [catWorker EXCEPT !.pc = "gone"]
    BY <1>1 DEF Cat!WorkerExits
  <2>2. /\ catWorker'.pc = "gone" /\ catWorker'.filter = catWorker.filter
        /\ catWorker'.gen = catWorker.gen /\ catWorker'.page = catWorker.page
        /\ catWorker'.fetched = catWorker.fetched /\ catWorker'.kept = catWorker.kept
    BY <2>1 DEF CatWorks, Cat!Workers
  <2>3. CatWorks'
    BY <2>1 DEF CatWorks, Cat!Workers
  <2>4. CatGenerations' /\ CatRests' /\ CatPages'
    BY <1>0, <2>2 DEF CatGenerations, CatRests, CatPages, Paused
  <2>5. CatFilters' /\ CatList'
    BY <1>0, <2>2 DEF CatFilters, CatList, Dated, Landed
  <2> QED BY <2>3, <2>4, <2>5 DEF CatWalkOK
<1>2. CASE Cat!BeginsWalk
  <2>1. catWorker.pc = "wait"
        /\ catWorker' = [catWorker EXCEPT !.pc = "generation", !.filter = catFilter]
    BY <1>2 DEF Cat!BeginsWalk, Cat!At
  <2>2. /\ catWorker'.pc = "generation" /\ catWorker'.filter = catFilter
        /\ catWorker'.gen = catWorker.gen /\ catWorker'.page = catWorker.page
        /\ catWorker'.fetched = catWorker.fetched /\ catWorker'.kept = <<>>
    BY <2>1 DEF CatWorks, Cat!Workers, CatRests
  <2>3. CatWorks'
    BY <2>1 DEF CatWorks, Cat!Workers, CatSettings
  <2>4. CatGenerations' /\ CatRests' /\ CatPages'
    BY <1>0, <2>1, <2>2 DEF CatGenerations, CatRests, CatPages, Paused
  <2>5. CatFilters' /\ CatList'
    BY <1>0, <2>2, NoPages DEF CatFilters, CatList, Dated, Landed
  <2> QED BY <2>3, <2>4, <2>5 DEF CatWalkOK
<1>3. CASE Cat!ReadsGeneration
  <2>1. catWorker.pc = "generation"
        /\ catWorker' = [catWorker EXCEPT !.pc = "fetch", !.gen = catGeneration]
    BY <1>3 DEF Cat!ReadsGeneration, Cat!At
  <2>2. /\ catWorker'.pc = "fetch" /\ catWorker'.filter = catWorker.filter
        /\ catWorker'.gen = catGeneration /\ catWorker'.page = catWorker.page
        /\ catWorker'.fetched = 0 /\ catWorker'.kept = catWorker.kept
        /\ catWorker'.torn = catWorker.torn
    BY <2>1 DEF CatWorks, Cat!Workers, CatRests
  <2>3. CatWorks'
    BY <2>1 DEF CatWorks, Cat!Workers, CatSettings
  <2>4. CatGenerations' /\ CatRests' /\ CatPages'
    BY <1>0, <2>2, BudgetsAssumption DEF CatGenerations, CatRests, CatPages, Paused, CatSettings
  <2>5. CatFilters'
    BY <1>0, <2>1, <2>2, Zenon DEF CatFilters
  <2>6. CatList'
    <3>1. ~Landed'
      BY <2>2 DEF Landed
    <3> QED BY <1>0, <3>1, Zenon DEF CatList
  <2> QED BY <2>3, <2>4, <2>5, <2>6 DEF CatWalkOK
<1>4. CASE Cat!PauseEnds
  <2>0. catWorker.pc = "pause" /\ Paused /\ Dated /\ Landed
    BY <1>4 DEF Cat!PauseEnds, Cat!At, Paused, Dated, Landed
  <2>1. CASE catWorker' = [catWorker EXCEPT !.pc = "drop"]
    <3>2. /\ catWorker'.pc = "drop" /\ catWorker'.filter = catWorker.filter
          /\ catWorker'.gen = catWorker.gen /\ catWorker'.page = catWorker.page
          /\ catWorker'.fetched = catWorker.fetched /\ catWorker'.kept = catWorker.kept
          /\ catWorker'.torn = catWorker.torn
      BY <2>1 DEF CatWorks, Cat!Workers
    <3>3. CatWorks'
      BY <2>1 DEF CatWorks, Cat!Workers
    <3>4. CatGenerations' /\ CatRests' /\ CatPages'
      BY <1>0, <3>2 DEF CatGenerations, CatRests, CatPages, Paused
    <3>5. CatFilters'
      BY <1>0, <2>0, <3>2, Zenon DEF CatFilters
    <3>6. CatList'
      <4>1. ~Landed'
        BY <3>2 DEF Landed
      <4> QED BY <1>0, <4>1, Zenon DEF CatList
    <3> QED BY <3>3, <3>4, <3>5, <3>6 DEF CatWalkOK
  <2>2. CASE catWorker' = [catWorker EXCEPT !.pc = "fetch", !.page = catWorker.next]
    <3>2. /\ catWorker'.pc = "fetch" /\ catWorker'.filter = catWorker.filter
          /\ catWorker'.gen = catWorker.gen /\ catWorker'.page = catWorker.next
          /\ catWorker'.fetched = catWorker.fetched /\ catWorker'.kept = catWorker.kept
          /\ catWorker'.torn = catWorker.torn
      BY <2>2 DEF CatWorks, Cat!Workers
    <3>3. CatWorks'
      BY <2>2 DEF CatWorks, Cat!Workers
    <3>4. CatGenerations' /\ CatRests' /\ CatPages'
      BY <1>0, <2>0, <3>2 DEF CatGenerations, CatRests, CatPages, Paused
    <3>5. CatFilters'
      BY <1>0, <2>0, <3>2, Zenon DEF CatFilters
    <3>6. CatList'
      BY <1>0, <2>0, <3>2, Zenon DEF CatList
    <3> QED BY <3>3, <3>4, <3>5, <3>6 DEF CatWalkOK
  <2> QED BY <1>4, <2>1, <2>2 DEF Cat!PauseEnds
<1>5. CASE Cat!WorkerSays
  <2>0. catWorker.pc = "say"
    BY <1>5 DEF Cat!WorkerSays, Cat!At
  <2>1. CASE catWorker.then = "wait" /\ catWorker' = Cat!AtRest(catWorker.filter)
    <3>2. /\ catWorker'.pc = "wait" /\ catWorker'.kept = <<>> /\ catWorker'.fetched = 0
          /\ catWorker'.page = 1 /\ catWorker'.gen = 0 /\ catWorker'.then = "wait"
          /\ catWorker'.torn = FALSE
      BY <2>1 DEF Cat!AtRest
    <3>3. CatWorks'
      BY <2>1, NoPages, WalkTypes DEF Cat!AtRest, CatWorks, Cat!Workers, Cat!States
    <3>4. CatGenerations' /\ CatPages'
      BY <1>0, <3>2, BudgetsAssumption DEF CatGenerations, CatPages, Paused, CatSettings
    <3>5. CatRests'
      BY <3>2 DEF CatRests
    <3>6. CatFilters' /\ CatList'
      BY <1>0, <3>2, NoPages DEF CatFilters, CatList, Dated, Landed
    <3> QED BY <3>3, <3>4, <3>5, <3>6 DEF CatWalkOK
  <2>2. CASE catWorker.then # "wait"
             /\ catWorker' = [catWorker EXCEPT !.pc = catWorker.then]
    <3>1. catWorker.then \in {"pause", "finish"} /\ Dated /\ Landed
      BY <2>0, <2>2, WalkTypes DEF Dated, Landed
    <3>2. /\ catWorker'.pc = catWorker.then /\ catWorker'.filter = catWorker.filter
          /\ catWorker'.gen = catWorker.gen /\ catWorker'.page = catWorker.page
          /\ catWorker'.fetched = catWorker.fetched /\ catWorker'.kept = catWorker.kept
          /\ catWorker'.next = catWorker.next /\ catWorker'.torn = catWorker.torn
      BY <2>2 DEF CatWorks, Cat!Workers
    <3>3. CatWorks'
      BY <2>2, <3>1 DEF CatWorks, Cat!Workers
    <3>4. CatGenerations' /\ CatRests' /\ CatPages'
      BY <1>0, <2>0, <3>1, <3>2 DEF CatGenerations, CatRests, CatPages, Paused
    <3>5. CatFilters'
      <4>1. catWorker'.pc # "generation"
        BY <3>1, <3>2
      <4> QED BY <1>0, <3>1, <3>2, <4>1, Zenon DEF CatFilters
    <3>6. CatList'
      BY <1>0, <3>1, <3>2, Zenon DEF CatList
    <3> QED BY <3>3, <3>4, <3>5, <3>6 DEF CatWalkOK
  <2> QED BY <1>5, <2>1, <2>2 DEF Cat!WorkerSays
<1> QED BY <1>1, <1>2, <1>3, <1>4, <1>5

\* A page number after which nothing, or one that exists and fits the budget.
LEMMA NextPages ==
  ASSUME NEW fetched \in Nat, NEW number \in Nat, NEW more \in BOOLEAN
  PROVE  /\ Cat!NextPageAfter(fetched, number, more) \in Nat
         /\ Cat!NextPageAfter(fetched, number, more) # 0 => fetched < CataloguePages
BY BudgetsAssumption DEF Cat!NextPageAfter

LEMMA AppendPage ==
  ASSUME NEW pages \in Seq(Cat!Pages), NEW filter \in Filters, NEW page \in Nat \ {0},
         MadeWith(pages, filter)
  PROVE  LET more == Append(pages, [filter |-> filter, page |-> page])
         IN  more \in Seq(Cat!Pages) /\ MadeWith(more, filter)
<1> DEFINE it == [filter |-> filter, page |-> page]
<1>1. it \in Cat!Pages /\ it.filter = filter
  BY DEF Cat!Pages
<1> HIDE DEF it
<1>2. /\ Append(pages, it) \in Seq(Cat!Pages) /\ Len(Append(pages, it)) = Len(pages) + 1
      /\ \A i \in 1 .. Len(pages) : Append(pages, it)[i] = pages[i]
      /\ Append(pages, it)[Len(pages) + 1] = it
  BY <1>1, AppendProperties
<1>3. Len(pages) \in Nat
  BY LenProperties
<1>4. \A i \in 1 .. Len(pages) + 1 : i \in 1 .. Len(pages) \/ i = Len(pages) + 1
  BY <1>3
<1>5. MadeWith(Append(pages, it), filter)
  BY <1>1, <1>2, <1>4 DEF MadeWith
<1> QED BY <1>2, <1>5 DEF it

LEMMA FetchKeeps == ASSUME CatInv, Cat!FetchPage PROVE CatWalkOK'
<1> USE CatParts
<1>0. /\ catFilter' = catFilter /\ catGeneration' = catGeneration /\ catOffers' = catOffers
      /\ catFetchedGen' = catFetchedGen /\ catTorn' = catTorn /\ catWorker.pc = "fetch"
  BY DEF Cat!FetchPage, Cat!At, Cat!settingsVars, Cat!listVars
<1>1. Dated /\ catWorker.fetched < CataloguePages /\ CataloguePages \in Nat
  BY <1>0, BudgetsAssumption DEF Dated, CatPages
<1>2. CASE catWorker' = [catWorker EXCEPT !.pc = "fail"]
  <2>2. /\ catWorker'.pc = "fail" /\ catWorker'.filter = catWorker.filter
        /\ catWorker'.gen = catWorker.gen /\ catWorker'.page = catWorker.page
        /\ catWorker'.fetched = catWorker.fetched /\ catWorker'.kept = catWorker.kept
        /\ catWorker'.torn = catWorker.torn
    BY <1>2 DEF CatWorks, Cat!Workers
  <2>3. CatWorks'
    BY <1>2 DEF CatWorks, Cat!Workers
  <2>4. CatGenerations' /\ CatRests' /\ CatPages'
    BY <1>0, <2>2 DEF CatGenerations, CatRests, CatPages, Paused
  <2>5. CatFilters'
    BY <1>0, <1>1, <2>2, Zenon DEF CatFilters
  <2>6. CatList'
    <3>1. Landed' => Landed
      BY <1>0, <2>2 DEF Landed
    <3> QED BY <1>0, <2>2, <3>1, Zenon DEF CatList
  <2> QED BY <2>3, <2>4, <2>5, <2>6 DEF CatWalkOK
<1>3. ASSUME NEW number \in 0 .. catWorker.page + MaxAhead, NEW more \in BOOLEAN,
             NEW some \in BOOLEAN,
             catWorker' = [catWorker EXCEPT
               !.pc = "land", !.fetched = catWorker.fetched + 1,
               !.kept = IF some THEN Append(@, [filter |-> catWorker.filter,
                                                page |-> catWorker.page])
                                ELSE @,
               !.next = Cat!NextPageAfter(catWorker.fetched + 1, number, more)]
      PROVE  CatWalkOK'
  <2> DEFINE fetched == catWorker.fetched + 1
             next == Cat!NextPageAfter(fetched, number, more)
             kept == IF some THEN Append(catWorker.kept, [filter |-> catWorker.filter,
                                                          page |-> catWorker.page])
                     ELSE catWorker.kept
  <2>1. fetched \in Nat /\ fetched # 0 /\ fetched <= CataloguePages
    BY <1>1, WalkTypes
  <2>2. next \in Nat /\ (next # 0 => fetched < CataloguePages)
    <3>1. number \in Nat
      BY WalkTypes, BudgetsAssumption
    <3> QED BY <3>1, <2>1, NextPages
  <2>3. kept \in Seq(Cat!Pages) /\ MadeWith(kept, catWorker.filter)
    <3>1. catWorker.page \in Nat \ {0} /\ catWorker.filter \in Filters
          /\ catWorker.kept \in Seq(Cat!Pages) /\ MadeWith(catWorker.kept, catWorker.filter)
      BY WalkTypes DEF CatPages, CatFilters
    <3>2. CASE some
      <4>1. kept = Append(catWorker.kept, [filter |-> catWorker.filter,
                                           page |-> catWorker.page])
        BY <3>2
      <4> HIDE DEF kept
      <4> QED BY <3>1, <4>1, AppendPage
    <3>3. CASE ~some
      BY <3>1, <3>3
    <3> QED BY <3>2, <3>3
  <2>4. catWorker' = [catWorker EXCEPT !.pc = "land", !.fetched = fetched, !.kept = kept,
                                       !.next = next]
    BY <1>3
  <2> HIDE DEF fetched, next, kept
  <2>5. /\ catWorker'.pc = "land" /\ catWorker'.filter = catWorker.filter
        /\ catWorker'.gen = catWorker.gen /\ catWorker'.page = catWorker.page
        /\ catWorker'.fetched = fetched /\ catWorker'.kept = kept
        /\ catWorker'.next = next /\ catWorker'.torn = catWorker.torn
    BY <2>4 DEF CatWorks, Cat!Workers
  <2>6. CatWorks'
    BY <2>1, <2>2, <2>3, <2>4 DEF CatWorks, Cat!Workers
  <2>7. CatGenerations' /\ CatRests' /\ CatPages'
    BY <1>0, <2>1, <2>2, <2>5 DEF CatGenerations, CatRests, CatPages, Paused
  <2>8. CatFilters'
    BY <1>0, <1>1, <2>3, <2>5, Zenon DEF CatFilters
  <2>9. CatList'
    <3>1. ~Landed'
      BY <2>5 DEF Landed
    <3> QED BY <1>0, <3>1, Zenon DEF CatList
  <2> QED BY <2>6, <2>7, <2>8, <2>9 DEF CatWalkOK
<1> QED BY <1>2, <1>3 DEF Cat!FetchPage

\* The walk is dropped: its pages and the list are gone.
LEMMA DropKeeps ==
  ASSUME CatInv, Cat!Dropped, UNCHANGED <<catFilter, catGeneration>>,
         catWorker.pc \in {"land", "drop"},
         catWorker' = [catWorker EXCEPT !.pc = "say", !.say = "idle", !.then = "wait",
                                        !.kept = <<>>]
  PROVE  CatWalkOK'
<1> USE CatParts
<1>1. catOffers' = <<>> /\ catFetchedGen' = catFetchedGen /\ catTorn' = catTorn
  BY DEF Cat!Dropped
<1>2. /\ catWorker'.pc = "say" /\ catWorker'.then = "wait"
      /\ catWorker'.gen = catWorker.gen /\ catWorker'.page = catWorker.page
      /\ catWorker'.fetched = catWorker.fetched /\ catWorker'.kept = <<>>
  BY DEF CatWorks, Cat!Workers
<1>3. CatWorks'
  BY NoPages DEF CatWorks, Cat!Workers, Cat!States
<1>4. CatGenerations' /\ CatRests' /\ CatPages'
  BY <1>1, <1>2 DEF CatGenerations, CatRests, CatPages, Paused
<1>5. CatFilters'
  BY <1>1, <1>2, NoPages DEF CatFilters, Dated
<1>6. CatList'
  BY <1>1, <1>2, NoPages DEF CatList, Landed
<1> QED BY <1>3, <1>4, <1>5, <1>6 DEF CatWalkOK

\* The page lands on the list, which takes the walk's stamp.
LEMMA LandKeeps == ASSUME CatInv, Cat!LandPage PROVE CatWalkOK'
<1> USE CatParts
<1>0. catFilter' = catFilter /\ catGeneration' = catGeneration /\ catWorker.pc = "land" /\ Dated
  BY DEF Cat!LandPage, Cat!At, Cat!settingsVars, Dated
<1>1. CASE Cat!Outdated
  BY <1>0, <1>1, DropKeeps DEF Cat!LandPage
<1>2. CASE ~Cat!Outdated
  <2> DEFINE then == IF catWorker.next = 0 THEN "finish" ELSE "pause"
  <2>1. /\ catOffers' = catWorker.kept /\ catFetchedGen' = catWorker.gen
        /\ catTorn' = catWorker.torn /\ catWorker.gen = catGeneration
        /\ catWorker' = [catWorker EXCEPT !.pc = "say", !.say = "fetching", !.then = then]
    BY <1>2 DEF Cat!LandPage, Cat!Outdated, Cat!Says
  <2>2. then \in {"finish", "pause"} /\ (then = "pause" => catWorker.next # 0)
    OBVIOUS
  <2> HIDE DEF then
  <2>3. /\ catWorker'.pc = "say" /\ catWorker'.filter = catWorker.filter
        /\ catWorker'.gen = catWorker.gen /\ catWorker'.page = catWorker.page
        /\ catWorker'.fetched = catWorker.fetched /\ catWorker'.kept = catWorker.kept
        /\ catWorker'.next = catWorker.next /\ catWorker'.torn = catWorker.torn
        /\ catWorker'.then = then
    BY <2>1 DEF CatWorks, Cat!Workers
  <2>4. CatWorks'
    BY <2>1, <2>2 DEF CatWorks, Cat!Workers, Cat!States
  <2>5. CatGenerations' /\ CatRests' /\ CatPages'
    BY <1>0, <2>1, <2>2, <2>3 DEF CatGenerations, CatRests, CatPages, Paused
  <2>6. CatFilters'
    <3>1. catWorker'.pc # "generation"
      BY <2>3
    <3> QED BY <1>0, <2>3, <3>1, Zenon DEF CatFilters
  <2>7. CatList'
    BY <1>0, <2>1, <2>3, Zenon DEF CatList, CatFilters
  <2> QED BY <2>4, <2>5, <2>6, <2>7 DEF CatWalkOK
<1> QED BY <1>1, <1>2

\* A walk ends: its stamp is the list's already, when a page of it landed.
LEMMA EndKeeps == ASSUME CatInv, Cat!FailWalk \/ Cat!FinishWalk PROVE CatWalkOK'
<1> USE CatParts
<1>1. /\ catFilter' = catFilter /\ catGeneration' = catGeneration /\ catOffers' = catOffers
      /\ catTorn' = catTorn /\ catFetchedGen' = catFetchedGen
      /\ \E s \in Cat!States :
           catWorker' = [catWorker EXCEPT !.pc = "say", !.say = s, !.then = "wait"]
  <2>1. CASE Cat!FailWalk
    <3>1. catWorker.pc = "fail" /\ catWorker.fetched \in Nat
      BY <2>1, WalkTypes DEF Cat!FailWalk, Cat!At
    <3>2. catWorker.fetched > 0 => catWorker.gen = catFetchedGen
      BY <3>1 DEF CatList, Landed
    <3> QED BY <2>1, <3>2
       DEF Cat!FailWalk, Cat!Stamp, Cat!Says, Cat!SaysOutcome, Cat!FailedState, Cat!States,
           Cat!settingsVars
  <2>2. CASE Cat!FinishWalk
    <3>1. catWorker.gen = catFetchedGen
      BY <2>2 DEF Cat!FinishWalk, Cat!At, CatList, Landed
    <3> QED BY <2>2, <3>1 DEF Cat!FinishWalk, Cat!Stamp, Cat!Says, Cat!States, Cat!settingsVars
  <2> QED BY <2>1, <2>2
<1>2. PICK s \in Cat!States :
        catWorker' = [catWorker EXCEPT !.pc = "say", !.say = s, !.then = "wait"]
  BY <1>1
<1>3. /\ catWorker'.pc = "say" /\ catWorker'.then = "wait"
      /\ catWorker'.filter = catWorker.filter
      /\ catWorker'.gen = catWorker.gen /\ catWorker'.page = catWorker.page
      /\ catWorker'.fetched = catWorker.fetched /\ catWorker'.kept = catWorker.kept
  BY <1>2 DEF CatWorks, Cat!Workers
<1>4. CatWorks'
  BY <1>2 DEF CatWorks, Cat!Workers
<1>5. CatGenerations' /\ CatRests' /\ CatPages'
  BY <1>1, <1>3 DEF CatGenerations, CatRests, CatPages, Paused
<1>6. CatFilters'
  BY <1>1, <1>3 DEF CatFilters, Dated
<1>7. CatList'
  <2>1. ~Landed'
    BY <1>3 DEF Landed
  <2> QED BY <1>1, <2>1, Zenon DEF CatList
<1> QED BY <1>4, <1>5, <1>6, <1>7 DEF CatWalkOK

LEMMA CatStep == CatInv /\ [Cat!Next]_(Cat!vars) => CatInv'
<1> SUFFICES ASSUME CatInv, [Cat!Next]_(Cat!vars) PROVE CatInv'
  OBVIOUS
<1>0. CatWalkOK
  BY DEF CatInv, CatWalkOK
<1>1. CASE Cat!Next
  <2> SUFFICES CatWalkOK'
    BY <1>1, CatFrameStep DEF CatInv, CatWalkOK
  <2>1. CASE Cat!Commit
    BY <2>1, CommitKeeps
  <2>2. CASE Cat!RequestCatalogueRefresh \/ Cat!HandleCatalogueWrite \/ Cat!ClientSays
             \/ Cat!Quit \/ Cat!TimePasses
    <3>1. UNCHANGED <<catWorker, catFilter, catGeneration, catOffers, catFetchedGen, catTorn>>
      BY <2>2 DEF Cat!RequestCatalogueRefresh, Cat!HandleCatalogueWrite, Cat!StartWalk,
         Cat!ClientSays, Cat!Quit, Cat!TimePasses, Cat!settingsVars, Cat!listVars
    <3> QED BY <1>0, <3>1, WalkStays
  <2>3. CASE Cat!WorkerStep
    <3>1. ASSUME Cat!DropWalk PROVE CatWalkOK'
      BY <3>1, DropKeeps DEF Cat!DropWalk, Cat!At, Cat!settingsVars
    <3> QED BY <2>3, <3>1, QuietSteps, FetchKeeps, LandKeeps, EndKeeps DEF Cat!WorkerStep
  <2> QED BY <1>1, <2>1, <2>2, <2>3 DEF Cat!Next
<1>2. CASE UNCHANGED Cat!vars
  <2>1. UNCHANGED <<catWorker, catFilter, catGeneration, catOffers, catFetchedGen, catTorn>>
        /\ UNCHANGED <<catState, catPending, catAged, catBackoff, catQuit, catCaption, catClient>>
    BY <1>2, Zenon DEF Cat!vars, Cat!settingsVars, Cat!listVars, Cat!timeVars
  <2>2. CatWalkOK'
    BY <1>0, <2>1, WalkStays
  <2>3. CatFrame' = CatFrame /\ CatSettings' = CatSettings /\ CatLists' = CatLists
    BY <2>1, Zenon DEF CatFrame, CatSettings, CatLists, Cat!States, Cat!Captions, Cat!Clients,
       Cat!Pages
  <2> QED BY <2>2, <2>3, Zenon DEF CatInv, CatWalkOK
<1> QED BY <1>1, <1>2

\* A list whose stamp is the current generation was made with the current filter, unless
\* a commit fell between the walk's two reads of the settings: whenever else it fell,
\* before a page, while an answer was out or in the pause.
THEOREM CurrentUnlessTornAlways == Cat!Spec => []CurrentUnlessTorn
BY CatIsTyped, CatInit, CatStep, PTL DEF Cat!Spec

-----------------------------------------------------------------------------
(* The search: the session's generation is the job's, and whatever carries *)
(* that generation, the posted job or the worker, carries the text in the  *)
(* field; at most one of the two does.  Nothing but the script changes the *)
(* field or the filter, and not while it is behind the modal, so a page    *)
(* that is accepted answers the text in the field under the current filter.*)

SrchJobs == [gen : Nat \ {0}, text : Queries, filter : Filters, done : 0 .. SearchPages - 1]
SrchStates == {"idle", "editing", "too-short", "searching", "results", "empty", "failed"}
SrchPlaces == {"menu", "keyboard", "done", "post", "popup", "modal", "closed", "take", "mark",
               "browse"}
SrchPosts == [gen : Nat, text : Srch!Texts]
SrchWorkers == [pc : {"wait", "check", "fetch", "accept", "fail", "pause"}, gen : Nat,
                text : Srch!Texts, page : 1 .. SearchPages]

SrchSession ==
  /\ srchFilter \in Filters /\ srchCommits \in 0 .. MaxCommits
  /\ srchField \in Srch!Texts /\ srchState \in SrchStates /\ srchGuest \in SrchPlaces
SrchFlags == /\ srchShow \in BOOLEAN /\ srchOpen \in BOOLEAN
             /\ srchSeed \in BOOLEAN /\ srchBackoff \in BOOLEAN
SrchLists == srchMatches \subseteq Srch!Answers /\ srchListed \subseteq Srch!Answers
SrchTasks == /\ srchGeneration \in Nat /\ srchJob \in {Srch!NoJob} \cup SrchJobs
             /\ srchSlot \in SrchPosts /\ srchWorker \in SrchWorkers

\* Posts and jobs are of generations counted so far.
SrchGenerations == /\ srchGeneration >= 1 /\ srchSlot.gen <= srchGeneration
                   /\ srchWorker.gen <= srchGeneration

\* While the session searches, its job is the text in the field under the current
\* filter, and the script is behind the modal or on its way; the job is in the slot
\* or with the worker, never in both.
Searching ==
  srchState = "searching" =>
    /\ srchGuest \in {"post", "done", "popup", "modal"}
    /\ srchJob \in SrchJobs
    /\ srchJob.gen = srchGeneration /\ srchJob.text = srchField
    /\ srchJob.filter = srchFilter
    /\ srchSlot.gen = srchGeneration =>
         srchSlot.text = srchField /\ srchJob.done = 0 /\ srchWorker.gen # srchGeneration
    /\ srchWorker.gen = srchGeneration =>
         srchWorker.text = srchField /\ srchWorker.page = srchJob.done + 1

\* A job is posted once.
PostsOnce ==
  srchGuest = "post" =>
    /\ srchState = "searching" /\ srchJob.done = 0
    /\ srchSlot.gen # srchGeneration /\ srchWorker.gen # srchGeneration

\* What has landed answers the text in the field; a seeded field has no answer.
MatchesAnswer ==
  /\ srchGuest \notin {"menu", "keyboard"} =>
       \A a \in srchMatches : a.text = srchField /\ a.filter = srchFilter
  /\ srchSeed => srchMatches = {} /\ srchState # "searching"
  /\ srchGuest = "take" => srchMatches # {}
  /\ srchGuest \in {"closed", "take"} => srchState # "searching"

SrchClaims == /\ SrchGenerations /\ Searching /\ PostsOnce /\ MatchesAnswer
              /\ ListedIsAnswer

SrchInv == SrchSession /\ SrchFlags /\ SrchLists /\ SrchTasks /\ SrchClaims

LEMMA SrchIsTyped == SrchInv => Srch!SearchTypeOK /\ ListedIsAnswer
BY Zenon DEF SrchInv, SrchSession, SrchFlags, SrchLists, SrchTasks, SrchClaims, SrchStates,
   SrchPlaces, SrchPosts, SrchWorkers, SrchJobs, Srch!SearchTypeOK

LEMMA SrchInit == Srch!Init => SrchInv
<1> SUFFICES ASSUME Srch!Init PROVE SrchInv
  OBVIOUS
<1>1. SrchSession
  BY BudgetsAssumption DEF Srch!Init, SrchSession, SrchStates, SrchPlaces, Srch!Texts
<1>2. SrchFlags
  BY Zenon DEF Srch!Init, SrchFlags
<1>3. SrchLists
  BY DEF Srch!Init, SrchLists
<1>4. SrchTasks
  BY BudgetsAssumption DEF Srch!Init, SrchTasks, SrchPosts, SrchWorkers, Srch!NoPost, Srch!NoWork,
     Srch!Texts
<1>5. SrchClaims
  BY DEF Srch!Init, SrchClaims, SrchGenerations, Searching, PostsOnce, MatchesAnswer,
     ListedIsAnswer, Srch!ListedIsAnswer, Srch!NoPost, Srch!NoWork
<1> QED BY <1>1, <1>2, <1>3, <1>4, <1>5 DEF SrchInv

LEMMA SrchParts ==
  ASSUME SrchInv
  PROVE  /\ SrchSession /\ SrchFlags /\ SrchLists /\ SrchTasks
         /\ SrchGenerations /\ Searching /\ PostsOnce /\ MatchesAnswer /\ Srch!ListedIsAnswer
BY DEF SrchInv, SrchClaims, ListedIsAnswer

\* The answer of a current page is to the text in the field.
LEMMA CurrentPage ==
  ASSUME SrchInv, Srch!Current
  PROVE  /\ srchState = "searching" /\ srchJob \in SrchJobs
         /\ srchJob.gen = srchGeneration /\ srchJob.filter = srchFilter
         /\ srchWorker.gen = srchGeneration /\ srchWorker.text = srchField
         /\ srchJob.text = srchField /\ srchField \in Queries
         /\ srchWorker.page = srchJob.done + 1 /\ srchSlot.gen # srchGeneration
         /\ srchGuest \in {"post", "done", "popup", "modal"} /\ srchGuest # "post"
<1>1. srchState = "searching" /\ srchJob.gen = srchWorker.gen
  BY DEF Srch!Current
<1>2. /\ srchGuest \in {"post", "done", "popup", "modal"}
      /\ srchJob \in SrchJobs /\ srchJob.gen = srchGeneration /\ srchJob.text = srchField
      /\ srchJob.filter = srchFilter
  BY <1>1, SrchParts DEF Searching
<1> QED BY <1>1, <1>2, SrchParts DEF Searching, PostsOnce, SrchJobs

-----------------------------------------------------------------------------
\* What an action of the script or the player leaves with the worker, and the rest.
LEMMA SrchScript ==
  ASSUME SrchInv,
         \/ Srch!OpenSearch \/ Srch!SearchSetText \/ Srch!KeyboardCancel \/ Srch!SubmitRefused
         \/ Srch!ShowModal \/ Srch!ModalCloses \/ Srch!LooksAtAnswer \/ Srch!SearchOffers
         \/ Srch!SearchMarkShown \/ Srch!LeaveBrowser \/ Srch!Commit \/ Srch!BackoffEnds
  PROVE  SrchInv'
<1> USE SrchParts
<1>1. srchGeneration' = srchGeneration /\ srchJob' = srchJob /\ srchSlot' = srchSlot
      /\ srchWorker' = srchWorker
  BY Zenon DEF Srch!OpenSearch, Srch!SearchSetText, Srch!KeyboardCancel, Srch!SubmitRefused,
     Srch!ShowModal, Srch!ModalCloses, Srch!LooksAtAnswer, Srch!SearchOffers,
     Srch!SearchMarkShown, Srch!LeaveBrowser, Srch!Commit, Srch!BackoffEnds
<1>2. SrchTasks' /\ SrchGenerations'
  BY <1>1 DEF SrchTasks, SrchGenerations, SrchPosts, SrchWorkers, SrchJobs, Srch!Texts, Srch!NoJob
<1>3. SrchFlags'
  BY Zenon DEF Srch!OpenSearch, Srch!SearchSetText, Srch!KeyboardCancel, Srch!SubmitRefused,
     Srch!ShowModal, Srch!ModalCloses, Srch!LooksAtAnswer, Srch!SearchOffers,
     Srch!SearchMarkShown, Srch!LeaveBrowser, Srch!Commit, Srch!BackoffEnds,
     SrchFlags, Srch!answerVars, Srch!MarkSeen
<1>4. SrchSession'
  BY BudgetsAssumption DEF Srch!OpenSearch, Srch!SearchSetText, Srch!KeyboardCancel,
     Srch!SubmitRefused,
     Srch!ShowModal, Srch!ModalCloses, Srch!LooksAtAnswer, Srch!SearchOffers,
     Srch!SearchMarkShown, Srch!LeaveBrowser, Srch!Commit, Srch!BackoffEnds, Srch!Goes,
     SrchSession, SrchStates, SrchPlaces, Srch!Texts, Srch!settingsVars
<1>5. SrchLists'
  BY DEF Srch!OpenSearch, Srch!SearchSetText, Srch!KeyboardCancel, Srch!SubmitRefused,
     Srch!ShowModal, Srch!ModalCloses, Srch!LooksAtAnswer, Srch!SearchOffers,
     Srch!SearchMarkShown, Srch!LeaveBrowser, Srch!Commit, Srch!BackoffEnds,
     SrchLists, Srch!answerVars, Srch!Answers
<1>6. Searching' /\ PostsOnce' /\ MatchesAnswer' /\ Srch!ListedIsAnswer'
  <2> USE <1>1 DEF Searching, PostsOnce, MatchesAnswer, Srch!ListedIsAnswer, Srch!Goes,
                   Srch!settingsVars, Srch!answerVars
  <2>1. CASE Srch!OpenSearch
    BY <2>1 DEF Srch!OpenSearch
  <2>2. CASE Srch!SearchSetText
    BY <2>2 DEF Srch!SearchSetText
  <2>3. CASE Srch!KeyboardCancel
    BY <2>3 DEF Srch!KeyboardCancel
  <2>4. CASE Srch!SubmitRefused
    BY <2>4 DEF Srch!SubmitRefused
  <2>5. CASE Srch!ShowModal
    BY <2>5 DEF Srch!ShowModal
  <2>6. CASE Srch!ModalCloses
    BY <2>6 DEF Srch!ModalCloses
  <2>7. CASE Srch!LooksAtAnswer
    BY <2>7 DEF Srch!LooksAtAnswer, Srch!HasResults
  <2>8. CASE Srch!SearchOffers
    BY <2>8 DEF Srch!SearchOffers
  <2>9. CASE Srch!SearchMarkShown
    BY <2>9 DEF Srch!SearchMarkShown
  <2>10. CASE Srch!LeaveBrowser
    BY <2>10 DEF Srch!LeaveBrowser
  <2>11. CASE Srch!Commit
    BY <2>11 DEF Srch!Commit
  <2>12. CASE Srch!BackoffEnds
    BY <2>12 DEF Srch!BackoffEnds
  <2> QED BY <2>1, <2>2, <2>3, <2>4, <2>5, <2>6, <2>7, <2>8, <2>9, <2>10, <2>11, <2>12
<1> QED BY <1>2, <1>3, <1>4, <1>5, <1>6 DEF SrchInv, SrchClaims, ListedIsAnswer

\* A submit, its post and a cancel.
LEMMA SrchSubmits ==
  ASSUME SrchInv, Srch!SubmitStarts \/ Srch!PostJob \/ Srch!SearchCancel
  PROVE  SrchInv'
<1> USE SrchParts
<1>1. CASE Srch!SubmitStarts
  <2>1. /\ srchGeneration' = srchGeneration + 1 /\ srchField \in Queries
        /\ srchJob' = [gen |-> srchGeneration + 1, text |-> srchField, filter |-> srchFilter,
                       done |-> 0]
        /\ srchMatches' = {} /\ srchState' = "searching" /\ srchGuest' = "post"
        /\ ~srchSeed'
        /\ UNCHANGED <<srchFilter, srchCommits, srchField, srchSlot, srchWorker, srchListed>>
    BY <1>1 DEF Srch!SubmitStarts, Srch!Goes, Srch!settingsVars, SrchSession, Srch!Texts
  <2>2. /\ srchGeneration \in Nat /\ srchSlot.gen \in Nat /\ srchWorker.gen \in Nat
        /\ srchSlot.gen <= srchGeneration /\ srchWorker.gen <= srchGeneration
    BY DEF SrchTasks, SrchPosts, SrchWorkers, SrchGenerations
  <2>3. srchJob' \in SrchJobs
    BY <2>1, <2>2, BudgetsAssumption DEF SrchJobs, SrchSession
  <2>4. SrchTasks'
    BY <2>1, <2>2, <2>3 DEF SrchTasks, SrchPosts, SrchWorkers, Srch!Texts
  <2>5. SrchFlags'
    BY <1>1, Zenon DEF Srch!SubmitStarts, SrchFlags
  <2>6. SrchSession' /\ SrchLists'
    BY <2>1 DEF SrchSession, SrchLists, SrchStates, SrchPlaces, Srch!Texts, Srch!Answers
  <2>7. SrchClaims'
    BY <2>1, <2>2, <2>3 DEF SrchClaims, SrchGenerations, Searching, PostsOnce, MatchesAnswer,
       ListedIsAnswer, Srch!ListedIsAnswer
  <2> QED BY <2>4, <2>5, <2>6, <2>7 DEF SrchInv
<1>2. CASE Srch!PostJob
  <2>1. /\ srchGuest = "post" /\ srchGuest' \in {"popup", "done"}
        /\ srchSlot' = [gen |-> srchGeneration, text |-> srchField]
        /\ UNCHANGED <<srchFilter, srchCommits, srchField, srchState, srchGeneration, srchJob,
                       srchMatches, srchSeed, srchWorker, srchListed>>
    BY <1>2 DEF Srch!PostJob, Srch!Post, Srch!settingsVars, Srch!answerVars
  <2>2. SrchTasks'
    BY <2>1 DEF SrchTasks, SrchSession, SrchPosts, SrchWorkers, SrchJobs, Srch!Texts, Srch!NoJob
  <2>3. SrchFlags'
    BY <1>2, Zenon DEF Srch!PostJob, SrchFlags, Srch!answerVars
  <2>4. SrchSession' /\ SrchLists'
    BY <2>1 DEF SrchSession, SrchLists, SrchStates, SrchPlaces, Srch!Texts, Srch!Answers
  <2>5. SrchClaims'
    BY <2>1 DEF SrchClaims, SrchGenerations, Searching, PostsOnce, MatchesAnswer, SrchTasks,
       ListedIsAnswer, Srch!ListedIsAnswer
  <2> QED BY <2>2, <2>3, <2>4, <2>5 DEF SrchInv
<1>3. CASE Srch!SearchCancel
  <2>1. /\ srchGuest' = "menu" /\ srchState' = "idle" /\ srchMatches' = {}
        /\ srchGeneration' = srchGeneration + 1 /\ srchJob' = Srch!NoJob
        /\ srchField' = Short /\ ~srchSeed'
        /\ UNCHANGED <<srchFilter, srchCommits, srchSlot, srchWorker, srchListed>>
    BY <1>3 DEF Srch!SearchCancel, Srch!DropJob, Srch!Goes, Srch!settingsVars
  <2>2. SrchTasks' /\ SrchGenerations'
    BY <2>1 DEF SrchTasks, SrchGenerations, SrchPosts, SrchWorkers, Srch!Texts
  <2>3. SrchFlags'
    BY <1>3, Zenon DEF Srch!SearchCancel, SrchFlags
  <2>4. SrchSession' /\ SrchLists'
    BY <2>1 DEF SrchSession, SrchLists, SrchStates, SrchPlaces, Srch!Texts, Srch!Answers
  <2>5. Searching' /\ PostsOnce' /\ MatchesAnswer' /\ ListedIsAnswer'
    BY <2>1 DEF Searching, PostsOnce, MatchesAnswer, ListedIsAnswer, Srch!ListedIsAnswer
  <2> QED BY <2>2, <2>3, <2>4, <2>5 DEF SrchInv, SrchClaims
<1> QED BY <1>1, <1>2, <1>3

-----------------------------------------------------------------------------
\* What the slot and the worker have to do with the session.
SrchWalkOK == SrchTasks /\ SrchGenerations /\ Searching /\ PostsOnce

\* The worker takes a job, asks, hears, and drops what is no longer wanted.
LEMMA SrchQuiet ==
  ASSUME SrchInv,
         Srch!TakesJob \/ Srch!ChecksPage \/ Srch!Answered \/ Srch!Stale
  PROVE  SrchInv'
<1> USE SrchParts
<1>1. UNCHANGED <<srchFilter, srchCommits, srchField, srchState, srchGeneration, srchJob,
                  srchMatches, srchShow, srchOpen, srchSeed, srchBackoff, srchGuest, srchListed>>
  BY Zenon DEF Srch!TakesJob, Srch!ChecksPage, Srch!Answered, Srch!Stale, Srch!SessionStays,
     Srch!settingsVars, Srch!answerVars
<1>2. SrchFlags'
  BY <1>1, Zenon DEF SrchFlags
<1>3. SrchSession' /\ SrchLists' /\ MatchesAnswer' /\ ListedIsAnswer'
  BY <1>1 DEF SrchSession, SrchLists, SrchStates, SrchPlaces, Srch!Texts, Srch!Answers,
     MatchesAnswer, ListedIsAnswer, Srch!ListedIsAnswer
<1>4. SrchWalkOK'
  <2> USE <1>1 DEF SrchWalkOK, SrchTasks, SrchGenerations, Searching, PostsOnce
  <2>0. /\ srchSlot.gen \in Nat /\ srchWorker.gen \in Nat /\ srchGeneration \in Nat
        /\ srchSlot.text \in Srch!Texts
    BY DEF SrchPosts, SrchWorkers
  <2>1. ASSUME srchWorker' = Srch!NoWork, srchSlot' = srchSlot PROVE SrchWalkOK'
    BY <2>0, <2>1, BudgetsAssumption
       DEF Srch!NoWork, SrchWorkers, SrchPosts, SrchJobs, Srch!Texts, Srch!NoJob
  <2>2. ASSUME NEW pc \in {"check", "fetch", "accept", "fail"},
               srchWorker' = [srchWorker EXCEPT !.pc = pc], srchSlot' = srchSlot
        PROVE  SrchWalkOK'
    <3>1. /\ srchWorker' \in SrchWorkers
          /\ srchWorker'.gen = srchWorker.gen /\ srchWorker'.text = srchWorker.text
          /\ srchWorker'.page = srchWorker.page
      BY <2>2 DEF SrchWorkers
    <3> QED BY <2>0, <2>2, <3>1 DEF SrchPosts, SrchJobs, Srch!Texts, Srch!NoJob
  <2>3. CASE Srch!TakesJob
    <3>1. /\ srchWorker' = [pc |-> "check", gen |-> srchSlot.gen, text |-> srchSlot.text,
                            page |-> 1]
          /\ srchSlot' = Srch!NoPost
      BY <2>3 DEF Srch!TakesJob
    <3>2. srchWorker' \in SrchWorkers /\ srchSlot' \in SrchPosts
      BY <2>0, <3>1, BudgetsAssumption DEF SrchWorkers, SrchPosts, Srch!NoPost, Srch!Texts
    <3>3. srchSlot'.gen = 0 /\ srchWorker'.gen = srchSlot.gen /\ srchWorker'.text = srchSlot.text
          /\ srchWorker'.page = 1
      BY <3>1 DEF Srch!NoPost
    <3> QED BY <2>0, <3>2, <3>3 DEF SrchJobs, Srch!NoJob
  <2>4. CASE Srch!ChecksPage \/ Srch!Answered \/ Srch!Stale
    <3>1. srchSlot' = srchSlot
      BY <2>4 DEF Srch!ChecksPage, Srch!Answered, Srch!Stale
    <3>2. \/ srchWorker' = Srch!NoWork
          \/ \E pc \in {"check", "fetch", "accept", "fail"} :
               srchWorker' = [srchWorker EXCEPT !.pc = pc]
      BY <2>4 DEF Srch!ChecksPage, Srch!Answered, Srch!Stale, Srch!WorkerAt, Srch!WorkerEnds
    <3> QED BY <3>1, <3>2, <2>1, <2>2
  <2> QED BY <2>3, <2>4
<1> QED BY <1>2, <1>3, <1>4 DEF SrchInv, SrchClaims, SrchWalkOK

\* A page is accepted, or fails, for the session's own search.
LEMMA SrchLands ==
  ASSUME SrchInv, Srch!FailPage \/ \E some, more \in BOOLEAN : Srch!AcceptPage(some, more)
  PROVE  SrchInv'
<1> USE SrchParts
<1>1. Srch!Current
  BY DEF Srch!FailPage, Srch!AcceptPage
<1>2. /\ srchState = "searching" /\ srchJob \in SrchJobs
      /\ srchJob.gen = srchGeneration /\ srchJob.filter = srchFilter
      /\ srchWorker.gen = srchGeneration /\ srchWorker.text = srchField
      /\ srchJob.text = srchField /\ srchField \in Queries
      /\ srchWorker.page = srchJob.done + 1 /\ srchSlot.gen # srchGeneration
      /\ srchGuest \in {"done", "popup", "modal"}
  BY <1>1, CurrentPage
<1>3. UNCHANGED <<srchFilter, srchCommits, srchField, srchGeneration, srchOpen, srchSeed,
                  srchSlot, srchGuest, srchListed>>
  BY Zenon DEF Srch!FailPage, Srch!AcceptPage, Srch!settingsVars
<1>4. SrchFlags'
  BY <1>3, Zenon DEF Srch!FailPage, Srch!AcceptPage, SrchFlags, Srch!WorkerEnds
<1>5. /\ srchSlot.gen \in Nat /\ srchGeneration \in Nat /\ srchGeneration >= 1
      /\ srchFilter \in Filters /\ srchCommits \in 0 .. MaxCommits /\ srchSlot \in SrchPosts
      /\ srchMatches \subseteq Srch!Answers /\ srchListed \subseteq Srch!Answers
      /\ srchSlot.gen <= srchGeneration /\ srchWorker \in SrchWorkers
      /\ srchField \in Srch!Texts
  BY DEF SrchTasks, SrchPosts, SrchGenerations, SrchSession, SrchLists
<1>6. /\ \A a \in srchMatches : a.text = srchField /\ a.filter = srchFilter
      /\ ~srchSeed
  BY <1>2 DEF MatchesAnswer
<1>7. ASSUME srchJob' = Srch!NoJob, srchWorker' = Srch!NoWork,
             srchState' \in {"results", "empty", "failed"}
      PROVE  /\ SrchTasks' /\ SrchSession' /\ SrchGenerations' /\ Searching' /\ PostsOnce'
  BY <1>2, <1>3, <1>5, <1>7, BudgetsAssumption
     DEF SrchTasks, SrchGenerations, Searching, PostsOnce, SrchSession, SrchStates, SrchPlaces,
         Srch!NoWork, SrchWorkers, Srch!Texts, SrchPosts
<1>8. CASE Srch!FailPage
  <2>1. /\ srchJob' = Srch!NoJob /\ srchWorker' = Srch!NoWork
        /\ srchState' \in {"results", "failed"} /\ srchMatches' = srchMatches
    BY <1>8 DEF Srch!FailPage, Srch!WorkerEnds
  <2>2. SrchLists' /\ MatchesAnswer' /\ ListedIsAnswer'
    BY <1>2, <1>3, <1>5, <1>6, <2>1 DEF SrchLists, MatchesAnswer, ListedIsAnswer,
       Srch!ListedIsAnswer, Srch!Answers
  <2> QED BY <1>4, <1>7, <2>1, <2>2 DEF SrchInv, SrchClaims
<1>9. ASSUME NEW some \in BOOLEAN, NEW more \in BOOLEAN, Srch!AcceptPage(some, more)
      PROVE  SrchInv'
  <2> DEFINE answer == [text |-> srchWorker.text, filter |-> srchJob.filter,
                        page |-> srchWorker.page]
  <2>1. answer \in Srch!Answers /\ answer.text = srchField /\ answer.filter = srchFilter
    BY <1>2, <1>5 DEF Srch!Answers, SrchWorkers
  <2>2. srchMatches' = srchMatches \cup (IF some THEN {answer} ELSE {})
    BY <1>9 DEF Srch!AcceptPage
  <2> HIDE DEF answer
  <2>3. /\ srchMatches' \subseteq Srch!Answers
        /\ \A a \in srchMatches' : a.text = srchField /\ a.filter = srchFilter
    BY <1>5, <1>6, <2>1, <2>2
  <2>4. SrchLists' /\ MatchesAnswer' /\ ListedIsAnswer'
    BY <1>2, <1>3, <1>5, <1>6, <2>3 DEF SrchLists, MatchesAnswer, ListedIsAnswer,
       Srch!ListedIsAnswer, Srch!Answers
  <2>5. CASE more /\ Srch!Budget(srchJob.done + 1)
    <3>1. /\ srchJob' = [srchJob EXCEPT !.done = srchJob.done + 1]
          /\ srchWorker' = [srchWorker EXCEPT !.pc = "pause", !.page = srchWorker.page + 1]
          /\ srchState' = srchState
      BY <1>9, <2>5 DEF Srch!AcceptPage
    <3>2. srchJob.done \in Nat /\ srchJob.done + 1 < SearchPages /\ SearchPages \in Nat
      BY <1>2, <2>5, BudgetsAssumption DEF Srch!Budget, SrchJobs
    <3>3. /\ srchJob' \in SrchJobs /\ srchJob'.gen = srchGeneration /\ srchJob'.text = srchField
          /\ srchJob'.filter = srchFilter /\ srchJob'.done = srchJob.done + 1
      BY <1>2, <3>1, <3>2 DEF SrchJobs
    <3>4. /\ srchWorker' \in SrchWorkers /\ srchWorker'.gen = srchGeneration
          /\ srchWorker'.text = srchField /\ srchWorker'.page = srchJob.done + 2
      <4>1. srchWorker.page + 1 = srchJob.done + 2 /\ srchJob.done + 2 \in 1 .. SearchPages
        BY <1>2, <3>2
      <4>2. srchWorker' = [srchWorker EXCEPT !.pc = "pause", !.page = srchJob.done + 2]
        BY <3>1, <4>1
      <4> QED BY <1>2, <1>5, <4>1, <4>2 DEF SrchWorkers
    <3>5. SrchTasks' /\ SrchSession' /\ SrchGenerations' /\ Searching' /\ PostsOnce'
      BY <1>2, <1>3, <1>5, <3>1, <3>2, <3>3, <3>4
         DEF SrchTasks, SrchGenerations, Searching, PostsOnce, SrchSession, SrchStates, SrchPlaces,
             Srch!Texts, SrchPosts
    <3> QED BY <1>4, <2>4, <3>5 DEF SrchInv, SrchClaims
  <2>6. CASE ~(more /\ Srch!Budget(srchJob.done + 1))
    <3>1. /\ srchJob' = Srch!NoJob /\ srchWorker' = Srch!NoWork
          /\ srchState' \in {"results", "empty"}
      BY <1>9, <2>6 DEF Srch!AcceptPage
    <3> QED BY <1>4, <1>7, <2>4, <3>1 DEF SrchInv, SrchClaims
  <2> QED BY <2>5, <2>6
<1> QED BY <1>8, <1>9

-----------------------------------------------------------------------------
LEMMA SrchRests == SrchInv /\ UNCHANGED Srch!vars => SrchInv'
<1> SUFFICES ASSUME SrchInv, UNCHANGED Srch!vars PROVE SrchInv'
  OBVIOUS
<1>1. UNCHANGED <<srchFilter, srchCommits, srchField, srchState, srchGeneration, srchJob,
                  srchMatches, srchShow, srchOpen, srchSeed, srchBackoff, srchSlot, srchWorker,
                  srchGuest, srchListed>>
  BY Zenon DEF Srch!vars
<1>2. /\ SrchSession' = SrchSession /\ SrchFlags' = SrchFlags /\ SrchLists' = SrchLists
      /\ SrchTasks' = SrchTasks
  BY <1>1, Zenon DEF SrchSession, SrchFlags, SrchLists, SrchTasks, Srch!Texts, Srch!Answers,
     SrchStates, SrchPlaces, SrchPosts, SrchWorkers, SrchJobs, Srch!NoJob
<1>3. /\ SrchGenerations' = SrchGenerations /\ Searching' = Searching /\ PostsOnce' = PostsOnce
      /\ MatchesAnswer' = MatchesAnswer /\ ListedIsAnswer' = ListedIsAnswer
  BY <1>1, Zenon DEF SrchGenerations, Searching, PostsOnce, MatchesAnswer, ListedIsAnswer,
     Srch!ListedIsAnswer, SrchJobs
<1> QED BY <1>2, <1>3, Zenon DEF SrchInv, SrchClaims

LEMMA SrchStep == SrchInv /\ [Srch!Next]_(Srch!vars) => SrchInv'
BY SrchScript, SrchSubmits, SrchQuiet, SrchLands, SrchRests
   DEF Srch!Next, Srch!ScriptStep, Srch!WorkerStep

\* What the browser lists is an answer to the text in the field under the current filter,
\* and is not empty, however many older walks are still answering and whichever of them
\* the worker is on when the text changes.
THEOREM ListedIsAnswerAlways == Srch!Spec => []ListedIsAnswer
BY SrchIsTyped, SrchInit, SrchStep, PTL DEF Srch!Spec

-----------------------------------------------------------------------------
(* The five together                                                       *)

\* A step of the services is a step, or a stutter, of each.
LEMMA EachSteps ==
  [ServicesNext]_allVars => /\ [Next]_vars /\ [Cat!Next]_(Cat!vars) /\ [Srch!Next]_(Srch!vars)
                            /\ [Xfer!Next]_(Xfer!vars) /\ [Art!Next]_(Art!vars)
<1> SUFFICES ASSUME [ServicesNext]_allVars
             PROVE  /\ [Next]_vars /\ [Cat!Next]_(Cat!vars) /\ [Srch!Next]_(Srch!vars)
                    /\ [Xfer!Next]_(Xfer!vars) /\ [Art!Next]_(Art!vars)
  OBVIOUS
<1>1. /\ UNCHANGED catVars => UNCHANGED Cat!vars
      /\ UNCHANGED srchVars => UNCHANGED Srch!vars
      /\ UNCHANGED xferVars => UNCHANGED Xfer!vars
      /\ UNCHANGED artVars => UNCHANGED Art!vars
  <2>1. ASSUME UNCHANGED catVars PROVE UNCHANGED Cat!vars
    BY <2>1 DEF catVars, Cat!vars, Cat!settingsVars, Cat!listVars, Cat!timeVars
  <2>2. ASSUME UNCHANGED srchVars PROVE UNCHANGED Srch!vars
    BY <2>2 DEF srchVars, Srch!vars
  <2>3. ASSUME UNCHANGED xferVars PROVE UNCHANGED Xfer!vars
    BY <2>3 DEF xferVars, Xfer!vars, Xfer!headVars, Xfer!bodyVars
  <2>4. ASSUME UNCHANGED artVars PROVE UNCHANGED Art!vars
    BY <2>4 DEF artVars, Art!vars, Art!bookVars
  <2> QED BY <2>1, <2>2, <2>3, <2>4
<1>2. \/ OnlyLibrary /\ Next
      \/ OnlyCatalogue /\ Cat!Next
      \/ OnlySearch /\ Srch!Next
      \/ OnlyTransfer /\ Xfer!Next
      \/ OnlyArt /\ Art!Next
      \/ UNCHANGED <<vars, catVars, srchVars, xferVars, artVars>>
  BY Zenon DEF ServicesNext, allVars
<1> QED BY <1>1, <1>2, Zenon
        DEF OnlyLibrary, OnlyCatalogue, OnlySearch, OnlyTransfer, OnlyArt

\* Whichever of the five runs, in every state all of what they promise holds: the variables
\* are typed, the published index describes the disk, a fresh list has the current filter,
\* what is listed answers the query, what is accepted is the body, and no cover is owed twice
\* or forgotten.
THEOREM ServicesAreSafe ==
  Services => [](/\ ServicesTypeOK /\ IndexIsCurrent /\ CurrentUnlessTorn /\ ListedIsAnswer
                 /\ AcceptedIsTheBody /\ PendingIsOwed)
<1> DEFINE AllInv == IndexInv /\ CatInv /\ SrchInv /\ XferInv /\ ArtInv
<1>1. ServicesInit => AllInv
  BY IndexInit, CatInit, SrchInit, XferInit, ArtInit, Zenon DEF ServicesInit
<1>2. AllInv /\ [ServicesNext]_allVars => AllInv'
  BY EachSteps, IndexStep, CatStep, SrchStep, XferStep, ArtStep, Zenon
<1>3. AllInv => /\ ServicesTypeOK /\ IndexIsCurrent /\ CurrentUnlessTorn /\ ListedIsAnswer
                /\ AcceptedIsTheBody /\ PendingIsOwed
  <2> SUFFICES ASSUME AllInv
               PROVE  /\ ServicesTypeOK /\ IndexIsCurrent /\ CurrentUnlessTorn /\ ListedIsAnswer
                      /\ AcceptedIsTheBody /\ PendingIsOwed
    OBVIOUS
  <2>1. TypeOK /\ IndexIsCurrent
    BY Zenon DEF IndexInv
  <2>2. AcceptedIsTheBody
    BY DEF XferInv, XferPhases, Accepted, AcceptedIsTheBody, Xfer!AcceptedIsTheBody
  <2>3. PendingIsOwed
    BY DEF ArtInv, ArtBooks
  <2> QED BY <2>1, <2>2, <2>3, CatIsTyped, SrchIsTyped, XferIsTyped, ArtIsTyped, Zenon
          DEF ServicesTypeOK
<1> QED BY <1>1, <1>2, <1>3, PTL DEF Services

=============================================================================
