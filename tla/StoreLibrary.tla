----------------------------- MODULE StoreLibrary -----------------------------
(***************************************************************************)
(* The store's index of installed songs (src/src/store/store_library.cpp): *)
(* a builder thread opens every package the library lists and publishes    *)
(* which of them it could read.  Around it run a guest thread that         *)
(* publishes a new package list and invalidates the index, the store's     *)
(* worker, which installs packages and deletes them and then has the index *)
(* forget them, and anyone who opens the store and asks for an index.      *)
(*                                                                         *)
(* Abstracted: a package's songs (the index is the set of packages that    *)
(* contributed to it), the common content root the builder also lists      *)
(* (part of `paths`), and the generation counter nobody reads.             *)
(***************************************************************************)
EXTENDS Naturals

CONSTANTS
  Packages,
  Null,        \* no index is published
  None,        \* the store's worker deletes nothing
  MaxRevision  \* bound: invalidations and deletions

ASSUME NullAssumption == None \notin Packages /\ \A s \in SUBSET Packages : s # Null
ASSUME RevisionAssumption == MaxRevision \in Nat

VARIABLES
  disk,       \* packages that exist
  paths,      \* LibraryPackagePaths()
  index,      \* g_index
  stale,      \* g_stale
  pending,    \* g_pending
  building,   \* g_building
  revision,   \* g_revision
  quit,       \* g_quit
  builder,    \* the builder thread: program counter and locals
  publisher,  \* the guest thread inside PublishPendingRefresh and InvalidateLibrary
  deleting,   \* the package RunDelete removed and has yet to forget
  absent,     \* history: packages off the disk at some time since the list was set
  unread      \* history: packages on the disk that the index's build could not read

vars == <<disk, paths, index, unread, stale, pending, building, revision, quit, builder,
          publisher, deleting, absent>>

indexVars == <<index, unread>>
flagVars  == <<stale, pending, building, revision, quit>>
worldVars == <<disk, paths, publisher, deleting, absent>>

TypeOK ==
  /\ {disk, paths, absent, unread} \subseteq SUBSET Packages
  /\ index = Null \/ index \in SUBSET Packages
  /\ {stale, pending, building, quit} \subseteq BOOLEAN
  /\ revision \in 0 .. MaxRevision
  /\ builder \in [pc : {"wait", "list", "build", "publish", "ended"},
                  revision : 0 .. MaxRevision,
                  todo : SUBSET Packages, found : SUBSET Packages,
                  unread : SUBSET Packages]
  /\ publisher \in {"idle", "invalidate", "request"}
  /\ deleting \in Packages \cup {None}

Init ==
  /\ disk \in SUBSET Packages
  /\ paths = disk
  /\ index = Null
  /\ stale = TRUE
  /\ pending = FALSE /\ building = FALSE /\ quit = FALSE
  /\ revision = 0
  /\ builder = [pc |-> "wait", revision |-> 0, todo |-> {}, found |-> {}, unread |-> {}]
  /\ publisher = "idle"
  /\ deleting = None
  /\ absent = Packages \ disk
  /\ unread = {}

-----------------------------------------------------------------------------
(* The builder                                                             *)

BuilderTakes ==
  /\ builder.pc = "wait"
  /\ \/ /\ quit
        /\ builder' = [builder EXCEPT !.pc = "ended"]
        /\ UNCHANGED <<pending, building>>
     \/ /\ ~quit /\ pending
        /\ pending' = FALSE
        /\ building' = TRUE
        /\ builder' = [pc |-> "list", revision |-> revision,
                       todo |-> {}, found |-> {}, unread |-> {}]
  /\ UNCHANGED <<indexVars, stale, revision, quit, worldVars>>

\* Build copies the package list under its own lock.
BuilderLists ==
  /\ builder.pc = "list"
  /\ builder' = [builder EXCEPT !.pc = "build", !.todo = paths]
  /\ UNCHANGED <<indexVars, flagVars, worldVars>>

\* A package contributes when it is there, mounts and has metadata; any other is
\* counted as failed, or as empty, and passed over.
BuilderMounts ==
  /\ builder.pc = "build"
  /\ \/ \E p \in builder.todo : \E read \in SUBSET ({p} \cap disk) :
          builder' = [builder EXCEPT !.todo = @ \ {p}, !.found = @ \cup read,
                                     !.unread = @ \cup (({p} \cap disk) \ read)]
     \/ /\ builder.todo = {}
        /\ builder' = [builder EXCEPT !.pc = "publish"]
  /\ UNCHANGED <<indexVars, flagVars, worldVars>>

PublishAlways == TRUE  \* faulty variant: no revision check
SnapshotIsCurrent == builder.revision = revision

DropSnapshot == pending' = pending  \* faulty variant: nothing asks again
BuildAgain == pending' = TRUE

BuilderPublishes ==
  /\ builder.pc = "publish"
  /\ \/ /\ SnapshotIsCurrent
        /\ index' = builder.found
        /\ unread' = builder.unread
        /\ stale' = FALSE
        /\ UNCHANGED pending
     \/ /\ ~SnapshotIsCurrent
        /\ BuildAgain
        /\ UNCHANGED <<indexVars, stale>>
  /\ building' = FALSE
  /\ builder' = [builder EXCEPT !.pc = "wait", !.todo = {}, !.found = {},
                              !.unread = {}]
  /\ UNCHANGED <<revision, quit, worldVars>>

-----------------------------------------------------------------------------
(* The callers                                                             *)

\* RequestLibraryRefresh: a build in flight or a current index covers it.
Covered == quit \/ building \/ pending \/ (index # Null /\ ~stale)

RequestLibraryRefresh == pending' = (pending \/ ~Covered)

StoreOpens ==
  /\ RequestLibraryRefresh
  /\ UNCHANGED <<indexVars, stale, building, revision, quit, builder, worldVars>>

\* Revisions so far and those the calls under way will add.
Owed == revision + (IF publisher = "invalidate" THEN 1 ELSE 0)
                 + (IF deleting # None THEN 1 ELSE 0)

\* PublishPendingRefresh writes a list some scan made, which may be old.
PublisherSets ==
  /\ publisher = "idle"
  /\ Owed < MaxRevision
  /\ paths' \in SUBSET Packages
  /\ absent' = Packages \ disk
  /\ publisher' = "invalidate"
  /\ UNCHANGED <<disk, deleting, indexVars, flagVars, builder>>

\* InvalidateLibrary's locked section, then its call of RequestLibraryRefresh.
PublisherInvalidates ==
  /\ publisher = "invalidate"
  /\ stale' = TRUE
  /\ revision' = revision + 1
  /\ index' = Null
  /\ publisher' = "request"
  /\ UNCHANGED <<disk, paths, deleting, absent, unread, pending, building, quit, builder>>

PublisherRequests ==
  /\ publisher = "request"
  /\ RequestLibraryRefresh
  /\ publisher' = "idle"
  /\ UNCHANGED <<disk, paths, deleting, absent, indexVars, stale, building, revision,
                 quit, builder>>

StoreInstalls ==
  /\ deleting = None
  /\ \E p \in Packages \ disk : disk' = disk \cup {p}
  /\ UNCHANGED <<paths, publisher, deleting, absent, indexVars, flagVars, builder>>

\* RunDelete removes the file, then calls ForgetInstalledPackage.
StoreDeletes ==
  /\ deleting = None
  /\ Owed < MaxRevision
  /\ \E p \in disk : /\ disk' = disk \ {p}
                     /\ deleting' = p
                     /\ absent' = absent \cup {p}
  /\ UNCHANGED <<paths, publisher, indexVars, flagVars, builder>>

RevisionTwice == revision + 2  \* faulty variant
NextRevision == revision + 1

ForgetInstalledPackage ==
  /\ deleting # None
  /\ index' = IF index = Null THEN Null ELSE index \ {deleting}
  /\ revision' = NextRevision
  /\ deleting' = None
  /\ UNCHANGED <<disk, paths, publisher, absent, unread, stale, pending, building,
                 quit, builder>>

\* The worker object is destroyed at process exit.
Quits ==
  /\ ~quit
  /\ quit' = TRUE
  /\ UNCHANGED <<indexVars, stale, pending, building, revision, builder, worldVars>>

-----------------------------------------------------------------------------
BuilderStep == \/ BuilderTakes \/ BuilderLists \/ BuilderMounts
               \/ BuilderPublishes
PublisherStep == PublisherInvalidates \/ PublisherRequests

Next == \/ BuilderStep \/ PublisherStep \/ PublisherSets
        \/ StoreOpens \/ StoreInstalls \/ StoreDeletes \/ ForgetInstalledPackage
        \/ Quits

Spec == Init /\ [][Next]_vars

\* The builder is scheduled, a package opens or fails to, and a call that was
\* begun returns.
FairSpec == Spec /\ WF_vars(BuilderStep) /\ WF_vars(PublisherStep)
                 /\ WF_vars(ForgetInstalledPackage)

-----------------------------------------------------------------------------
(* Properties                                                              *)

\* An index that is published describes the current list and the disk: no
\* package of an older list, every package of this one that stayed on disk, but
\* for those its own build could not read, and none that is gone but the one
\* RunDelete has removed and not yet forgotten, whichever build it came from.
\* Between setting the list and InvalidateLibrary the old index is still up.
IndexIsCurrent ==
  /\ index # Null => index \subseteq disk \cup {deleting}
  /\ index # Null /\ publisher # "invalidate" =>
       /\ index \subseteq paths
       /\ paths \ (absent \cup unread) \subseteq index

\* A build that was asked for, that is under way, or that an invalidation owes
\* ends in a published index, however often it is invalidated meanwhile.
RequestedIndexArrives ==
  (pending \/ building \/ publisher = "request") ~> (index # Null \/ quit)
=============================================================================
