--------------------------- MODULE MCStoreServices ----------------------------
(***************************************************************************)
(* Five of the store's services, one per behaviour: the library index      *)
(* (StoreLibrary), the catalogue (StoreCatalogue), the search              *)
(* (StoreSearch), a package's transfer (PackageTransfer) and the covers    *)
(* (AlbumArt).  They share no state, so a behaviour picks one of them and  *)
(* the others keep their initial state; the modules are checked together   *)
(* only to be checked in one run.                                          *)
(***************************************************************************)
EXTENDS StoreLibrary

\* The constants of the instances, under their modules' own names; the two page
\* budgets differ.
CONSTANTS
  Filters, MaxCommits,                                 \* the settings
  CataloguePages, MaxAhead,                            \* StoreCatalogue
  Queries, Short, SearchPages, MaxQueries,             \* StoreSearch
  Magic, Ceiling, Buffered, MaxHops, MaxRetries,       \* PackageTransfer
  Keys, Callers, MaxQueued, NoKey                      \* AlbumArt

\* The bounds are numbers; a search and a visit ask for at least one page.
ASSUME BudgetsAssumption ==
  /\ {MaxCommits, MaxAhead, MaxQueries, MaxHops, MaxRetries, Buffered} \subseteq Nat
  /\ {CataloguePages, SearchPages} \subseteq Nat \ {0}
\* The queue of covers has a place besides the one in flight: 64 of them in the code.
ASSUME CoversAssumption == MaxQueued \in Nat /\ MaxQueued >= 2
\* A package's magic has a length, and fits under the ceiling.
ASSUME SizesAssumption ==
  Magic \in Nat /\ Ceiling \in Nat /\ 0 < Magic /\ Magic <= Ceiling
\* A text that is too short is no query, and no key means no cover.
ASSUME NamesAssumption == Short \notin Queries /\ NoKey \notin Keys

VARIABLES
  which,  \* the service of this behaviour
  catFilter, catGeneration, catState, catPending, catOffers, catFetchedGen,
  catAged, catBackoff, catCaption, catQuit, catWorker, catClient, catTorn,
  srchFilter, srchCommits, srchField, srchState, srchGeneration, srchJob,
  srchMatches, srchShow, srchOpen, srchSeed, srchBackoff, srchSlot,
  srchWorker, srchGuest, srchListed,
  xferPc, xferAttempt, xferHops, xferLength, xferAgree, xferReceived,
  xferPrefix, xferChecked, xferStream, xferFailed, xferRefusal, xferOk,
  xferDisk, xferSent, xferCancel, xferOutcome,
  artQueue, artPending, artUrls, artTextures, artQuit, artWorker, artCaller

Cat == INSTANCE StoreCatalogue WITH PageBudget <- CataloguePages,
  filter <- catFilter,
  generation <- catGeneration, state <- catState, pending <- catPending,
  offers <- catOffers, fetchedGen <- catFetchedGen, aged <- catAged,
  backoff <- catBackoff, caption <- catCaption, quit <- catQuit,
  worker <- catWorker, client <- catClient, torn <- catTorn

Srch == INSTANCE StoreSearch WITH PageBudget <- SearchPages,
  filter <- srchFilter,
  commits <- srchCommits, field <- srchField, state <- srchState,
  generation <- srchGeneration, job <- srchJob, matches <- srchMatches,
  show <- srchShow, open <- srchOpen, seed <- srchSeed,
  backoff <- srchBackoff, slot <- srchSlot, worker <- srchWorker,
  guest <- srchGuest, listed <- srchListed

Xfer == INSTANCE PackageTransfer WITH pc <- xferPc, attempt <- xferAttempt,
  hops <- xferHops, length <- xferLength, agree <- xferAgree,
  received <- xferReceived, prefix <- xferPrefix, checked <- xferChecked,
  stream <- xferStream, failed <- xferFailed, refusal <- xferRefusal,
  ok <- xferOk, disk <- xferDisk, sent <- xferSent, cancel <- xferCancel,
  outcome <- xferOutcome

Art == INSTANCE AlbumArt WITH queue <- artQueue,
  pending <- artPending, urls <- artUrls, textures <- artTextures,
  quit <- artQuit, worker <- artWorker, caller <- artCaller

catVars == <<catFilter, catGeneration, catState, catPending, catOffers,
             catFetchedGen, catAged, catBackoff, catCaption, catQuit,
             catWorker, catClient, catTorn>>
srchVars == <<srchFilter, srchCommits, srchField, srchState, srchGeneration,
              srchJob, srchMatches, srchShow, srchOpen, srchSeed, srchBackoff,
              srchSlot, srchWorker, srchGuest, srchListed>>
xferVars == <<xferPc, xferAttempt, xferHops, xferLength, xferAgree,
              xferReceived, xferPrefix, xferChecked, xferStream, xferFailed,
              xferRefusal, xferOk, xferDisk, xferSent, xferCancel, xferOutcome>>
artVars == <<artQueue, artPending, artUrls, artTextures, artQuit, artWorker,
            artCaller>>

allVars == <<which, vars, catVars, srchVars, xferVars, artVars>>

FirstFilter == CHOOSE filter \in Filters : TRUE

\* A service that is not picked starts, and stays, in one of its initial states.
ServicesInit ==
  /\ which \in {"library", "catalogue", "search", "transfer", "art"}
  /\ Init /\ Cat!Init /\ Srch!Init /\ Xfer!Init /\ Art!Init
  /\ which # "library" => disk = {}
  /\ which # "catalogue" => catFilter = FirstFilter
  /\ which # "search" => srchFilter = FirstFilter /\ ~srchSeed
  /\ which # "transfer" => xferDisk = Xfer!Absent

OnlyLibrary ==
  which = "library" /\ UNCHANGED <<which, catVars, srchVars, xferVars, artVars>>
OnlyCatalogue ==
  which = "catalogue" /\ UNCHANGED <<which, vars, srchVars, xferVars, artVars>>
OnlySearch ==
  which = "search" /\ UNCHANGED <<which, vars, catVars, xferVars, artVars>>
OnlyTransfer ==
  which = "transfer" /\ UNCHANGED <<which, vars, catVars, srchVars, artVars>>
OnlyArt ==
  which = "art" /\ UNCHANGED <<which, vars, catVars, srchVars, xferVars>>

ServicesNext ==
  \/ OnlyLibrary /\ Next
  \/ OnlyCatalogue /\ Cat!Next
  \/ OnlySearch /\ Srch!Next
  \/ OnlyTransfer /\ Xfer!Next
  \/ OnlyArt /\ Art!Next

\* Each service's own fairness.
ServicesFairness ==
  /\ WF_allVars(OnlyLibrary /\ BuilderStep)
  /\ WF_allVars(OnlyLibrary /\ PublisherStep)
  /\ WF_allVars(OnlyLibrary /\ ForgetInstalledPackage)
  /\ WF_allVars(OnlyCatalogue /\ Cat!WorkerStep)
  /\ WF_allVars(OnlySearch /\ Srch!WorkerStep)
  /\ WF_allVars(OnlySearch /\ Srch!ScriptStep)
  /\ WF_allVars(OnlyTransfer /\ Xfer!WorkerStep)

Services == ServicesInit /\ [][ServicesNext]_allVars

ServicesSpec == Services /\ ServicesFairness

-----------------------------------------------------------------------------
(* The properties, as their modules state them                             *)

\* Every variable of the five services has its type.
ServicesTypeOK ==
  TypeOK /\ Cat!CatalogueTypeOK /\ Srch!SearchTypeOK /\ Xfer!TransferTypeOK
  /\ Art!ArtTypeOK

\* StoreCatalogue: a fresh list has the current filter.
CurrentUnlessTorn == Cat!CurrentUnlessTorn
\* StoreCatalogue: a walk ends, and so does the worker.
WalkEnds == Cat!WalkEnds

\* StoreSearch: what is listed answers the text in the field.
ListedIsAnswer == Srch!ListedIsAnswer
\* StoreSearch: the loading modal closes.
ModalEnds == Srch!ModalEnds

\* PackageTransfer: what is accepted is what the server sent, in a file of its own.
AcceptedIsTheBody == Xfer!AcceptedIsTheBody
\* PackageTransfer: a cancel in time ends the job as cancelled.
CancelIsHonoured == Xfer!CancelIsHonoured

\* AlbumArt: a key is marked pending exactly while it is owed.
PendingIsOwed == Art!PendingIsOwed
=============================================================================
