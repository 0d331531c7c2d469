---------------------------- MODULE StoreCatalogue ----------------------------
(***************************************************************************)
(* The catalogue behind the store's Recently Added list                    *)
(* (src/src/store/store_catalogue.cpp) with the settings snapshot it reads *)
(* (store_settings.cpp) and the caption it writes                          *)
(* (store_catalogue_status.cpp).                                           *)
(*                                                                         *)
(* Two actors: the guest thread, which asks for a refresh whenever a store *)
(* page is served, retries a failed walk and commits the instrument        *)
(* filter; and one worker, which walks the API's pages and publishes each  *)
(* as it lands.  Three mutexes (settings, catalogue, caption) are never    *)
(* held across each other's work, so each locked section is a step, and    *)
(* Settings() and SettingsGeneration() are two.                            *)
(*                                                                         *)
(* Abstracted: an answer that comes from the page cache is a page like any *)
(* other (the catalogue is the only caller of its own keys); the TTL and a *)
(* failure's wait are flags that time may change at any moment; the offers *)
(* of a page are one record, or none when the filter emptied it.  The      *)
(* master switch applies at the next boot: with it off RequestRefresh      *)
(* returns at once, so the module describes the store with it on.          *)
(***************************************************************************)
EXTENDS Naturals, Sequences

CONSTANTS
  Filters,     \* instrument filters
  PageBudget,  \* g_pages: API pages per visit, 1..20 in the code
  MaxAhead,    \* how far past the page asked for an answer's number may be
  MaxCommits   \* bound: filter commits

VARIABLES
  filter,      \* g_settings: the filter of the current snapshot
  generation,  \* g_generation of the settings
  state,       \* g_state
  pending,     \* g_pending
  offers,      \* g_offers: the pages kept, in the order they landed
  fetchedGen,  \* g_fetched_generation
  aged,        \* now - g_changed_at has passed the TTL
  backoff,     \* now is before g_retry_at
  caption,     \* the caption strip's copy of the state
  quit,        \* g_quit
  worker,      \* the worker: program counter and RunOne's locals
  client,      \* the guest thread inside RequestRefresh
  torn         \* history: a commit fell between RunOne's two settings reads

settingsVars == <<filter, generation>>
listVars     == <<offers, fetchedGen, torn>>
timeVars     == <<aged, backoff>>

vars == <<settingsVars, state, pending, listVars, timeVars, caption, quit,
          worker, client>>

States   == {"idle", "fetching", "ready", "failed"}
Captions == [state : States, some : BOOLEAN]
Pages    == [filter : Filters, page : Nat \ {0}]
Workers  == [pc : {"wait", "generation", "fetch", "land", "fail", "say", "pause",
                   "drop", "finish", "gone"},
             filter : Filters, gen : Nat, page : Nat, fetched : Nat,
             next : Nat, kept : Seq(Pages), say : States,
             then : {"wait", "pause", "finish"}, torn : BOOLEAN]
Clients  == [pc : {"idle", "say", "gone"}, some : BOOLEAN]

CatalogueTypeOK ==
  /\ filter \in Filters /\ generation \in Nat
  /\ state \in States /\ pending \in BOOLEAN
  /\ offers \in Seq(Pages)
  /\ fetchedGen \in Nat
  /\ aged \in BOOLEAN /\ backoff \in BOOLEAN /\ torn \in BOOLEAN
  /\ caption \in Captions /\ quit \in BOOLEAN
  /\ worker \in Workers /\ client \in Clients
  /\ worker.fetched <= PageBudget

\* The worker between two walks: RunOne's locals are gone.
AtRest(f) == [pc |-> "wait", filter |-> f, gen |-> 0, page |-> 1, fetched |-> 0,
              next |-> 0, kept |-> <<>>, say |-> "idle", then |-> "wait",
              torn |-> FALSE]

Init ==
  /\ filter \in Filters /\ generation = 1
  /\ state = "idle" /\ pending = FALSE
  /\ offers = <<>> /\ fetchedGen = 0
  /\ aged = FALSE /\ backoff = FALSE
  /\ caption = [state |-> "idle", some |-> FALSE]
  /\ quit = FALSE
  /\ worker = AtRest(filter)
  /\ client = [pc |-> "idle", some |-> FALSE]
  /\ torn = FALSE

-----------------------------------------------------------------------------
(* The guest thread                                                        *)

\* PublishSettings replaces the snapshot and bumps the generation, under the
\* settings mutex; an equal snapshot changes nothing.
Commit ==
  /\ client.pc = "idle"
  /\ generation <= MaxCommits
  /\ \E f \in Filters \ {filter} : filter' = f
  /\ generation' = generation + 1
  /\ worker' = [worker EXCEPT !.torn = @ \/ worker.pc = "generation"]
  /\ UNCHANGED <<state, pending, listVars, timeVars, caption, quit, client>>

Fresh == fetchedGen = generation /\ ~aged

\* What RequestRefresh turns away; ignore is a press, which outruns the wait.
Refused(ignore) ==
  \/ state = "fetching"
  \/ state = "ready" /\ (Fresh \/ (backoff /\ ~ignore))
  \/ state = "failed" /\ backoff /\ ~ignore

StartWalk ==
  /\ state' = "fetching" /\ pending' = TRUE /\ aged' = FALSE
  /\ client' = [pc |-> "say", some |-> offers # <<>>]
  /\ UNCHANGED <<settingsVars, listVars, backoff, caption, quit, worker>>

\* A store page is served: the walk is asked for on the way.
RequestCatalogueRefresh ==
  /\ client.pc = "idle" /\ ~Refused(FALSE)
  /\ StartWalk

\* The press on a failed, empty list: the query and then the retry write.
HandleCatalogueWrite ==
  /\ client.pc = "idle"
  /\ state = "failed" /\ offers = <<>>
  /\ ~Refused(TRUE)
  /\ StartWalk

\* The caption hears of the walk after the mutex is released.
ClientSays ==
  /\ client.pc = "say"
  /\ caption' = [state |-> "fetching", some |-> client.some]
  /\ client' = [client EXCEPT !.pc = "idle", !.some = FALSE]
  /\ UNCHANGED <<settingsVars, state, pending, listVars, timeVars, quit, worker>>

\* Worker::~Worker at process exit.
Quit ==
  /\ client.pc = "idle"
  /\ quit' = TRUE
  /\ client' = [client EXCEPT !.pc = "gone"]
  /\ UNCHANGED <<settingsVars, state, pending, listVars, timeVars, caption, worker>>

-----------------------------------------------------------------------------
(* The worker                                                              *)

At(pc) == worker.pc = pc

QuitWakes == quit

WorkerExits ==
  /\ At("wait") /\ QuitWakes
  /\ worker' = [worker EXCEPT !.pc = "gone"]
  /\ UNCHANGED <<settingsVars, state, pending, listVars, timeVars, caption, quit,
                 client>>

\* The wake-up, and RunOne's Settings().
BeginsWalk ==
  /\ At("wait") /\ pending /\ ~quit
  /\ worker' = [worker EXCEPT !.pc = "generation", !.filter = filter]
  /\ UNCHANGED <<settingsVars, state, pending, listVars, timeVars, caption, quit,
                 client>>

ReadsGeneration ==
  /\ At("generation")
  /\ worker' = [worker EXCEPT !.pc = "fetch", !.gen = generation]
  /\ UNCHANGED <<settingsVars, state, pending, listVars, timeVars, caption, quit,
                 client>>

\* NextPageAfter: the budget, the end of the list, then the answer's own number
\* unless it would repeat; 0 ends the walk.
NextPageAfter(fetched, number, more) ==
  LET cursor == IF number > 0 THEN number + 1 ELSE fetched + 1
  IN  IF fetched >= PageBudget \/ ~more THEN 0
      ELSE IF cursor <= fetched THEN fetched + 1 ELSE cursor

\* The answer: a failure, or a page whose own number is absent (0), the one
\* asked for, an earlier one, or up to MaxAhead later, and whose offers the
\* filter may all drop.
FetchPage ==
  /\ At("fetch")
  /\ \/ worker' = [worker EXCEPT !.pc = "fail"]
     \/ \E number \in 0 .. worker.page + MaxAhead, more, some \in BOOLEAN :
          LET fetched == worker.fetched + 1
          IN  worker' = [worker EXCEPT
                !.pc = "land", !.fetched = fetched,
                !.kept = IF some THEN Append(@, [filter |-> worker.filter,
                                                 page |-> worker.page])
                                 ELSE @,
                !.next = NextPageAfter(fetched, number, more)]
  /\ UNCHANGED <<settingsVars, state, pending, listVars, timeVars, caption, quit,
                 client>>

\* The worker's step under g_mutex leaves a report for the caption.
Says(s, then) ==
  worker' = [worker EXCEPT !.pc = "say", !.say = s, !.then = then]

DropKeepsState ==  \* faulty variant: the walk is dropped, the state stays
  /\ offers' = <<>> /\ pending' = FALSE
  /\ UNCHANGED <<state, fetchedGen, torn, timeVars>>
Dropped ==
  /\ offers' = <<>> /\ state' = "idle" /\ pending' = FALSE
  /\ UNCHANGED <<fetchedGen, torn, timeVars>>

\* A commit landed while the answer was in flight.
Outdated == generation # worker.gen

LandPage ==
  /\ At("land")
  /\ \/ /\ Outdated
        /\ Dropped
        /\ worker' = [worker EXCEPT !.pc = "say", !.say = "idle",
                                    !.then = "wait", !.kept = <<>>]
     \/ /\ ~Outdated
        /\ offers' = worker.kept
        /\ fetchedGen' = worker.gen /\ torn' = worker.torn
        /\ aged' = FALSE /\ backoff' = FALSE
        /\ Says("fetching", IF worker.next = 0 THEN "finish" ELSE "pause")
        /\ UNCHANGED <<state, pending>>
  /\ UNCHANGED <<settingsVars, caption, quit, client>>

\* PauseBetweenPages: the walk goes on only while it is still wanted.
PauseEnds ==
  /\ At("pause")
  /\ worker' = IF quit \/ generation # worker.gen
               THEN [worker EXCEPT !.pc = "drop"]
               ELSE [worker EXCEPT !.pc = "fetch", !.page = worker.next]
  /\ UNCHANGED <<settingsVars, state, pending, listVars, timeVars, caption, quit,
                 client>>

DropWalk ==
  /\ At("drop")
  /\ Dropped
  /\ worker' = [worker EXCEPT !.pc = "say", !.say = "idle", !.then = "wait",
                              !.kept = <<>>]
  /\ UNCHANGED <<settingsVars, caption, quit, client>>

\* The generation a list is stamped with: that of the snapshot it was asked with.
StampNow == generation  \* faulty variant: that of the moment the walk ends
Stamp == worker.gen

\* A failed page: what landed before it stays.
FailedState == IF worker.fetched > 0 THEN "ready" ELSE "failed"

SaysOutcome == FailedState

FailWalk ==
  /\ At("fail")
  /\ pending' = FALSE /\ state' = FailedState
  /\ aged' = FALSE /\ backoff' = TRUE
  /\ fetchedGen' = IF worker.fetched > 0 THEN Stamp ELSE fetchedGen
  /\ Says(SaysOutcome, "wait")
  /\ UNCHANGED <<settingsVars, offers, torn, caption, quit, client>>

ClearPending == pending' = FALSE

FinishWalk ==
  /\ At("finish")
  /\ ClearPending /\ state' = "ready"
  /\ fetchedGen' = Stamp /\ aged' = FALSE
  /\ Says("ready", "wait")
  /\ UNCHANGED <<settingsVars, offers, torn, backoff, caption, quit, client>>

WorkerSays ==
  /\ At("say")
  /\ caption' = [state |-> worker.say, some |-> worker.kept # <<>>]
  /\ worker' = IF worker.then = "wait" THEN AtRest(worker.filter)
               ELSE [worker EXCEPT !.pc = worker.then]
  /\ UNCHANGED <<settingsVars, state, pending, listVars, timeVars, quit, client>>

WorkerStep ==
  \/ WorkerExits \/ BeginsWalk \/ ReadsGeneration \/ FetchPage \/ LandPage
  \/ PauseEnds \/ DropWalk \/ FailWalk \/ FinishWalk \/ WorkerSays

-----------------------------------------------------------------------------
(* The system                                                              *)

TimePasses ==
  /\ \/ ~aged /\ aged' = TRUE /\ UNCHANGED backoff
     \/ backoff /\ backoff' = FALSE /\ UNCHANGED aged
  /\ UNCHANGED <<settingsVars, state, pending, listVars, caption, quit, worker,
                 client>>

Next == \/ Commit \/ RequestCatalogueRefresh \/ HandleCatalogueWrite
        \/ ClientSays \/ Quit \/ WorkerStep \/ TimePasses

Spec == Init /\ [][Next]_vars

\* The worker's thread is scheduled, and a request ends (20 s timeout).
Fairness == WF_vars(WorkerStep)

FairSpec == Spec /\ Fairness

-----------------------------------------------------------------------------
(* Properties                                                              *)

Walking == \/ worker.pc \in {"generation", "fetch", "land", "fail", "pause",
                            "drop", "finish"}
           \/ worker.pc = "say" /\ worker.then # "wait"

\* A list that is taken for fresh was made with the current filter, unless a
\* commit fell between the walk's reads of the snapshot and of its generation:
\* no commit at any other moment, before a page, during the answer or in the
\* pause, leaves an old list that the next visit accepts.
CurrentUnlessTorn ==
  fetchedGen = generation /\ ~torn =>
    \A i \in 1 .. Len(offers) : offers[i].filter = filter

\* A walk that was asked for ends, unless the process does first, and no pause
\* and no answer keeps the worker's destructor from returning.
WalkEnds ==
  /\ (state = "fetching") ~> (state # "fetching" \/ quit)
  /\ quit ~> worker.pc = "gone"

-----------------------------------------------------------------------------
(* A claim of the code's comments that the code does not keep              *)

\* store_catalogue.h:46-48: the settings are captured when the fetch starts, "a
\* commit during the fetch invalidates the answer instead of racing it".
\* RunOne reads the snapshot and its generation in two locked calls; a commit
\* in between leaves the old filter with the new generation, and every later
\* check accepts it.
CommitInvalidates ==
  fetchedGen = generation =>
    \A i \in 1 .. Len(offers) : offers[i].filter = filter
=============================================================================
