------------------------------- MODULE AlbumArt --------------------------------
(***************************************************************************)
(* The covers of the store (src/store/album_art_service.cpp, album_art.cpp)*)
(* a bounded queue of keys, filled by pages that arrive and by the covers  *)
(* the player selects, and one worker that fetches, encodes and publishes. *)
(*                                                                         *)
(* The two mutexes are each one step: a page publishes its URLs under one  *)
(* and queues under the other, and a selection looks for the texture under *)
(* the first before it queues.                                             *)
(*                                                                         *)
(* Abstracted: a fetch succeeds or not, with its decoding and encoding; the*)
(* state token and the error text are diagnostics.  Left out: the scratch  *)
(* folder and the two switches, which are fixed at boot.                   *)
(***************************************************************************)
EXTENDS SequencesExt

CONSTANTS
  Keys,       \* covers
  Callers,    \* threads that ask: the guest's and the catalogue's worker
  MaxQueued,  \* kMaxQueuedArt
  NoKey

VARIABLES
  queue,     \* g_queue
  pending,   \* g_pending: queued or in flight
  urls,      \* keys with a published URL
  textures,  \* keys with a published texture
  quit,      \* g_quit
  worker,    \* the worker: where it is, and the key it holds
  caller     \* a call under way: none, or the key a page or a selection queues next

bookVars == <<queue, pending>>
vars == <<bookVars, urls, textures, quit, worker, caller>>

Idle == [asks |-> "none", key |-> NoKey]

ArtTypeOK ==
  /\ queue \in Seq(Keys)
  /\ {urls, textures, pending} \subseteq SUBSET Keys
  /\ quit \in BOOLEAN
  /\ worker \in [pc : {"wait", "look", "fetch", "erase", "done"}, key : Keys \cup {NoKey}]
  /\ caller \in [Callers -> [asks : {"none", "page", "selected"}, key : Keys \cup {NoKey}]]

\* InstallAlbumArt has started the worker.
Init ==
  /\ queue = <<>> /\ pending = {}
  /\ urls = {} /\ textures = {}
  /\ quit = FALSE
  /\ worker = [pc |-> "wait", key |-> NoKey]
  /\ caller = [c \in Callers |-> Idle]

-----------------------------------------------------------------------------
(* The callers                                                             *)

\* RequestAlbumArt: an offer of a page brings its cover's URL.
PageArrives(c) ==
  /\ caller[c] = Idle
  /\ \E k \in Keys :
       /\ urls' = urls \cup {k}
       /\ caller' = [caller EXCEPT ![c] = [asks |-> "page", key |-> k]]
  /\ UNCHANGED <<bookVars, textures, quit, worker>>

\* RequestAlbumArtTexture: the panel asks for a cover that is not there.
CoverSelected(c) ==
  /\ caller[c] = Idle
  /\ \E k \in urls \ textures :
       caller' = [caller EXCEPT ![c] = [asks |-> "selected", key |-> k]]
  /\ UNCHANGED <<bookVars, urls, textures, quit, worker>>

Full == Cardinality(pending) >= MaxQueued

\* Enqueue, for a page's cover.
QueueBehind(k) ==
  IF Full \/ k \in pending THEN UNCHANGED bookVars
  ELSE queue' = Append(queue, k) /\ pending' = pending \cup {k}

\* Faulty variant: the key that loses its place keeps its mark.
EvictMarked == IF Full /\ queue # <<>>
                 THEN [queue |-> Front(queue), pending |-> pending]
                 ELSE [queue |-> queue, pending |-> pending]

\* The queue without its last key, when the selected one needs its place.
Evict == IF Full /\ queue # <<>>
           THEN [queue |-> Front(queue), pending |-> pending \ {Last(queue)}]
           ELSE [queue |-> queue, pending |-> pending]

\* Enqueue, for a selected cover: it moves to the front, unless it is in flight.
QueueFirst(k) ==
  CASE k \in ToSet(queue) ->
         /\ \E i \in 1 .. Len(queue) :
              queue[i] = k /\ queue' = <<k>> \o RemoveAt(queue, i)
         /\ UNCHANGED pending
    [] k \in pending \ ToSet(queue) -> UNCHANGED bookVars
    [] OTHER ->
         queue' = <<k>> \o Evict.queue /\ pending' = Evict.pending \cup {k}

Enqueue(c) ==
  /\ caller[c] # Idle
  /\ CASE quit -> UNCHANGED bookVars
       [] ~quit /\ caller[c].asks = "page" -> QueueBehind(caller[c].key)
       [] ~quit /\ caller[c].asks = "selected" -> QueueFirst(caller[c].key)
  /\ caller' = [caller EXCEPT ![c] = Idle]
  /\ UNCHANGED <<urls, textures, quit, worker>>

\* The destructor of the worker's static, which then joins.
Quits ==
  /\ ~quit
  /\ quit' = TRUE
  /\ UNCHANGED <<bookVars, urls, textures, worker, caller>>

-----------------------------------------------------------------------------
(* The worker                                                              *)

WorkerAt(pc, next) == worker.pc = pc /\ worker' = [worker EXCEPT !.pc = next]

TakesKey ==
  /\ worker.pc = "wait" /\ queue # <<>>
  /\ worker' = [pc |-> "look", key |-> Head(queue)]
  /\ queue' = Tail(queue)
  /\ UNCHANGED <<pending, urls, textures, quit, caller>>

\* ProcessKey: another request's texture is there, or no URL was published.
NothingToFetch ==
  /\ worker.key \in textures \/ worker.key \notin urls
  /\ WorkerAt("look", "erase")
  /\ UNCHANGED <<bookVars, urls, textures, quit, caller>>

StartsFetch ==
  /\ worker.key \in urls \ textures
  /\ WorkerAt("look", "fetch")
  /\ UNCHANGED <<bookVars, urls, textures, quit, caller>>

\* ProcessKey: the cover was fetched, decoded and encoded, or one of it failed.
FetchEnds ==
  /\ WorkerAt("fetch", "erase")
  /\ textures' \in {textures, textures \cup {worker.key}}
  /\ UNCHANGED <<bookVars, urls, quit, caller>>

Forgets(k) == pending' = pending \ {k}

ErasesKey ==
  /\ worker.pc = "erase"
  /\ Forgets(worker.key)
  /\ worker' = [pc |-> "wait", key |-> NoKey]
  /\ UNCHANGED <<queue, urls, textures, quit, caller>>

\* Only an empty queue lets the worker go: what was queued is fetched first.
WorkerExits ==
  /\ quit /\ queue = <<>>
  /\ WorkerAt("wait", "done")
  /\ UNCHANGED <<bookVars, urls, textures, quit, caller>>

WorkerStep ==
  \/ TakesKey \/ NothingToFetch \/ StartsFetch \/ FetchEnds \/ ErasesKey \/ WorkerExits

Next ==
  \/ \E c \in Callers : PageArrives(c) \/ CoverSelected(c) \/ Enqueue(c)
  \/ Quits
  \/ WorkerStep

Spec == Init /\ [][Next]_vars /\ WF_vars(WorkerStep)

-----------------------------------------------------------------------------
(* Properties                                                              *)

InFlight == {worker.key} \ {NoKey}

\* A key is marked pending exactly while it waits once in the queue or is in the
\* worker's hands: an entry left behind would refuse that cover for the rest of
\* the session, one too few would fetch it twice.  The marks stay within the
\* bound through evictions (album_art_service.cpp:340-364, 326-328).
PendingIsOwed ==
  /\ pending = ToSet(queue) \cup InFlight
  /\ IsInjective(queue) /\ ToSet(queue) \cap InFlight = {}
  /\ Cardinality(pending) <= MaxQueued

=============================================================================
