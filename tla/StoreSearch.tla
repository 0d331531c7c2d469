----------------------------- MODULE StoreSearch ------------------------------
(***************************************************************************)
(* The store's search: the session (src/src/store/store_search.cpp), its   *)
(* one worker (store_search_service.cpp) and the guest script that drives  *)
(* them, the Search row, the keyboard and the loading modal                *)
(* (store_payload.cpp, AddSearchKeyboard).                                 *)
(*                                                                         *)
(* The guest thread runs the script, one bridge call at a time; the worker *)
(* walks the pages of one job and takes the newest posted one next.  Each  *)
(* function of the session is one section under its mutex, hence one step. *)
(*                                                                         *)
(* A search runs only behind the modal, and whatever leaves the modal      *)
(* cancels it, so a filter is committed only from the menu: the branches   *)
(* of SearchAcceptPage for a commit under way never run and are left out,  *)
(* like the master switch, which changes with a restart, and process exit. *)
(* An answer from the page cache is a page like any other.  The wait a     *)
(* failure names ends at any time; a text is a query or too short.         *)
(***************************************************************************)
EXTENDS Naturals

CONSTANTS
  Queries,     \* texts long enough to search for
  Short,       \* a text that is too short, the empty one included
  Filters,     \* instrument filters
  PageBudget,  \* g_page_budget: API pages per search
  MaxQueries,  \* bound: submits, cancels and edits that count a generation
  MaxCommits   \* bound: filter commits

VARIABLES
  filter,      \* the settings snapshot's filter
  commits,     \* its generation
  field,       \* g_text
  state,       \* g_state
  generation,  \* g_generation
  job,         \* g_pending: the query in flight, or NoJob
  matches,     \* g_offers: the pages that kept an offer
  show,        \* g_show: a terminal answer the store has not listed
  open,        \* g_open: the surface the caption strip belongs to
  seed,        \* g_seed: the field was filled by a diagnostic
  backoff,     \* now is before g_retry_at
  slot,        \* the worker's pending_: a posted generation and its request, or NoPost
  worker,      \* the worker thread: program counter and the job's locals
  guest,       \* where the script is
  listed       \* the page the browser was given

vars == <<filter, commits, field, state, generation, job, matches, show, open,
          seed, backoff, slot, worker, guest, listed>>

settingsVars == <<filter, commits>>
answerVars   == <<matches, show>>

NoJob == [gen |-> 0]
Texts == Queries \cup {Short}
Answers == [text : Queries, filter : Filters, page : 1 .. PageBudget]
NoPost == [gen |-> 0, text |-> Short]
NoWork == [pc |-> "wait", gen |-> 0, text |-> Short, page |-> 1]

SearchTypeOK ==
  /\ filter \in Filters /\ commits \in 0 .. MaxCommits
  /\ field \in Texts
  /\ state \in {"idle", "editing", "too-short", "searching", "results", "empty",
                "failed"}
  /\ generation \in Nat
  /\ job \in {NoJob} \cup [gen : Nat \ {0}, text : Queries, filter : Filters,
                           done : 0 .. PageBudget - 1]
  /\ matches \subseteq Answers /\ listed \subseteq Answers
  /\ {show, open, seed, backoff} \subseteq BOOLEAN
  /\ slot \in [gen : Nat, text : Texts]
  /\ worker \in [pc : {"wait", "check", "fetch", "accept", "fail", "pause"},
                 gen : Nat, text : Texts, page : 1 .. PageBudget]
  /\ guest \in {"menu", "keyboard", "done", "post", "popup", "modal", "closed",
                "take", "mark", "browse"}

\* The diagnostic may have seeded the field at boot.
Init ==
  /\ filter \in Filters /\ commits = 0
  /\ seed \in BOOLEAN
  /\ field \in IF seed THEN Queries ELSE {Short}
  /\ state = IF seed THEN "editing" ELSE "idle"
  /\ generation = 1
  /\ job = NoJob /\ matches = {} /\ show = FALSE /\ open = FALSE
  /\ backoff = FALSE
  /\ slot = NoPost /\ worker = NoWork
  /\ guest = "menu" /\ listed = {}

-----------------------------------------------------------------------------
(* The guest script                                                        *)

Goes(from, to) == guest = from /\ guest' = to

\* The Search row: open, then the seeded submit, or the keyboard, or the leave
\* when no user answers for the keyboard.  The row's other branch, for an answer
\* not yet listed, is never taken: see NothingFollowsOut.
OpenSearch ==
  /\ guest = "menu"
  /\ state' = IF state \in {"idle", "failed"} THEN "editing" ELSE state
  /\ \/ seed /\ guest' = "done" /\ open' = TRUE
     \/ ~seed /\ guest' = "keyboard" /\ open' = TRUE
     \/ ~seed /\ guest' = "menu" /\ open' = FALSE
  /\ UNCHANGED <<settingsVars, field, generation, job, answerVars, seed, backoff,
                 slot, worker, listed>>

\* The keyboard's Done: SearchSetText.
SearchSetText ==
  /\ Goes("keyboard", "done")
  /\ field' \in Texts
  /\ matches' = {} /\ show' = FALSE /\ seed' = FALSE
  /\ state' = "editing" /\ open' = TRUE
  /\ UNCHANGED <<settingsVars, generation, job, backoff, slot, worker, listed>>

KeyboardCancel ==
  /\ Goes("keyboard", "menu")
  /\ open' = FALSE
  /\ UNCHANGED <<settingsVars, field, state, generation, job, answerVars, seed,
                 backoff, slot, worker, listed>>

\* SearchSubmitQuery starts a job, or refuses: too short, or inside the wait,
\* which leaves a list that is on screen alone.
SubmitStarts ==
  /\ Goes("done", "post")
  /\ field # Short /\ ~backoff
  /\ generation < MaxQueries
  /\ generation' = generation + 1
  /\ job' = [gen |-> generation', text |-> field, filter |-> filter, done |-> 0]
  /\ matches' = {} /\ show' = FALSE /\ seed' = FALSE
  /\ state' = "searching" /\ open' = TRUE
  /\ UNCHANGED <<settingsVars, field, backoff, slot, worker, listed>>

SubmitRefused ==
  /\ Goes("done", "popup")
  /\ \/ field = Short /\ state' = "too-short"
     \/ /\ field # Short /\ backoff
        /\ state' = IF state \in {"results", "empty"} THEN state ELSE "failed"
  /\ UNCHANGED <<settingsVars, field, generation, job, answerVars, open, seed,
                 backoff, slot, worker, listed>>

\* The sink: the newest job replaces one the worker has not taken.  The press
\* is written twice in a frame; a second write later than the duplicate window
\* submits again.
PostIfIdle ==  \* faulty variant: a busy worker is left alone
  slot' = IF worker.pc = "wait" THEN [gen |-> generation, text |-> field] ELSE slot
Post == slot' = [gen |-> generation, text |-> field]

PostJob ==
  /\ guest = "post"
  /\ guest' \in {"popup", "done"}
  /\ Post
  /\ UNCHANGED <<settingsVars, field, state, generation, job, answerVars, open,
                 seed, backoff, worker, listed>>

ShowModal ==
  /\ Goes("popup", "modal")
  /\ UNCHANGED <<settingsVars, field, state, generation, job, answerVars, open,
                 seed, backoff, slot, worker, listed>>

\* The modal's poll: while the session is busy it waits, then it closes, which
\* writes leave, and looks at the answer.
ModalCloses ==
  /\ Goes("modal", "closed")
  /\ state # "searching"
  /\ open' = FALSE
  /\ UNCHANGED <<settingsVars, field, state, generation, job, answerVars, seed,
                 backoff, slot, worker, listed>>

\* A list is requested; anything else is marked shown and noticed.
HasResults == state = "results" /\ matches # {}

MarkSeen == show' = FALSE

LooksAtAnswer ==
  /\ \/ HasResults /\ Goes("closed", "take") /\ UNCHANGED show
     \/ ~HasResults /\ Goes("closed", "menu") /\ MarkSeen
  /\ UNCHANGED <<settingsVars, field, state, generation, job, matches, open, seed,
                 backoff, slot, worker, listed>>

\* The search page's source: the offers, then the mark.
SearchOffers ==
  /\ Goes("take", "mark")
  /\ listed' = matches
  /\ UNCHANGED <<settingsVars, field, state, generation, job, answerVars, open,
                 seed, backoff, slot, worker>>

SearchMarkShown ==
  /\ Goes("mark", "browse")
  /\ show' = FALSE
  /\ UNCHANGED <<settingsVars, field, state, generation, job, matches, open, seed,
                 backoff, slot, worker, listed>>

LeaveBrowser ==
  /\ Goes("browse", "menu")
  /\ listed' = {}
  /\ UNCHANGED <<settingsVars, field, state, generation, job, answerVars, open,
                 seed, backoff, slot, worker>>

\* The modal's Cancel, or the screen left under it: SearchCancel, then leave.
DropJob == job' = NoJob

SearchCancel ==
  /\ Goes("modal", "menu")
  /\ generation < MaxQueries
  /\ generation' = generation + 1
  /\ DropJob
  /\ open' = FALSE /\ show' = FALSE /\ seed' = FALSE
  /\ field' = Short /\ matches' = {} /\ state' = "idle" /\ backoff' = FALSE
  /\ UNCHANGED <<settingsVars, slot, worker, listed>>

Commit ==
  /\ guest = "menu" /\ commits < MaxCommits
  /\ filter' \in Filters \ {filter}
  /\ commits' = commits + 1
  /\ UNCHANGED <<field, state, generation, job, answerVars, open, seed, backoff,
                 slot, worker, guest, listed>>

-----------------------------------------------------------------------------
(* The worker                                                              *)

WorkerAt(from, to) ==
  worker.pc = from /\ worker' = [worker EXCEPT !.pc = to]
WorkerEnds(from) == worker.pc = from /\ worker' = NoWork

\* Only the worker moves, and the session stays as it is.
SessionStays == UNCHANGED <<settingsVars, field, state, generation, job,
                            answerVars, open, seed, backoff, guest, listed>>

TakesJob ==
  /\ worker.pc = "wait" /\ slot # NoPost
  /\ worker' = [pc |-> "check", gen |-> slot.gen, text |-> slot.text, page |-> 1]
  /\ slot' = NoPost
  /\ SessionStays

\* Whether an answer for the worker's generation is still the session's.
AnyJob == job.gen # 0 /\ state = "searching"  \* faulty variant
Current == job.gen = worker.gen /\ state = "searching"

\* SearchPageWanted (and SearchBuildPageRequest, which asks the same), before
\* every request and in the pause before it.
ChecksPage ==
  /\ \/ Current /\ (WorkerAt("check", "fetch") \/ WorkerAt("pause", "check"))
     \/ ~Current /\ (WorkerEnds("check") \/ WorkerEnds("pause"))
  /\ SessionStays /\ UNCHANGED slot

Answered ==
  /\ WorkerAt("fetch", "accept") \/ WorkerAt("fetch", "fail")
  /\ SessionStays /\ UNCHANGED slot

\* SearchAcceptPage and SearchFailAfter drop an answer that is not current.
Stale ==
  /\ ~Current
  /\ WorkerEnds("accept") \/ WorkerEnds("fail")
  /\ SessionStays /\ UNCHANGED slot

\* NextPageAfter with a site that numbers its pages as asked.
Budget(done) == done < PageBudget

\* An accepted page, of which the filter may drop everything; more asks for the
\* next one, or the answer is terminal.
AcceptPage(some, more) ==
  /\ Current /\ worker.pc = "accept"
  /\ matches' = matches \cup (IF some THEN {[text |-> worker.text,
                                            filter |-> job.filter,
                                            page |-> worker.page]}
                                      ELSE {})
  /\ IF more /\ Budget(job.done + 1)
     THEN /\ job' = [job EXCEPT !.done = @ + 1]
          /\ worker' = [worker EXCEPT !.pc = "pause", !.page = @ + 1]
          /\ backoff' = FALSE
          /\ UNCHANGED <<state, show>>
     ELSE /\ job' = NoJob
          /\ worker' = NoWork
          /\ state' = IF matches' = {} THEN "empty" ELSE "results"
          /\ show' = TRUE
          /\ UNCHANGED backoff
  /\ UNCHANGED <<settingsVars, field, generation, open, seed, slot, guest, listed>>

\* A failure keeps what landed before it.
FailPage ==
  /\ Current /\ WorkerEnds("fail")
  /\ job' = NoJob /\ backoff' = TRUE /\ show' = TRUE
  /\ state' = IF matches = {} THEN "failed" ELSE "results"
  /\ UNCHANGED <<settingsVars, field, generation, matches, open, seed, slot,
                 guest, listed>>

WorkerStep ==
  \/ TakesJob \/ ChecksPage \/ Answered \/ Stale \/ FailPage
  \/ \E some, more \in BOOLEAN : AcceptPage(some, more)

-----------------------------------------------------------------------------
(* The system                                                              *)

\* The script's own statements and the modal's poll; the rest is the player's.
ScriptStep ==
  \/ SubmitStarts \/ SubmitRefused \/ PostJob \/ ShowModal \/ ModalCloses
  \/ LooksAtAnswer \/ SearchOffers \/ SearchMarkShown

BackoffEnds ==
  /\ backoff /\ backoff' = FALSE
  /\ UNCHANGED <<settingsVars, field, state, generation, job, answerVars, open,
                 seed, slot, worker, guest, listed>>

Next ==
  \/ OpenSearch \/ SearchSetText \/ KeyboardCancel \/ SearchCancel \/ LeaveBrowser
  \/ Commit \/ ScriptStep \/ WorkerStep \/ BackoffEnds

Spec == Init /\ [][Next]_vars

\* The worker is scheduled and a request ends (15 s timeout); the script runs
\* every frame.
Fairness == WF_vars(WorkerStep) /\ WF_vars(ScriptStep)

FairSpec == Spec /\ Fairness

-----------------------------------------------------------------------------
(* Properties                                                              *)

\* What the browser is given is the answer to the text in the field, under the
\* current filter, and is not empty, whatever older walks were still answering.
ListedIsAnswer ==
  guest \in {"mark", "browse"} =>
    /\ listed # {}
    /\ \A a \in listed : a.text = field /\ a.filter = filter

\* The loading modal never waits for ever.
ModalEnds == (guest = "modal") ~> (guest # "modal")
=============================================================================
