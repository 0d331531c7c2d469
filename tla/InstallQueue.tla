----------------------------- MODULE InstallQueue -----------------------------
(***************************************************************************)
(* What the download service promises, without threads, flags or mutexes:  *)
(* requests to install or to delete wait in one first-in first-out queue,  *)
(* a token waits at most once, one request runs at a time, only the        *)
(* running request touches the library, an install adds at most one        *)
(* package and replaces none, and a deletion removes only packages.        *)
(* StoreDownload implements it with a queue of bare tokens, a set that     *)
(* says which of them are deletions, and the active token.                 *)
(***************************************************************************)
EXTENDS SequencesExt

CONSTANTS Tokens, Songs, SongOf, Paths, Idle

Kinds == {"install", "delete"}
Requests == [token : Tokens, kind : Kinds]

VARIABLES
  waiting,  \* the requests that wait, in order
  running,  \* the request that runs, or Idle
  added,    \* the running install has added its package
  library   \* packages on disk

vars == <<waiting, running, added, library>>

Waits(t) == \E i \in 1 .. Len(waiting) : waiting[i].token = t

TypeOK ==
  /\ waiting \in Seq(Requests)
  /\ running \in Requests \cup {Idle}
  /\ added \in BOOLEAN
  /\ library \subseteq Paths

Init ==
  /\ waiting = <<>>
  /\ running = Idle
  /\ added = FALSE
  /\ library \subseteq Paths

\* An accepted request.  An install of the running token is not accepted.
Accept(r) ==
  /\ ~Waits(r.token)
  /\ running # Idle => (running.token # r.token \/ r.kind = "delete")
  /\ waiting' = Append(waiting, r)
  /\ UNCHANGED <<running, added, library>>

\* A waiting transfer becomes a deletion and keeps its place.
Replace(i) ==
  /\ waiting' = [waiting EXCEPT ![i].kind = "delete"]
  /\ UNCHANGED <<running, added, library>>

\* The player withdraws a waiting request.
Withdraw(i) ==
  /\ waiting' = RemoveAt(waiting, i)
  /\ UNCHANGED <<running, added, library>>

\* A restart drops everything that waits.
Drop ==
  /\ waiting' = <<>>
  /\ UNCHANGED <<running, added, library>>

Begin ==
  /\ running = Idle
  /\ waiting # <<>>
  /\ running' = Head(waiting)
  /\ waiting' = Tail(waiting)
  /\ added' = FALSE
  /\ UNCHANGED library

AddPackage(p) ==
  /\ running # Idle
  /\ running.kind = "install"
  /\ ~added
  /\ p \notin library
  /\ p[1] = SongOf[running.token]
  /\ library' = library \cup {p}
  /\ added' = TRUE
  /\ UNCHANGED <<waiting, running>>

RemovePackage(p) ==
  /\ running # Idle
  /\ running.kind = "delete"
  /\ p[1] = SongOf[running.token]
  /\ library' = library \ {p}
  /\ UNCHANGED <<waiting, running, added>>

End ==
  /\ running # Idle
  /\ running' = Idle
  /\ added' = FALSE
  /\ UNCHANGED <<waiting, library>>

Next ==
  \/ \E r \in Requests : Accept(r)
  \/ \E i \in 1 .. Len(waiting) : Replace(i) \/ Withdraw(i)
  \/ Drop \/ Begin \/ End
  \/ \E p \in Paths : AddPackage(p) \/ RemovePackage(p)

Spec == Init /\ [][Next]_vars
=============================================================================
