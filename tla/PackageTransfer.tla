---------------------------- MODULE PackageTransfer ----------------------------
(***************************************************************************)
(* One download job's transfer: RunJob and its retry loop                  *)
(* (src/src/store/store_download_service.cpp) around TransferPackage       *)
(* (store_download.cpp), the transport it drives                           *)
(* (store_transfer_winhttp.cpp) and the part file (store_install.cpp).     *)
(* StoreDownload takes all of this as one step with any outcome; here the  *)
(* worker, the player's Cancel and an unreliable server and volume meet    *)
(* chunk by chunk.                                                         *)
(*                                                                         *)
(* Abstracted: bytes are units, the magic being Magic of them; URLs are    *)
(* valid or not; a head is accepted, refused (an archive, a web page, a    *)
(* compressed body, a length over the ceiling) or a status; a package of   *)
(* another title is refused like an unreadable one.  The master switch     *)
(* keeps its value for the whole run, so still_enabled has nothing to say. *)
(***************************************************************************)
EXTENDS Naturals

CONSTANTS
  Magic,       \* units of the STFS magic: the four bytes a prefix needs
  Ceiling,     \* kMaxDownloadBytes
  Buffered,    \* what the file stream holds before it writes
  MaxHops,     \* kMaxRedirectHops
  MaxRetries   \* RetryPolicy::max_retries

VARIABLES
  pc,          \* where the worker is
  attempt,     \* RunJob's attempt
  hops,        \* TransferPackage's locals
  length,      \* the expected length the head and the offer agree on; 0 unknown
  agree,       \* the offer's size and Content-Length do not contradict each other
  received,
  prefix,      \* units held back until the magic is complete
  checked,     \* prefix_checked
  stream,      \* units in the ofstream's buffer
  failed,      \* write_failed
  refusal,     \* head_error
  ok,          \* the transport's result.ok
  disk,        \* units in the part file; Absent when there is none
  sent,        \* units the server has sent in this exchange
  cancel,      \* the job's cancel flag, or the service's stop
  outcome      \* what the attempt returned, then what the job ends with

vars == <<pc, attempt, hops, length, agree, received, prefix, checked, stream,
          failed, refusal, ok, disk, sent, cancel, outcome>>

headVars == <<length, agree>>
bodyVars == <<received, prefix, checked, stream, failed, sent>>

Absent == Ceiling + 2
Sizes  == 0 .. Ceiling + 1

Refusals == {"none", "policy", "archive", "too-large", "storage", "bad-prefix"}
Outcomes == Refusals \cup {"installed", "network", "http", "busy", "length",
                           "invalid", "cancelled"}

TransferTypeOK ==
  /\ pc \in {"start", "attempt", "hop", "head", "body", "close", "judge", "returned",
             "delay", "commit", "over"}
  /\ attempt \in 0 .. MaxRetries
  /\ hops \in 0 .. MaxHops
  /\ length \in Sizes /\ agree \in BOOLEAN
  /\ received \in Sizes /\ sent \in Sizes /\ prefix \in 0 .. Magic
  /\ {checked, failed, ok, cancel} \subseteq BOOLEAN
  /\ stream \in 0 .. Buffered
  /\ refusal \in Refusals
  /\ disk \in Sizes \cup {Absent}
  /\ outcome \in Outcomes

Init ==
  /\ pc = "start" /\ attempt = 0 /\ hops = 0
  /\ length = 0 /\ agree = TRUE
  /\ received = 0 /\ prefix = 0 /\ checked = FALSE /\ stream = 0
  /\ failed = FALSE /\ sent = 0
  /\ refusal = "none" /\ ok = TRUE
  /\ disk \in {Absent} \cup 0 .. Ceiling  \* an earlier run may have left a part file
  /\ cancel = FALSE /\ outcome = "none"

-----------------------------------------------------------------------------
(* The job                                                                 *)

Ends(o) == pc' = "over" /\ outcome' = o

\* DiscardStagedFile asks for the removal and ignores its error: a file another
\* program holds open stays.
Discard == disk' \in {disk, Absent}

\* Before the loop: no offer, no plan or no staging folder ends the job, and a
\* part file an earlier run left stays.
StartsJob ==
  /\ pc = "start"
  /\ Ends("storage") \/ (pc' = "attempt" /\ UNCHANGED outcome)
  /\ UNCHANGED <<attempt, hops, headVars, bodyVars, refusal, ok, disk, cancel>>

\* The retry loop's head: the part file of the try before is discarded.
BeginsAttempt ==
  /\ pc = "attempt"
  /\ Discard
  /\ IF cancel THEN Ends("cancelled") ELSE pc' = "hop" /\ outcome' = "none"
  /\ hops' = 0 /\ received' = 0 /\ prefix' = 0 /\ checked' = FALSE
  /\ stream' = 0 /\ failed' = FALSE /\ sent' = 0
  /\ refusal' = "none" /\ ok' = TRUE
  /\ UNCHANGED <<attempt, headVars, cancel>>

RetriesLeft == attempt < MaxRetries

\* IsTransient.
Transient(o) == o \in {"network", "busy"}

\* TransferPackage's return, and what RunJob makes of it: the install, or the
\* part file discarded and the job ended or tried again.
Returns(o) == pc' = "returned" /\ outcome' = o

Reports ==
  /\ pc = "returned"
  /\ \/ outcome = "none" /\ pc' = "commit" /\ UNCHANGED disk
     \/ /\ outcome # "none"
        /\ Discard
        /\ pc' = IF Transient(outcome) /\ RetriesLeft THEN "delay" ELSE "over"
  /\ UNCHANGED <<attempt, hops, headVars, bodyVars, refusal, ok, cancel, outcome>>

\* The wait before a retry looks at the flags every 25 ms.
DelayEnds ==
  /\ pc = "delay"
  /\ IF cancel THEN Ends("cancelled") /\ UNCHANGED attempt
     ELSE pc' = "attempt" /\ attempt' = attempt + 1 /\ UNCHANGED outcome
  /\ UNCHANGED <<hops, headVars, bodyVars, refusal, ok, disk, cancel>>

\* CommitStagedInstall: the rename, or every name taken or a full volume.
Commits ==
  /\ pc = "commit"
  /\ \/ Ends("installed") /\ UNCHANGED disk
     \/ Ends("storage") /\ Discard
  /\ UNCHANGED <<attempt, hops, headVars, bodyVars, refusal, ok, cancel>>

-----------------------------------------------------------------------------
(* One exchange                                                            *)

\* The loop's head, then the request: no connection, or a response.
BeginsHop ==
  /\ pc = "hop"
  /\ IF cancel
     THEN Returns("cancelled") /\ UNCHANGED ok
     ELSE /\ \/ pc' = "head" /\ ok' = TRUE
             \/ pc' = "close" /\ ok' = FALSE
          /\ UNCHANGED outcome
  /\ UNCHANGED <<attempt, hops, headVars, bodyVars, refusal, disk, cancel>>

\* on_head accepts a 200 whose head passes ValidateHead and opens the part file,
\* truncating one that is still there.  A later exchange of the same attempt is
\* never a second body.
OpenedAt == IF disk = Absent THEN 0 ELSE disk  \* faulty variant: no std::ios::trunc
Truncated == 0
AcceptsHead ==
  /\ pc = "head"
  /\ length' \in 0 .. Ceiling /\ agree' \in BOOLEAN
  /\ agree' \/ length' # 0  \* two sizes disagree only when both are known
  /\ disk' = Truncated
  /\ pc' = "body"
  /\ UNCHANGED <<attempt, hops, bodyVars, refusal, ok, cancel, outcome>>

RefusesHead ==
  /\ pc = "head"
  /\ refusal' \in {"policy", "archive", "too-large", "storage"}
  /\ pc' = "close"
  /\ UNCHANGED <<attempt, hops, headVars, bodyVars, ok, disk, cancel, outcome>>

CountHop == hops' = hops + 1

\* A 3xx: its body is never read.  The location does not resolve under the
\* policy, or the hops are used up, or it is the next request.
Redirected ==
  /\ pc = "head"
  /\ \/ cancel /\ Returns("cancelled") /\ UNCHANGED hops
     \/ ~cancel /\ Returns("policy") /\ UNCHANGED hops
     \/ ~cancel /\ hops < MaxHops /\ CountHop /\ pc' = "hop" /\ UNCHANGED outcome
  /\ UNCHANGED <<attempt, headVars, bodyVars, refusal, ok, disk, cancel>>

\* Any other status ends the attempt: 408, 429 and 5xx are worth another.
OtherStatus ==
  /\ pc = "head"
  /\ \/ cancel /\ Returns("cancelled")
     \/ ~cancel /\ (Returns("busy") \/ Returns("http"))
  /\ UNCHANGED <<attempt, hops, headVars, bodyVars, refusal, ok, disk, cancel>>

\* file.write: the units wait in the stream, or push what it holds to the volume,
\* which may be full.
Write(n) ==
  \/ /\ stream + n <= Buffered
     /\ stream' = stream + n
     /\ UNCHANGED <<disk, failed>>
  \/ /\ disk' = disk + stream + n /\ stream' = 0
     /\ UNCHANGED failed
  \/ /\ stream + n > Buffered
     /\ failed' = TRUE /\ stream' = 0
     /\ UNCHANGED disk

\* What a chunk of n units lets through: with the magic incomplete it is held.
DropHeld(n) == n  \* faulty variant: the held units are forgotten
Flushed(n) == prefix + n

GoesOn(stays) == pc' = IF stays THEN "body" ELSE "close"

\* on_data, on a chunk of n units.
Chunk(n) ==
  /\ pc = "body"
  /\ sent + n <= Ceiling + 1 /\ sent' = sent + n
  /\ IF cancel
     THEN /\ pc' = "close"
          /\ UNCHANGED <<received, prefix, checked, stream, failed, refusal, disk>>
     ELSE IF ~checked /\ prefix + n < Magic
     THEN /\ prefix' = prefix + n
          /\ UNCHANGED <<pc, received, checked, stream, failed, refusal, disk>>
     ELSE LET got == IF checked THEN n ELSE Flushed(n)
          IN  \/ /\ ~checked  \* not an STFS package
                 /\ refusal' \in {"archive", "bad-prefix"}
                 /\ prefix' = IF prefix + n > Magic THEN Magic ELSE prefix + n
                 /\ pc' = "close"
                 /\ UNCHANGED <<received, checked, stream, failed, disk>>
              \/ /\ received + got > Ceiling
                 /\ refusal' = "too-large"
                 /\ checked' = TRUE /\ received' = Ceiling + 1
                 /\ pc' = "close"
                 /\ UNCHANGED <<prefix, stream, failed, disk>>
              \/ /\ received + got <= Ceiling
                 /\ checked' = TRUE /\ prefix' = 0
                 /\ received' = received + got
                 /\ Write(got)
                 /\ GoesOn(~failed')
                 /\ UNCHANGED refusal
  /\ UNCHANGED <<attempt, hops, headVars, ok, cancel, outcome>>

\* The body ends: at its length, early without one, or with the connection.
BodyEnds ==
  /\ pc = "body"
  /\ ok' \in BOOLEAN
  /\ pc' = "close"
  /\ UNCHANGED <<attempt, hops, headVars, bodyVars, refusal, disk, cancel, outcome>>

\* file.close(): what the stream still holds reaches the volume or does not, and
\* nobody asks which.
CloseFile ==
  /\ pc = "close"
  /\ pc' = "judge"
  /\ stream' = 0
  /\ disk' \in IF disk = Absent THEN {disk} ELSE {disk + stream, disk}
  /\ UNCHANGED <<attempt, hops, headVars, received, prefix, checked, failed, sent,
                 refusal, ok, cancel, outcome>>

\* CheckTransferLength.
LengthAgrees == agree /\ (length # 0 => received = length)

FailureBeforeFlag ==  \* faulty variant: the flag is looked at last
  IF ~ok THEN "network" ELSE IF failed THEN "storage"
  ELSE IF refusal # "none" THEN refusal
  ELSE IF ~checked THEN "bad-prefix"
  ELSE IF ~LengthAgrees THEN "length"
  ELSE "none"
\* What TransferPackage reports of an exchange whose body it wanted, in order.
Verdict ==
  IF ~ok THEN (IF cancel THEN "cancelled" ELSE "network")
  ELSE IF failed THEN "storage"
  ELSE IF cancel THEN "cancelled"
  ELSE IF refusal # "none" THEN refusal
  ELSE IF ~checked THEN "bad-prefix"
  ELSE IF ~LengthAgrees THEN "length"
  ELSE "none"

\* The last look, ReadPackageIdentity of the part file, which needs the header.
Judges ==
  /\ pc = "judge"
  /\ IF Verdict # "none"
     THEN Returns(Verdict)
     ELSE \/ disk >= Magic /\ Returns("none")
          \/ Returns("invalid")
  /\ UNCHANGED <<attempt, hops, headVars, bodyVars, refusal, ok, disk, cancel>>

-----------------------------------------------------------------------------
Cancel ==
  /\ ~cancel /\ pc # "over"
  /\ cancel' = TRUE
  /\ UNCHANGED <<pc, attempt, hops, headVars, bodyVars, refusal, ok, disk, outcome>>

WorkerStep ==
  \/ StartsJob \/ BeginsAttempt \/ Reports \/ DelayEnds \/ Commits
  \/ BeginsHop \/ AcceptsHead \/ RefusesHead \/ Redirected \/ OtherStatus
  \/ \E n \in 1 .. Ceiling : Chunk(n)
  \/ BodyEnds \/ CloseFile \/ Judges

Next == WorkerStep \/ Cancel

Spec == Init /\ [][Next]_vars

\* The worker runs, and every call of the transport times out in the end.
Fairness == WF_vars(WorkerStep)

FairSpec == Spec /\ Fairness

-----------------------------------------------------------------------------
(* Properties                                                              *)

\* What is accepted is the body the server sent: the units held for the prefix
\* and every chunk after them were counted once, the count agrees with whatever
\* sizes are known, and no write reported a failure.  The part file to be renamed
\* holds units of this body only, although an earlier try's file may still have
\* been there when the attempt began.
AcceptedIsTheBody ==
  pc = "commit" =>
    /\ received = sent /\ prefix = 0 /\ ~failed
    /\ length # 0 => received = length
    /\ received \in Magic .. Ceiling
    /\ disk <= received

\* A cancel that lands before the exchange is judged ends the job as cancelled
\* or, when the volume failed first, as that: never as the server's failure, a
\* retry or an install.
CancelIsHonoured ==
  cancel /\ pc \in {"start", "attempt", "hop", "head", "body", "close", "judge", "delay"}
    ~> pc = "over" /\ outcome \in {"cancelled", "storage"}

-----------------------------------------------------------------------------
(* A claim of the code's comments that the code does not keep              *)

\* store_install.h:9-12: "Nothing partial is ever enumerable": only a file that
\* passed the length check is renamed.  The check compares the units received;
\* the last of them may be lost when the stream is closed.
InstalledIsWhole == outcome = "installed" => disk = received
=============================================================================
