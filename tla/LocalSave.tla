------------------------------- MODULE LocalSave -------------------------------
(***************************************************************************)
(* The player's offline progress (src/hooks/local_save.cpp and             *)
(* fs/local_save.h): the guest's SaveData object, which the game clears    *)
(* whenever it reloads the player's save, and the checkpoint file the hooks*)
(* write it to and restore it from.                                        *)
(*                                                                         *)
(* Abstracted: a payload is the scores and stars it holds and the rest     *)
(* (controller mapping, last and total stars), which `Progress` does not   *)
(* count.  The guest's serializer is exact: what it wrote is what it reads.*)
(* A failed save, the refusal of a damaged file and a failed allocation are*)
(* steps; a crash is one between any two, and the file is replaced as a    *)
(* whole.  Left out: the console's own audio and video autosave, and a     *)
(* power cut (the temporary file is not flushed to the disk before it      *)
(* replaces the checkpoint).                                               *)
(***************************************************************************)
EXTENDS FiniteSets

CONSTANTS
  Entries,  \* scores and stars of songs
  Rests,    \* values of what else a payload holds
  Fresh,    \* the rest of an object nobody has touched
  Missing, Damaged, Null

VARIABLES
  file,      \* local_save.bin: a payload, Missing or Damaged
  object,    \* the guest's SaveData
  ready,     \* the hooks have seen SaveData's initialization
  dirty,     \* a mutator ran since the last checkpoint
  writable,  \* the file was not found invalid at boot
  lastSaved, \* the payload last loaded or saved
  waits,     \* retry_at lies ahead
  holds      \* history: no restore of a checkpoint has failed since the last success

saveVars == <<ready, dirty, writable, lastSaved, waits, holds>>
vars == <<file, object, saveVars>>

Payloads == [held : SUBSET Entries, rest : Rests]
Cleared  == [held |-> {}, rest |-> Fresh]

SaveTypeOK ==
  /\ file \in Payloads \cup {Missing, Damaged}
  /\ object \in Payloads \cup {Null}
  /\ {ready, dirty, writable, waits, holds} \subseteq BOOLEAN
  /\ lastSaved \in Payloads \cup {Null}

\* What a checkpoint, or none, carries (Summarize).
Progress(payload) == IF payload \in Payloads THEN payload.held ELSE {}

\* A process that has not initialized SaveData yet.
Init ==
  /\ file \in Payloads \cup {Missing, Damaged}
  /\ object = Null /\ lastSaved = Null
  /\ ready = FALSE /\ dirty = FALSE /\ waits = FALSE
  /\ writable = TRUE /\ holds = TRUE

-----------------------------------------------------------------------------
(* The hooks                                                               *)

\* Restore after the guest cleared its object; an allocation may fail.
Restore(payload) ==
  \/ payload = Null /\ object' = Cleared /\ UNCHANGED holds
  \/ payload # Null /\ object' = payload /\ holds' = TRUE
  \/ payload # Null /\ object' = Cleared /\ holds' = FALSE

\* SaveData's initialization loads the checkpoint; a file that cannot be read
\* or validated is left alone for the session.
Initializes ==
  /\ object = Null
  /\ \/ /\ file \in Payloads
        /\ lastSaved' = file /\ Restore(file)
        /\ UNCHANGED writable
     \/ /\ file = Missing
        /\ Restore(Null)
        /\ UNCHANGED <<lastSaved, writable>>
     \/ /\ file # Missing
        /\ writable' = FALSE
        /\ Restore(Null)
        /\ UNCHANGED lastSaved
  /\ ready' = TRUE
  /\ UNCHANGED <<file, dirty, waits>>

\* Faulty variant: the checkpoint is restored at initialization only.
TearsDownOnly ==
  /\ ready
  /\ object' = Cleared
  /\ UNCHANGED <<file, saveVars>>

\* The guest clears its object to (re)load the player's save.
TearsDown ==
  /\ ready
  /\ IF writable THEN Restore(lastSaved) ELSE Restore(Null)
  /\ UNCHANGED <<file, ready, dirty, writable, lastSaved, waits>>

\* A mutator of the guest: a score or stars are added, or the rest changes.
Mutates ==
  /\ ready
  /\ \/ \E e \in Entries \ object.held :
          object' = [object EXCEPT !.held = @ \cup {e}]
     \/ \E r \in Rests \ {object.rest} : object' = [object EXCEPT !.rest = r]
  /\ dirty' = TRUE
  /\ UNCHANGED <<file, ready, writable, lastSaved, waits, holds>>

\* Faulty variant: the checkpoint does not look for progress.
NeverEmpties(payload) == FALSE

\* An object without progress does not replace a checkpoint that has some.
Empties(payload) == payload.held = {} /\ Progress(lastSaved) # {}

Due == ready /\ dirty /\ writable /\ ~waits

\* Checkpoint, after the guest's SaveLoadManager::Poll.
NothingToSave ==
  /\ Due
  /\ object = lastSaved \/ Empties(object)
  /\ dirty' = FALSE
  /\ UNCHANGED <<file, object, ready, writable, lastSaved, waits, holds>>

Saves ==
  /\ Due
  /\ object # lastSaved /\ ~Empties(object)
  /\ file' = object /\ lastSaved' = object
  /\ dirty' = FALSE
  /\ UNCHANGED <<object, ready, writable, waits, holds>>

CannotSave ==
  /\ Due
  /\ object # lastSaved /\ ~Empties(object)
  /\ waits' = TRUE
  /\ UNCHANGED <<file, object, ready, dirty, writable, lastSaved, holds>>

\* Five seconds have passed since the failed save.
RetryTimeComes ==
  /\ waits
  /\ waits' = FALSE
  /\ UNCHANGED <<file, object, ready, dirty, writable, lastSaved, holds>>

\* The process exits or crashes, and the game is started again.
Restarts ==
  /\ ready
  /\ object' = Null /\ lastSaved' = Null
  /\ ready' = FALSE /\ dirty' = FALSE /\ waits' = FALSE
  /\ writable' = TRUE /\ holds' = TRUE
  /\ UNCHANGED file

Next ==
  \/ Initializes \/ TearsDown \/ Mutates
  \/ NothingToSave \/ Saves \/ CannotSave \/ RetryTimeComes
  \/ Restarts

Spec == Init /\ [][Next]_vars

-----------------------------------------------------------------------------
(* Properties                                                              *)

\* A checkpoint that holds progress is never replaced by one that holds none,
\* nor lost: not by the guest's clearing of its object, a restore that failed,
\* a save that failed, a file that could not be read or a crash
\* (local_save.cpp:150-159, fs/local_save.h:124-125).
ProgressSurvives == [][Progress(file) # {} => Progress(file') # {}]_vars

\* While the restores succeed no score and no star of a checkpoint is missing
\* from a later one: the guest's clearing never reaches the file
\* (local_save.cpp:102-107, 206-212).
ScoresAccumulate == [][holds => Progress(file) \subseteq Progress(file')]_vars

=============================================================================
