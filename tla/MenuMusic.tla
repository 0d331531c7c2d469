------------------------------- MODULE MenuMusic ------------------------------
(***************************************************************************)
(* The menu's background music taken from the library (hooks/shell_music.cpp,*)
(* hooks/menu_music_queue.h, menu_music_session.h, menu_music_cache.h).    *)
(*                                                                         *)
(* Two threads.  The guest's menu polls every frame: it takes what the     *)
(* worker prepared, publishes it, asks for more, applies the player's Next *)
(* or Previous and watches the stream; g_mutex makes each of these parts   *)
(* atomic.  The worker of MenuMusicQueue prepares one package at a time, or*)
(* reads a batch of the catalogue, outside every lock.                     *)
(*                                                                         *)
(* A song is <<package, number>>.  Package 0 is the game's own archive,    *)
(* which needs no mount.  Key 0 is also the catalogue's job (both are      *)
(* kNoIndex in the code, and package 0 is never asked of the queue).       *)
(***************************************************************************)
EXTENDS Naturals, Sequences, FiniteSets, FiniteSetsExt

CONSTANTS
  Count,     \* the number of songs of each package, package 0 included
  Ahead,     \* kAhead: songs planned after the current one
  Behind,    \* kBehind: songs kept warm, and here remembered, before it
  Resident,  \* kResidentLimit: packages mounted at once
  Strikes,   \* failures that make a song unusable
  Batch,     \* packages one catalogue job reads
  Caches,    \* the sets of packages a boot may find in the catalogue's cache
  Nothing    \* no song, no package, no result, no command

VARIABLES
  queue,     \* MenuMusicQueue: requests, ready, outstanding, paused, stopped
  worker,    \* the queue's worker: its job and the packages this batch read
  catalogue, \* g_catalog_pending and what belongs to it
  session,   \* MusicSession
  held,      \* g_ready_package
  mounted,   \* g_cache
  files,     \* the packages with an open file
  music,     \* the menu's stream and the player's command
  guest,     \* the part of its frame the guest thread is in, and why
  allowed,   \* g_catalog_io_allowed
  closing    \* g_closing

vars == <<queue, worker, catalogue, session, held, mounted, files, music,
          guest, allowed, closing>>

Packages == DOMAIN Count \ {0}
Songs == UNION {{<<p, i>> : i \in 1..Count[p]} : p \in DOMAIN Count}
SongsOf(P) == {s \in Songs : s[1] \in P}
CatalogJob == 0
Prepared == [package : Packages, ok : BOOLEAN]
CatalogResult == [package : {CatalogJob}, ok : BOOLEAN]  \* ok: it is complete

-----------------------------------------------------------------------------
(* MusicSession: one playlist with a cursor, and the deck of the pass       *)

Usable(d, s) == d.strikes[s] < Strikes /\ s[1] \notin d.blocked
UsableAt(d, list) == {i \in DOMAIN list : Usable(d, list[i])}
Wanted(d) == IF d.current = Nothing THEN 1 + Ahead ELSE Ahead
Upcoming(d) == Cardinality(UsableAt(d, d.ahead))
NextSong(d) ==
  IF UsableAt(d, d.ahead) = {} THEN Nothing ELSE d.ahead[Min(UsableAt(d, d.ahead))]
PreviousSong(d) ==
  IF UsableAt(d, d.past) = {} THEN d.current ELSE d.past[Max(UsableAt(d, d.past))]

Played(d) ==
  d.past \o (IF d.current = Nothing THEN <<>> ELSE <<d.current>>)
LastPlanned(d) ==
  LET list == Played(d) \o d.ahead IN IF list = <<>> THEN Nothing ELSE list[Len(list)]
Recent(list) == SubSeq(list, IF Len(list) > Behind THEN Len(list) - Behind + 1 ELSE 1, Len(list))

Discover(d, P) ==
  [d EXCEPT !.discovered = @ \cup P,
            !.remaining = @ \cup SongsOf(P \ d.discovered)]

\* One turn of PlanAhead's loop: refill an empty deck for a new pass, draw.
Draw(d) ==
  LET deck == IF d.remaining # {} THEN d.remaining
              ELSE {s \in SongsOf(d.discovered) : Usable(d, s)}
      rest == deck \ {LastPlanned(d)}
  IN  IF Upcoming(d) >= Wanted(d) THEN {d}
      ELSE IF rest = {} THEN {[d EXCEPT !.remaining = deck]}
      ELSE {[d EXCEPT !.remaining = deck \ {s},
                      !.ahead = IF Usable(d, s) THEN Append(@, s) ELSE @] : s \in rest}

\* Every session PlanAhead may leave: the draws are random.
Planned(d) ==
  LET after[n \in 0..(Ahead + 1 + Cardinality(Songs))] ==
        IF n = 0 THEN {d} ELSE UNION {Draw(e) : e \in after[n - 1]}
  IN  IF d.complete THEN after[Ahead + 1 + Cardinality(Songs)] ELSE {d}

\* Select(the position of s): what it passes over stays in the history.
SelectNext(d, s) ==
  LET at == Min({i \in DOMAIN d.ahead : d.ahead[i] = s}) IN
      [d EXCEPT !.past = Recent(Played(d) \o SubSeq(d.ahead, 1, at - 1)),
                !.current = s,
                !.ahead = SubSeq(@, at + 1, Len(@))]
SelectPrevious(d, s) ==
  LET at == Max({i \in DOMAIN d.past : d.past[i] = s}) IN
      IF s = d.current THEN d
      ELSE [d EXCEPT !.past = SubSeq(@, 1, at - 1), !.current = s,
                     !.ahead = SubSeq(d.past, at + 1, Len(d.past)) \o <<d.current>> \o @]

-----------------------------------------------------------------------------
(* MenuMusicQueue and MusicMountCache                                       *)

CanRequest(q, key) ==
  /\ ~q.stopped /\ key \notin q.outstanding
  /\ Cardinality(q.outstanding) < 2
Request(q, key, first) ==
  IF ~CanRequest(q, key) THEN q
  ELSE [q EXCEPT !.outstanding = @ \cup {key},
                 !.requests = IF first THEN <<key>> \o @ ELSE Append(@, key)]

\* Faulty variant: a planned song is handed over before its package is mounted.
AnyPlanned(s, m) == TRUE
Ready(s, m) == s[1] \in m \cup {0}

\* The packages that must stay mounted: the songs around the cursor, and pins.
Warm(d) ==
  LET next == UsableAt(d, d.ahead)
      near == {i \in next : Cardinality({j \in next : j < i}) < Wanted(d)}
      pins == {d.current, music.stream, music.target} \ {Nothing}
  IN  {s[1] : s \in {d.ahead[i] : i \in near}
                \cup {d.past[i] : i \in UsableAt(d, d.past)} \cup pins}

RetireCold(m, d) == {p \in m : p \in Warm(d) \/ p \in files}

-----------------------------------------------------------------------------
(* Initial state: the queue has just been started by Configure              *)

NewSession(P) ==
  [discovered |-> P \cup {0}, blocked |-> {}, strikes |-> [s \in Songs |-> 0],
   remaining |-> SongsOf(P \cup {0}), past |-> <<>>, current |-> Nothing,
   ahead |-> <<>>, complete |-> P = Packages]

Init ==
  /\ queue = [requests |-> <<>>, ready |-> <<>>, outstanding |-> {},
              paused |-> FALSE, stopped |-> FALSE]
  /\ worker = [job |-> Nothing, read |-> 0]
  /\ \E known \in Caches :
       /\ catalogue = [pending |-> known # Packages, known |-> known, cursor |-> 0,
                       opening |-> IF known = Packages THEN {} ELSE Packages,
                       probing |-> Nothing]
       /\ session = NewSession(known)
  /\ held = Nothing /\ mounted = {} /\ files = {}
  /\ music = [mode |-> "off", stream |-> Nothing, active |-> FALSE,
              command |-> Nothing, target |-> Nothing, started |-> FALSE]
  /\ guest = [pc |-> "schedule", why |-> "start"]
  /\ allowed = FALSE /\ closing = FALSE

-----------------------------------------------------------------------------
(* The worker                                                               *)

WorkerTakes ==
  /\ worker.job = Nothing /\ ~queue.stopped /\ ~queue.paused
  /\ queue.requests # <<>> /\ Len(queue.ready) < 2
  /\ worker' = [job |-> Head(queue.requests), read |-> 0]
  /\ queue' = [queue EXCEPT !.requests = Tail(@)]
  /\ UNCHANGED <<catalogue, session, held, mounted, files, music, guest, allowed, closing>>

\* A result waits for the guest; a job that gave none gives its place back.
Delivers(r) ==
  queue' = IF queue.stopped THEN queue
           ELSE IF r = Nothing THEN [queue EXCEPT !.outstanding = @ \ {worker.job}]
           ELSE [queue EXCEPT !.ready = Append(@, r)]

\* A package that cannot be mounted is delivered too: it must be blocked.
PreparesPackage ==
  /\ worker.job \in Packages
  /\ \E ok \in BOOLEAN : Delivers([package |-> worker.job, ok |-> ok])
  /\ worker' = [job |-> Nothing, read |-> 0]
  /\ UNCHANGED <<catalogue, session, held, mounted, files, music, guest, allowed, closing>>

\* One record of the catalogue; a package that cannot be read stays unknown.
ReadsRecord ==
  /\ worker.job = CatalogJob /\ ~closing /\ allowed
  /\ worker.read < Batch /\ catalogue.cursor < Cardinality(Packages)
  /\ LET p == catalogue.cursor + 1 IN
     \E ok \in BOOLEAN :
       /\ p \in catalogue.known => ~ok
       /\ catalogue' = [catalogue EXCEPT !.cursor = p, !.known = IF ok THEN @ \cup {p} ELSE @]
       /\ worker' = [worker EXCEPT !.read = IF p \in catalogue.known THEN @ ELSE @ + 1]
  /\ UNCHANGED <<queue, session, held, mounted, files, music, guest, allowed, closing>>

EndsBatch ==
  /\ worker.job = CatalogJob
  /\ \/ closing /\ Delivers(Nothing)
     \/ /\ ~closing
        /\ ~allowed \/ worker.read = Batch \/ catalogue.cursor = Cardinality(Packages)
        /\ Delivers([package |-> CatalogJob, ok |-> catalogue.cursor = Cardinality(Packages)])
  /\ worker' = [job |-> Nothing, read |-> 0]
  /\ UNCHANGED <<catalogue, session, held, mounted, files, music, guest, allowed, closing>>

WorkerStops ==
  /\ worker.job = Nothing /\ queue.stopped /\ queue.outstanding # {}
  /\ queue' = [queue EXCEPT !.requests = <<>>, !.ready = <<>>, !.outstanding = {}]
  /\ UNCHANGED <<worker, catalogue, session, held, mounted, files, music, guest, allowed, closing>>

-----------------------------------------------------------------------------
(* The guest: PublishQueuedPool                                             *)

At(pc) == guest.pc = pc
\* What follows PublishQueuedPool in the same call; a menu without its music has nothing.
After(why) == IF why = "ask" THEN "ask"
              ELSE IF why = "poll" /\ music.mode # "off" THEN "navigate" ELSE "idle"
GuestAt(pc, why) == [pc |-> pc, why |-> IF pc = "idle" THEN "none" ELSE why]
Goes(pc) == guest' = GuestAt(pc, guest.why)

\* A frame's poll, the panel's Load on entering the menu, or a loading screen's query.
GuestBegins(why) ==
  /\ At("idle")
  /\ why # "poll" => music.mode = "off"
  /\ LET active == ~closing /\ (why # "poll" \/ music.mode # "off") IN
     /\ allowed' = active
     /\ queue' = IF closing THEN queue ELSE [queue EXCEPT !.paused = ~active]
     /\ guest' = GuestAt(IF active THEN "publish" ELSE After(why), why)
  /\ UNCHANGED <<worker, catalogue, session, held, mounted, files, music, closing>>

\* PublishPackage's end: mount what is warm, or keep it while every place is taken.
Mounts(r, d) ==
  IF r.package \notin Warm(d) \/ r.package \in mounted
  THEN held' = Nothing /\ UNCHANGED mounted
  ELSE LET kept == RetireCold(mounted, d)
           full == Cardinality(kept) >= Resident
       IN  /\ mounted' = IF full THEN kept ELSE kept \cup {r.package}
           /\ held' = IF full THEN r ELSE Nothing

PublishCatalogue(r) ==
  /\ r.package = CatalogJob
  /\ IF r.ok
     THEN /\ \E d \in Planned([Discover(session, Packages) EXCEPT !.complete = TRUE]) : session' = d
          /\ catalogue' = [catalogue EXCEPT !.pending = FALSE, !.probing = Nothing]
     ELSE UNCHANGED <<session, catalogue>>
  /\ held' = Nothing /\ UNCHANGED mounted

\* The first package of a cold catalogue chooses the opening song, later ones a successor.
\* Faulty variant: a probe that ended keeps its mark.
KeepProbe(p) == catalogue
EndProbe(p) == [catalogue EXCEPT !.probing = IF @ = p THEN Nothing ELSE @]
PublishPackage(r) ==
  /\ r.package \in Packages
  /\ LET probe == catalogue.pending /\ catalogue.probing = r.package
         found == Discover(session, {r.package})
         picks == {s \in SongsOf({r.package}) : Usable(found, s)}
     IN  IF ~r.ok
         THEN /\ session' = [session EXCEPT !.blocked = @ \cup {r.package}]
              /\ catalogue' = EndProbe(r.package)
              /\ held' = Nothing /\ UNCHANGED mounted
         ELSE /\ catalogue' = [EndProbe(r.package) EXCEPT !.known = IF probe THEN @ \cup {r.package} ELSE @]
              /\ IF probe /\ picks = {}
                 THEN session' = found /\ held' = Nothing /\ UNCHANGED mounted
                 ELSE \E d \in IF probe
                               THEN {[found EXCEPT !.ahead = Append(@, s), !.remaining = @ \ {s}] : s \in picks}
                               ELSE Planned(found) :
                        session' = d /\ Mounts(r, d)

Publishes ==
  /\ At("publish") /\ Goes("schedule")
  /\ IF held = Nothing /\ queue.ready = <<>>
     THEN UNCHANGED <<queue, catalogue, session, held, mounted>>
     ELSE LET r == IF held # Nothing THEN held ELSE Head(queue.ready) IN
          /\ queue' = IF held # Nothing THEN queue
                      ELSE [queue EXCEPT !.ready = Tail(@), !.outstanding = @ \ {r.package}]
          /\ PublishCatalogue(r) \/ PublishPackage(r)
  /\ UNCHANGED <<worker, files, music, allowed, closing>>

-----------------------------------------------------------------------------
(* The guest: SchedulePreparationLocked                                     *)

Probes ==
  /\ catalogue.pending /\ Upcoming(session) < Wanted(session) /\ catalogue.opening # {}
  /\ IF catalogue.probing = Nothing
     THEN \E p \in catalogue.opening :
            /\ queue' = Request(queue, p, TRUE)
            /\ catalogue' = IF CanRequest(queue, p)
                            THEN [catalogue EXCEPT !.probing = p, !.opening = @ \ {p}]
                            ELSE catalogue
     ELSE UNCHANGED <<queue, catalogue>>
  /\ UNCHANGED <<session, mounted, allowed>>

AsksCatalogue ==
  /\ catalogue.pending
  /\ Upcoming(session) >= Wanted(session) \/ catalogue.opening = {}
  /\ IF queue.outstanding = {}
     THEN allowed' = TRUE /\ queue' = Request(queue, CatalogJob, FALSE)
     ELSE UNCHANGED <<allowed, queue>>
  /\ UNCHANGED <<catalogue, session, mounted>>

\* The player's target first, then the successor, then the rest of the window.
NextToWarm(d, m) ==
  LET cold == {p \in Warm(d) \ (d.blocked \cup {0}) : p \notin m}
      first == {s \in {music.target, NextSong(d)} \ {Nothing} : Usable(d, s) /\ s[1] \in cold}
  IN  IF music.target \in first THEN {music.target[1]}
      ELSE IF first # {} THEN {NextSong(d)[1]}
      ELSE IF cold # {} THEN {Min(cold)} ELSE {}

WarmsNext ==
  /\ ~catalogue.pending
  /\ IF queue.outstanding # {} THEN UNCHANGED <<queue, session, mounted>>
     ELSE \E d \in Planned(session) :
            LET m == RetireCold(mounted, d) IN
            /\ session' = d /\ mounted' = m
            /\ IF Cardinality(m) >= Resident \/ NextToWarm(d, m) = {} THEN UNCHANGED queue
               ELSE \E p \in NextToWarm(d, m) : queue' = Request(queue, p, TRUE)
  /\ UNCHANGED <<catalogue, allowed>>

SchedulePreparation ==
  /\ IF held # Nothing THEN UNCHANGED <<queue, catalogue, session, mounted, allowed>>
     ELSE Probes \/ AsksCatalogue \/ WarmsNext
  /\ UNCHANGED <<worker, held, files, closing>>

Schedules == At("schedule") /\ SchedulePreparation /\ Goes(After(guest.why)) /\ UNCHANGED music

-----------------------------------------------------------------------------
(* The guest: the stream                                                    *)

NoCommand(m) == [m EXCEPT !.command = Nothing, !.target = Nothing, !.started = FALSE]
Plays(m, s) == [m EXCEPT !.mode = "playing", !.stream = s, !.active = TRUE]
OpensFile(s) == files' = files \cup ({s[1]} \ {0})

\* StartNextTrack: the successor if it is mounted, else WaitForLibrary's silence.
StartsNext(d, m) ==
  \E e \in Planned(d) :
    LET s == NextSong(e) IN
    IF s # Nothing /\ Ready(s, mounted)
    THEN session' = SelectNext(e, s) /\ music' = Plays(m, s) /\ OpensFile(s)
    ELSE /\ session' = e /\ UNCHANGED files
         /\ music' = [m EXCEPT !.mode = "waiting", !.stream = Nothing, !.active = FALSE]

\* SubstituteFilename: the menu loads its music.
MenuLoads ==
  /\ At("ask") /\ Goes("idle")
  /\ StartsNext(session, NoCommand(music))
  /\ UNCHANGED <<queue, worker, catalogue, held, mounted, allowed, closing>>

\* The events of Playback::Observe, and the handoffs they lead to.
SongEnds ==
  /\ music.mode = "playing" /\ music.active
  /\ IF music.command # Nothing /\ ~music.started
     THEN \* no successor is started, and the guest's own poll takes the stream down
          /\ music' = [NoCommand(music) EXCEPT !.mode = "off", !.stream = Nothing, !.active = FALSE]
          /\ queue' = [queue EXCEPT !.paused = TRUE] /\ allowed' = FALSE
          /\ UNCHANGED <<session, files>>
     ELSE StartsNext(session, NoCommand(music)) /\ UNCHANGED <<queue, allowed>>

SongFails ==
  /\ music.mode = "playing" /\ music.active
  /\ StartsNext([session EXCEPT !.strikes[session.current] = @ + 1], NoCommand(music))
  /\ UNCHANGED <<queue, allowed>>

SongIsHeard ==
  /\ music.mode = "playing" /\ music.active
  /\ session' = [session EXCEPT !.strikes[session.current] = 0]
  /\ music' = IF music.started THEN NoCommand(music) ELSE music
  /\ UNCHANGED <<queue, allowed, files>>

LibraryArrives == music.mode = "waiting" /\ StartsNext(session, music) /\ UNCHANGED <<queue, allowed>>

Observes ==
  /\ At("observe") /\ Goes("idle")
  /\ \/ SongEnds \/ SongFails \/ SongIsHeard \/ LibraryArrives
     \/ music.mode # "waiting" /\ UNCHANGED <<session, music, files, queue, allowed>>
  /\ UNCHANGED <<worker, catalogue, held, mounted, closing>>

-----------------------------------------------------------------------------
(* The guest: ApplyNavigatorCommand                                         *)

navRest == <<worker, held, files, closing>>
otherParts == <<queue, catalogue, mounted, allowed>>

\* Nothing to apply, or a command is cancelled: another owner of the input, or the end.
PassesCommand ==
  /\ Goes("observe")
  /\ music' = IF closing \/ (music.mode = "playing" /\ ~music.started) THEN NoCommand(music) ELSE music
  /\ UNCHANGED <<session, otherParts, navRest>>

TakesCommand ==
  /\ ~closing /\ music.mode = "playing" /\ music.command = Nothing
  /\ \E c \in {"next", "previous"}, d \in Planned(session) :
       /\ session' = d
       /\ music' = [music EXCEPT !.command = c,
                                 !.target = IF c = "next" THEN NextSong(d) ELSE PreviousSong(d)]
  /\ UNCHANGED <<guest, otherParts, navRest>>

Pending == ~closing /\ music.mode = "playing" /\ music.command # Nothing /\ ~music.started

\* Next found no successor when it was taken: look again, while the catalogue is read.
FindsTarget ==
  /\ Pending /\ music.target = Nothing
  /\ \E d \in Planned(session) :
       /\ session' = d
       /\ NextSong(d) # Nothing /\ music' = [music EXCEPT !.target = NextSong(d)]
  /\ UNCHANGED <<guest, otherParts, navRest>>

\* The target's package is cold, or there is no target yet: ask for it and keep the stream.
WaitsForTarget ==
  /\ Pending /\ Goes("observe")
  /\ \/ music.target = Nothing /\ NextSong(session) = Nothing /\ ~session.complete
     \/ /\ music.target # Nothing
        /\ Usable(session, music.target) /\ ~Ready(music.target, mounted)
  /\ SchedulePreparation /\ UNCHANGED music

GivesUpTarget ==
  /\ Pending /\ Goes("observe")
  /\ \/ music.target = Nothing /\ session.complete /\ \A d \in Planned(session) : NextSong(d) = Nothing
     \/ music.target # Nothing /\ ~Usable(session, music.target)
  /\ music' = NoCommand(music)
  /\ UNCHANGED <<session, otherParts, navRest>>

StartsTarget ==
  /\ Pending /\ Goes("observe")
  /\ music.target # Nothing /\ Usable(session, music.target) /\ Ready(music.target, mounted)
  /\ session' = IF music.command = "next" THEN SelectNext(session, music.target)
                ELSE SelectPrevious(session, music.target)
  /\ music' = [Plays(music, music.target) EXCEPT !.started = TRUE]
  /\ OpensFile(music.target)
  /\ UNCHANGED <<otherParts, worker, held, closing>>

Navigates ==
  /\ At("navigate")
  /\ \/ PassesCommand \/ TakesCommand \/ FindsTarget
     \/ WaitsForTarget \/ GivesUpTarget \/ StartsTarget

-----------------------------------------------------------------------------
(* Leaving the menu, closing the game, and the files' last close             *)

ForgetMenuMusic ==
  /\ At("idle") /\ music.mode # "off"
  /\ music' = [NoCommand(music) EXCEPT !.mode = "off", !.stream = Nothing, !.active = FALSE]
  /\ queue' = [queue EXCEPT !.paused = TRUE] /\ allowed' = FALSE
  /\ UNCHANGED <<worker, catalogue, session, held, mounted, files, guest, closing>>

\* On the window's thread, under g_mutex.
CloseQueuedPool ==
  /\ ~closing /\ ~At("publish") /\ ~At("schedule")
  /\ closing' = TRUE /\ allowed' = FALSE
  /\ queue' = [queue EXCEPT !.stopped = TRUE]
  /\ UNCHANGED <<worker, catalogue, session, held, mounted, files, music, guest>>

Streaming == IF music.stream = Nothing THEN {} ELSE {music.stream[1]}
\* A file of a stream that was retired is closed by the engine, later.
FileCloses ==
  /\ \E p \in files :
       /\ p \notin Streaming
       /\ files' = files \ {p}
  /\ UNCHANGED <<queue, worker, catalogue, session, held, mounted, music, guest, allowed, closing>>

Polls == GuestBegins("poll")
WorkerStep == WorkerTakes \/ PreparesPackage \/ ReadsRecord \/ EndsBatch
GuestStep == Publishes \/ Schedules \/ MenuLoads \/ Navigates \/ Observes

Next ==
  \/ WorkerStep \/ WorkerStops
  \/ \E why \in {"poll", "ask", "loading"} : GuestBegins(why)
  \/ GuestStep
  \/ ForgetMenuMusic \/ CloseQueuedPool \/ FileCloses

Spec == Init /\ [][Next]_vars

\* The menu polls in every frame, the worker runs, files are closed in the end.
Fairness ==
  /\ WF_vars(Polls) /\ WF_vars(GuestStep) /\ WF_vars(WorkerStep) /\ WF_vars(FileCloses)
MusicSpec == Spec /\ Fairness

-----------------------------------------------------------------------------
(* Properties                                                               *)

\* The types, with the limits of the code: two requests outstanding, the window
\* behind the song and the mounted packages.
MusicTypeOK ==
  /\ queue.requests \in Seq(DOMAIN Count) /\ queue.ready \in Seq(Prepared \cup CatalogResult)
  /\ queue.outstanding \subseteq DOMAIN Count /\ Cardinality(queue.outstanding) <= 2
  /\ worker \in [job : DOMAIN Count \cup {Nothing}, read : 0..Batch]
  /\ catalogue.known \subseteq Packages /\ catalogue.opening \subseteq Packages
  /\ catalogue.probing \in Packages \cup {Nothing}
  /\ session.current \in Songs \cup {Nothing} /\ session.ahead \in Seq(Songs)
  /\ session.past \in Seq(Songs) /\ Len(session.past) <= Behind
  /\ held \in Prepared \cup {Nothing}
  /\ mounted \subseteq Packages /\ Cardinality(mounted) <= Resident
  /\ files \subseteq Packages
  /\ music.target \in Songs \cup {Nothing} /\ music.stream \in Songs \cup {Nothing}

\* A stream's package stays mounted: no eviction takes the file under the music.
StreamIsMounted == Streaming \subseteq mounted \cup {0}

\* The silence of a menu that waits for the library ends: as long as two of the
\* songs found so far can be played, one of them starts (or the menu is left).
Playable == {s \in SongsOf(session.discovered) : Usable(session, s)}
WaitsWithSongs ==
  music.mode = "waiting" /\ ~closing /\ Cardinality(Playable) >= 2
LibraryPlaysOn == WaitsWithSongs ~> ~WaitsWithSongs

-----------------------------------------------------------------------------
(* Claims of the comments and docs that the code does not keep             *)

\* menu_music_queue.h, on the worker: "All callbacks own their host-only snapshots."
\* The records of the catalogue are written by the worker in a catalogue job, outside
\* every lock, and by the guest when it publishes a probe: never both at once.
ProbeEnds == catalogue.probing # Nothing /\ catalogue'.probing = Nothing
CallbackOwnsCatalogue ==
  [][At("publish") /\ ProbeEnds /\ catalogue'.known # catalogue.known
       => worker.job # CatalogJob]_vars

\* docs/engine/main-menu.md, part 2: "the end is StandardStream state 6, and when it
\* arrives R9 retires the finished stream and loads + starts the next song".
EndIsFollowed == [][music.mode = "playing" /\ At("observe") => music'.mode # "off"]_vars
=============================================================================
