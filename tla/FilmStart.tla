------------------------------ MODULE FilmStart ------------------------------
(* A film put on the television: play_here, play_on_kodi, MediaStopHere,      *)
(* handoff_to_kodi, cec_source_lost and the sweep for stray sessions in       *)
(* mediaboxd-rs/src/daemon.rs, with the player's unit (player.rs), the        *)
(* followers and the supervisor (playback.rs) and the media worker's          *)
(* sessions.  Each request is a task on a multi-threaded runtime: every await *)
(* is a step of its own, and the tasks interleave.  Start n makes session n;  *)
(* the player's unit plays a session.                                         *)
EXTENDS Integers, FiniteSets

CONSTANTS MaxStarts,    \* bound on the starts of a run
          Kinds,        \* players a film is started on: "Here", "Kodi"
          Asides,       \* what else may be asked for, of Back, SourceLost, Handoff
          MaxAsides,    \* bound on how many of them are, each once
          MayFail,      \* whether the worker, the unit and Kodi may refuse
          None

ASSUME FilmStartAssumption ==
    /\ MaxStarts \in Nat /\ Kinds \subseteq {"Here", "Kodi"}
    /\ Asides \subseteq {0, -1, -2} /\ MaxAsides \in Nat /\ MayFail \in BOOLEAN
    /\ None \notin Int

VARIABLES
    begun, busy, calledOff, numbered, counted, underway, backs,    \* Starts
    next, film, posted, account, verdicts,                         \* Playback
    pnum,        \* PlayerManager.film: moved on every start and every stop
    playing,     \* PlayerManager.playing: its session, or None
    unit,        \* the session the player's unit reads, or None
    surface,     \* who has the display
    kodi,        \* the task that gave Kodi the film it plays, or None
    sessions,    \* the worker's sessions held for the television
    late,        \* sessions the worker may still make for nobody
    kind,        \* kind[n]: the player start n is for
    at,          \* where each task is
    held,        \* what stop_here took: the film, and the player's session
    listed,      \* the sessions a task is about to end
    followers,   \* follow_mpv tasks: the film, and the player's number for it
    sweep        \* sweep_stray_sessions: what it has read, or None

startVars  == <<begun, busy, calledOff, numbered, counted, underway, backs>>
playVars   == <<next, film, posted, account, verdicts>>
playerVars == <<pnum, playing, unit>>
shownVars  == <<surface, kodi>>
workerVars == <<sessions, late>>
taskVars   == <<kind, at, held, listed>>
restVars   == <<followers, sweep>>
vars == <<startVars, playVars, playerVars, shownVars, workerVars, taskVars, restVars>>

StartIds   == 1..MaxStarts
Back       == 0
SourceLost == -1                         \* the television shows another source
Handoff    == -2                         \* the film here is to go on in Kodi
Tasks      == StartIds \cup Asides

S == INSTANCE Starts
P == INSTANCE Playback WITH Sessions <- StartIds, MaxFilms <- MaxStarts + 1, MaxPosted <- MaxStarts

\* No film and no sweep is neither of them.
ASSUME NoneAssumption ==
    /\ None \notin P!Film
    /\ None \notin [kind : {"Here", "Kodi"}, phase : {"Waiting", "Asking", "Listed", "Ending"},
                     begun : Int, listed : SUBSET Int, last : BOOLEAN]

Go(t, place) == at' = [at EXCEPT ![t] = place]
Over(t)      == IF t \in StartIds THEN "Over" ELSE "Done"

----------------------------------------------------------------------------
(* A start begins: its number, its place in the count, the older called off.  *)

Choose(k) ==
    /\ S!TakeNumber
    /\ kind' = [kind EXCEPT ![begun + 1] = k]
    /\ Go(begun + 1, "Counting")
    /\ UNCHANGED <<playVars, playerVars, shownVars, workerVars, held, listed, restVars>>

CountIn(n) ==
    /\ at[n] = "Counting"
    /\ S!Count(n)
    /\ UNCHANGED <<playVars, playerVars, shownVars, workerVars, taskVars, restVars>>

\* A film here stops what plays here first; a film on Kodi does not.
CallOffOlder(n) ==
    /\ at[n] = "Counting"
    /\ S!CallOffOlder(n)
    /\ Go(n, IF kind[n] = "Here" THEN "Stopping" ELSE "Listing")
    /\ UNCHANGED <<playVars, playerVars, shownVars, workerVars, kind, held, listed, restVars>>

----------------------------------------------------------------------------
(* stop_here: the intent, the player, then the film's record.                 *)

FilmHere == IF film # None /\ film.player = "Here" THEN film.number ELSE None

StopIntent(t) ==
    CASE t \in {Back, SourceLost} -> "Stop" [] t = Handoff -> "Handover" [] OTHER -> "Replace"

PlayerLetsGo == playing' = None /\ pnum' = pnum + 1

StopTakes(t) ==
    /\ at[t] = "Stopping"
    /\ held' = [held EXCEPT ![t] = [film |-> FilmHere, session |-> playing]]
    /\ IF FilmHere = None THEN UNCHANGED playVars
       ELSE P!Intend(film.number, StopIntent(t))
    /\ PlayerLetsGo
    /\ Go(t, "StopUnit")
    /\ UNCHANGED <<startVars, unit, shownVars, workerVars, kind, listed, restVars>>

StopUnit(t) ==
    /\ at[t] = "StopUnit"
    /\ unit' = None
    /\ Go(t, "StopRecord")
    /\ UNCHANGED <<startVars, playVars, pnum, playing, shownVars, workerVars, kind, held, listed,
                   restVars>>

StopRecord(t) ==
    /\ at[t] = "StopRecord"
    /\ IF P!Playing(held[t].film) THEN P!Finish(held[t].film, "Gone") ELSE UNCHANGED playVars
    /\ sessions' = IF held[t].film = None THEN sessions \ {held[t].session} ELSE sessions
    /\ Go(t, CASE t = Back -> "Done" [] t = SourceLost -> "Stopped" [] t = Handoff -> "Switching"
                [] OTHER -> "Listing")
    /\ UNCHANGED <<startVars, playerVars, shownVars, late, kind, held, listed, restVars>>

\* stop_film_sessions: a listing, and then every session in it.
ListSessions(t) ==
    /\ at[t] \in {"Listing", "UiListing"}
    /\ listed' = [listed EXCEPT ![t] = sessions]
    /\ Go(t, IF at[t] = "Listing" THEN "Ending" ELSE "UiEnding")
    /\ UNCHANGED <<startVars, playVars, playerVars, shownVars, workerVars, kind, held, restVars>>

EndListed(t) ==
    /\ at[t] \in {"Ending", "UiEnding"}
    /\ sessions' = sessions \ listed[t]
    /\ Go(t, IF at[t] = "Ending" THEN "Opening" ELSE "UiPlayer")
    /\ UNCHANGED <<startVars, playVars, playerVars, shownVars, late, kind, held, listed, restVars>>

----------------------------------------------------------------------------
(* The worker opens the source; an answer may come after it was given up on,  *)
(* and what nobody was told of is for the sweep.                              *)

WorkerMakes(n)      == sessions' = sessions \cup {n} /\ late' = late \ {n}

WorkerOpens(n) ==
    /\ \/ at[n] \in {"Opening", "OpeningSwitched"} /\ n \notin sessions
       \/ n \in late
    /\ WorkerMakes(n)
    /\ at' = [at EXCEPT ![n] = CASE @ = "Opening" -> IF kind[n] = "Here" THEN "Opened" ELSE "KodiOpened"
                                 [] @ = "OpeningSwitched" -> "KodiResolved"
                                 [] OTHER -> @]
    /\ UNCHANGED <<startVars, playVars, playerVars, shownVars, kind, held, listed, restVars>>

StartSweep(k) ==
    sweep' = IF sweep = None THEN [kind |-> k, phase |-> "Waiting", begun |-> 0, listed |-> {},
                                   last |-> FALSE]
             ELSE sweep

GivesUp(n) ==
    /\ MayFail
    /\ at[n] \in {"Opening", "OpeningSwitched"}
    /\ sweep = None
    /\ kind[n] = "Here" => at[n] = "Opening"
    /\ kind[n] = "Kodi" => at[n] = "OpeningSwitched"
    /\ late' \in {late, late \cup {n}}
    /\ StartSweep(kind[n])
    /\ Go(n, IF kind[n] = "Here" THEN "Over" ELSE "BackToUi")
    /\ UNCHANGED <<startVars, playVars, playerVars, shownVars, sessions, kind, held, listed,
                   followers>>

----------------------------------------------------------------------------
(* A film here: the player is started, and the film begins.                   *)

Opened(n) ==
    /\ at[n] = "Opened"
    /\ Go(n, IF S!CalledOff(n) THEN "GiveBack" ELSE "Launching")
    /\ UNCHANGED <<startVars, playVars, playerVars, shownVars, workerVars, kind, held, listed,
                   restVars>>

\* PlayerManager::start stops what plays, and counts once more.
LaunchStops(n) ==
    /\ at[n] = "Launching"
    /\ PlayerLetsGo
    /\ Go(n, "LaunchStop")
    /\ UNCHANGED <<startVars, playVars, unit, shownVars, workerVars, kind, held, listed, restVars>>

LaunchStopped(n) ==
    /\ at[n] = "LaunchStop"
    /\ unit' = None
    /\ pnum' = pnum + 1
    /\ Go(n, "LaunchUnit")
    /\ UNCHANGED <<startVars, playVars, playing, shownVars, workerVars, kind, held, listed, restVars>>

\* systemd-run: one unit of the name, bound to the interface, which it brings
\* back if Kodi has the display.
LaunchUnit(n) ==
    /\ at[n] = "LaunchUnit"
    /\ \/ /\ unit = None
          /\ unit' = n /\ surface' = "Ui" /\ kodi' = None
          /\ Go(n, "Launched")
       \/ /\ unit # None \/ MayFail
          /\ UNCHANGED <<unit, shownVars>>
          /\ Go(n, "GiveBack")
    /\ UNCHANGED <<startVars, playVars, pnum, playing, workerVars, kind, held, listed, restVars>>

Launched(n) ==
    /\ at[n] = "Launched"
    /\ playing' = n
    /\ Go(n, "Check")
    /\ UNCHANGED <<startVars, playVars, pnum, unit, shownVars, workerVars, kind, held, listed,
                   restVars>>

\* No await between the last look at the start and the film's record.
Register(n) ==
    /\ P!Begin("Here", FALSE, FALSE, n, FALSE, "Short")
    /\ followers' = followers \cup {[film |-> next + 1, here |-> pnum, phase |-> "Following"]}
    /\ Go(n, "Over")

CheckNothing(n) ==                       \* mutant: Back while the player starts is not asked
    /\ at[n] = "Check"
    /\ Register(n)
    /\ UNCHANGED <<startVars, playerVars, shownVars, workerVars, kind, held, listed, sweep>>
Check(n) ==
    /\ at[n] = "Check"
    /\ IF S!CalledOff(n) THEN Go(n, "UndoTake") /\ UNCHANGED <<playVars, followers>>
       ELSE Register(n)
    /\ UNCHANGED <<startVars, playerVars, shownVars, workerVars, kind, held, listed, sweep>>

UndoTake(n) ==
    /\ at[n] \in {"UndoTake", "UiPlayer"}
    /\ IF at[n] = "UiPlayer" /\ playing = None
       THEN UNCHANGED playerVars /\ Go(n, Over(n))
       ELSE /\ PlayerLetsGo /\ UNCHANGED unit
            /\ Go(n, IF at[n] = "UndoTake" THEN "UndoUnit" ELSE "UiUnit")
    /\ UNCHANGED <<startVars, playVars, shownVars, workerVars, kind, held, listed, restVars>>

UndoUnit(n) ==
    /\ at[n] \in {"UndoUnit", "UiUnit"}
    /\ unit' = None
    /\ Go(n, IF at[n] = "UndoUnit" THEN "GiveBack" ELSE Over(n))
    /\ UNCHANGED <<startVars, playVars, pnum, playing, shownVars, workerVars, kind, held, listed,
                   restVars>>

GiveBackNothing(n) ==                    \* mutant: the session is left to its idle timeout
    /\ at[n] = "GiveBack"
    /\ Go(n, "Over")
    /\ UNCHANGED <<startVars, playVars, playerVars, shownVars, workerVars, kind, held, listed,
                   restVars>>
GiveBack(n) ==
    /\ at[n] = "GiveBack"
    /\ sessions' = sessions \ {n}
    /\ Go(n, "Over")
    /\ UNCHANGED <<startVars, playVars, playerVars, shownVars, late, kind, held, listed, restVars>>

EndStart(n) ==
    /\ at[n] = "Over"
    /\ S!EndStart(n)
    /\ Go(n, "Done")
    /\ UNCHANGED <<playVars, playerVars, shownVars, workerVars, kind, held, listed, restVars>>

----------------------------------------------------------------------------
(* A film on Kodi: the source is resolved while the display changes hands.    *)

\* The interface stops, and the player's unit is bound to it.
SwitchToKodi(n) ==
    /\ \/ n \in StartIds /\ kind[n] = "Kodi" /\ at[n] \in {"Opening", "KodiOpened"}
       \/ at[n] = "Switching"
    /\ surface' = "Kodi" /\ unit' = None
    /\ Go(n, CASE at[n] = "Opening" -> "OpeningSwitched" [] at[n] = "KodiOpened" -> "KodiResolved"
                [] OTHER -> "KodiOpens")
    /\ UNCHANGED <<startVars, playVars, pnum, playing, kodi, workerVars, kind, held, listed, restVars>>

\* A start gives its session back; what was handed over leaves nothing but Kodi.
KodiRefused(n) == IF n = Handoff THEN "BackToUi" ELSE "GiveBack"

SwitchFails(n) ==
    /\ MayFail
    /\ at[n] \in {"KodiOpened", "Switching"}
    /\ Go(n, KodiRefused(n))
    /\ UNCHANGED <<startVars, playVars, playerVars, shownVars, workerVars, kind, held, listed,
                   restVars>>

\* Kodi is given the source itself when the worker could resolve it, and the
\* session goes; otherwise it reads the session.
KodiResolved(n, resolved) ==
    /\ at[n] = "KodiResolved"
    /\ sessions' = IF resolved THEN sessions \ {n} ELSE sessions
    /\ held' = [held EXCEPT ![n] = [film |-> None, session |-> IF resolved THEN None ELSE n]]
    /\ Go(n, "KodiOpens")
    /\ UNCHANGED <<startVars, playVars, playerVars, shownVars, late, kind, listed, restVars>>

KodiOpens(n) ==
    /\ at[n] = "KodiOpens"
    /\ \/ surface = "Kodi" /\ kodi' = n /\ Go(n, "KodiRegister")
       \/ (surface # "Kodi" \/ MayFail) /\ UNCHANGED kodi /\ Go(n, KodiRefused(n))
    /\ UNCHANGED <<startVars, playVars, playerVars, surface, workerVars, kind, held, listed, restVars>>

KodiRegister(n) ==
    /\ at[n] = "KodiRegister"
    /\ P!Begin("Kodi", FALSE, FALSE, IF n = Handoff THEN None ELSE held[n].session, FALSE, "Short")
    /\ Go(n, Over(n))
    /\ UNCHANGED <<startVars, playerVars, shownVars, workerVars, kind, held, listed, restVars>>

\* Nothing to play: the interface gets the display back, and with it ends
\* every session and whatever plays here (switch_surface).
BackToUi(n) ==
    /\ at[n] = "BackToUi"
    /\ surface' = "Ui" /\ kodi' = None
    /\ Go(n, IF surface = "Kodi" THEN "UiListing" ELSE Over(n))
    /\ UNCHANGED <<startVars, playVars, playerVars, workerVars, kind, held, listed, restVars>>

\* Kodi's film is over: by itself, or with Kodi, or Kodi was given another.
KodiFollows ==
    /\ film # None /\ film.player = "Kodi"
    /\ IF kodi # None /\ at[kodi] # "KodiRegister"
       THEN kodi' = None /\ P!Finish(film.number, "EndOfFile")
       ELSE UNCHANGED kodi /\ P!Finish(film.number, "Quit")
    /\ UNCHANGED <<startVars, playerVars, surface, workerVars, taskVars, restVars>>

----------------------------------------------------------------------------
(* Back (MediaStopHere), the television's other source (cec_source_lost), and  *)
(* a film handed to Kodi (handoff_to_kodi), once each.                        *)

Asked(a) ==
    /\ a \in Asides /\ at[a] = "Idle"
    /\ Cardinality({b \in Asides : at[b] # "Idle"}) < MaxAsides

PressBack ==
    /\ Asked(Back)
    /\ S!ReadBegun
    /\ Go(Back, "CallingOff")
    /\ UNCHANGED <<playVars, playerVars, shownVars, workerVars, kind, held, listed, restVars>>

BackCallsOff ==
    /\ Back \in Asides
    /\ at[Back] = "CallingOff"
    /\ \E n \in backs : S!CallOffRead(n)
    /\ Go(Back, "Stopping")
    /\ UNCHANGED <<playVars, playerVars, shownVars, workerVars, kind, held, listed, restVars>>

\* No start is called off.
LoseSource ==
    /\ Asked(SourceLost)
    /\ Go(SourceLost, IF playing # None THEN "Stopping" ELSE "Stopped")
    /\ UNCHANGED <<startVars, playVars, playerVars, shownVars, workerVars, kind, held, listed, restVars>>

StandBy ==
    /\ SourceLost \in Asides
    /\ at[SourceLost] = "Stopped"
    /\ Go(SourceLost, IF surface = "Kodi" THEN "KodiStops" ELSE "Done")
    /\ UNCHANGED <<startVars, playVars, playerVars, shownVars, workerVars, kind, held, listed, restVars>>

KodiStops ==
    /\ SourceLost \in Asides
    /\ at[SourceLost] = "KodiStops"
    /\ kodi' = None
    /\ Go(SourceLost, "BackToUi")
    /\ UNCHANGED <<startVars, playVars, playerVars, surface, workerVars, kind, held, listed, restVars>>

\* The player is asked for its film here, and for its place before it is stopped.
HandOff ==
    /\ Asked(Handoff) /\ playing # None
    /\ Go(Handoff, "Stopping")
    /\ UNCHANGED <<startVars, playVars, playerVars, shownVars, workerVars, kind, held, listed, restVars>>

----------------------------------------------------------------------------
(* follow_mpv: the film's player stops, and its word ends the film.  A player *)
(* that was stopped may still say so, or its socket just closes.              *)

SessionOf(number) == IF P!Playing(number) THEN film.session ELSE None

FollowerHears(f) ==
    /\ f.phase = "Following"
    /\ LET playsIt == unit # None /\ unit = SessionOf(f.film)
       IN  IF P!Playing(f.film)
           THEN /\ \E signal \in IF playsIt THEN {"EndOfFile"} ELSE {"Quit", "Gone"} :
                        P!Finish(f.film, signal)
                /\ followers' = IF pnum = f.here
                                THEN (followers \ {f}) \cup {[f EXCEPT !.phase = "Stopping"]}
                                ELSE followers \ {f}
           ELSE followers' = followers \ {f} /\ UNCHANGED playVars
    /\ UNCHANGED <<startVars, playerVars, shownVars, workerVars, taskVars, sweep>>

FollowerTakes(f) ==
    /\ f.phase = "Stopping"
    /\ PlayerLetsGo
    /\ followers' = (followers \ {f}) \cup {[f EXCEPT !.phase = "StopUnit"]}
    /\ UNCHANGED <<startVars, playVars, unit, shownVars, workerVars, taskVars, sweep>>

FollowerStops(f) ==
    /\ f.phase = "StopUnit"
    /\ unit' = None
    /\ followers' = followers \ {f}
    /\ UNCHANGED <<startVars, playVars, pnum, playing, shownVars, workerVars, taskVars, sweep>>

\* The session of a film that is over is let go by a task of its own.
ReleaseSession ==
    /\ \E effect \in posted :
        /\ P!CarryOut(effect)
        /\ sessions' = sessions \ {effect.session}
    /\ UNCHANGED <<startVars, playerVars, shownVars, late, taskVars, restVars>>

----------------------------------------------------------------------------
(* sweep_stray_sessions: a look is only had between two readings of the       *)
(* starts that agree, with none under way.                                    *)

SweepReads ==
    /\ sweep # None /\ sweep.phase = "Waiting"
    /\ sweep' = IF busy = 0 THEN [sweep EXCEPT !.phase = "Asking", !.begun = begun] ELSE sweep
    /\ UNCHANGED <<startVars, playVars, playerVars, shownVars, workerVars, taskVars, followers>>

SweepLists ==
    /\ sweep # None /\ sweep.phase = "Asking"
    /\ sweep' = [sweep EXCEPT !.phase = "Listed",
                              !.listed = {n \in sessions : kind[n] = sweep.kind},
                              !.last = late = {}]
    /\ UNCHANGED <<startVars, playVars, playerVars, shownVars, workerVars, taskVars, followers>>

Kept == IF film # None /\ film.player = sweep.kind THEN {film.session} ELSE {}

SweepDecidesAtOnce ==                    \* mutant: the starts are not read again
    /\ sweep # None /\ sweep.phase = "Listed"
    /\ sweep' = [sweep EXCEPT !.phase = "Ending", !.listed = sweep.listed \ Kept]
    /\ UNCHANGED <<startVars, playVars, playerVars, shownVars, workerVars, taskVars, followers>>
SweepDecides ==
    /\ sweep # None /\ sweep.phase = "Listed"
    /\ sweep' = IF busy = 0 /\ begun = sweep.begun
                THEN [sweep EXCEPT !.phase = "Ending", !.listed = sweep.listed \ Kept]
                ELSE [sweep EXCEPT !.phase = "Waiting", !.listed = {}]
    /\ UNCHANGED <<startVars, playVars, playerVars, shownVars, workerVars, taskVars, followers>>

\* The sweep looks again for four times the worker's timeout, so a session that
\* is made late is in the listing of its last look.
SweepEnds ==
    /\ sweep # None /\ sweep.phase = "Ending"
    /\ sessions' = sessions \ sweep.listed
    /\ \/ sweep.last /\ sweep' = None
       \/ sweep' = [sweep EXCEPT !.phase = "Waiting", !.listed = {}]
    /\ UNCHANGED <<startVars, playVars, playerVars, shownVars, late, taskVars, followers>>

----------------------------------------------------------------------------
FilmStartInit ==
    /\ S!StartsInit /\ P!PlayInit
    /\ pnum = 0 /\ playing = None /\ unit = None
    /\ surface = "Ui" /\ kodi = None
    /\ sessions = {} /\ late = {}
    /\ kind = [n \in StartIds |-> "Here"]
    /\ at = [t \in Tasks |-> "Idle"]
    /\ held = [t \in Tasks |-> [film |-> None, session |-> None]]
    /\ listed = [t \in Tasks |-> {}]
    /\ followers = {} /\ sweep = None

StartStep(n) ==
    \/ CountIn(n) \/ CallOffOlder(n)
    \/ WorkerOpens(n) \/ GivesUp(n)
    \/ Opened(n) \/ LaunchStops(n) \/ LaunchStopped(n) \/ LaunchUnit(n) \/ Launched(n)
    \/ Check(n) \/ GiveBack(n) \/ EndStart(n)
    \/ \E resolved \in BOOLEAN : KodiResolved(n, resolved)

StopStep(t) ==
    StopTakes(t) \/ StopUnit(t) \/ StopRecord(t) \/ ListSessions(t) \/ EndListed(t)

SwitchStep(t) ==
    \/ SwitchToKodi(t) \/ SwitchFails(t) \/ KodiOpens(t) \/ KodiRegister(t)
    \/ BackToUi(t) \/ UndoTake(t) \/ UndoUnit(t)

FollowStep == \E f \in followers : FollowerHears(f) \/ FollowerTakes(f) \/ FollowerStops(f)
SweepStep  == SweepReads \/ SweepLists \/ SweepDecides \/ SweepEnds

FilmStartNext ==
    \/ \E k \in Kinds : Choose(k)
    \/ \E n \in StartIds : StartStep(n)
    \/ \E t \in Tasks : StopStep(t) \/ SwitchStep(t)
    \/ PressBack \/ BackCallsOff \/ LoseSource \/ StandBy \/ KodiStops \/ HandOff
    \/ FollowStep \/ ReleaseSession \/ KodiFollows
    \/ SweepStep

FilmStartSpec == FilmStartInit /\ [][FilmStartNext]_vars

----------------------------------------------------------------------------
(* Properties.                                                                *)

\* Nothing is under way: every request is answered, every task has run.
Quiet ==
    /\ \A t \in Tasks : at[t] \in {"Idle", "Done"}
    /\ posted = {} /\ sweep = None
    /\ \A f \in followers : f.phase = "Following"

\* Once nothing is under way, every session the worker holds for the
\* television is the one of the film playing: whatever failed, was called off
\* or answered late (play_here, stop_here, sweep_stray_sessions).
NoStraySession ==
    Quiet => sessions \subseteq (IF film = None THEN {} ELSE {film.session}) 

\* Back has the last word over a film still opening: once nothing is under way
\* and every start is called off, no player is left playing (play_here).
BackHasTheLastWord == Quiet /\ calledOff = begun => unit = None

\* The sweep never ends the session of the film playing, nor one that a start
\* under way has opened (sweep_stray_sessions).
SweepSparesTheFilm ==
    sweep # None /\ sweep.phase = "Ending" =>
        \A n \in sweep.listed : at[n] = "Done" /\ (film = None \/ film.session # n)

\* While films are put on here only and none is handed to Kodi, what plays is
\* what the newest start put on, and it is on the record: a start called off
\* while its player comes up takes it back (play_here, begin_start), and one
\* stopped because the television left is on record no more (cec_source_lost).
OnlyHere ==
    /\ \A n \in 1..begun : kind[n] = "Here"
    /\ Handoff \in Asides => at[Handoff] = "Idle"
PlaysTheNewest ==
    Quiet /\ unit # None /\ OnlyHere =>
        ~S!CalledOff(unit) /\ film # None /\ film.session = unit

\* playback.rs:355, begin_start: a start still under way is called off by the
\* next: "the newest choice is the one that plays".
NewestChoicePlays == Quiet /\ kodi # None => ~S!CalledOff(kodi)

=============================================================================
