------------------------------ MODULE Playback ------------------------------
(* How a film ends, decided once: the supervisor of                           *)
(* mediaboxd-rs/src/playback.rs.  Every method takes the record's lock once,  *)
(* so it is one action; what it wants done outside is `posted` and carried    *)
(* out by tasks of their own, in any order (main.rs).  Positions are kept as  *)
(* what the verdict tells apart: short of the end, within the margin of a     *)
(* catalogue's runtime, within the margin of the file's own length.           *)
EXTENDS Naturals, FiniteSets

CONSTANTS Sessions,     \* the media worker's sessions
          MaxFilms,     \* bound on the films of a run
          MaxPosted,    \* bound on the effects under way when a position is told
          None          \* no film, no session, no intent, no verdict

Players  == {"Here", "Kodi"}
Intents  == {"Stop", "Replace", "Handover"}
Outcomes == {"Stopped", "Ended", "Failed"}
Places   == {"Short", "NearEnd", "AtEnd"}
SourceEnds == {"Natural", "Broken"}
\* EndOfFile: eof-reached, or end-file "eof", or Kodi's OnStop with data.end.
\* Quit: end-file for any other reason but an error, Kodi's OnStop without
\* data.end, or Kodi closed.
Signals  == {"EndOfFile", "Error", "Quit", "Gone"}

Film == [number : Nat, player : Players, live : BOOLEAN, watch : BOOLEAN,
         session : Sessions \cup {None}, sourceEnd : SourceEnds \cup {None},
         given : BOOLEAN, measured : BOOLEAN, position : Places,
         intent : Intents \cup {None}, told : BOOLEAN, jumped : BOOLEAN]

Verdicts == [outcome : Outcomes, intent : Intents \cup {None}]

ASSUME PlaybackAssumption ==
    /\ MaxFilms \in Nat /\ MaxPosted \in Nat
    /\ None \notin Sessions \cup Intents /\ None \notin Verdicts

Account(number, closed, position) ==
    [type |-> "Account", film |-> number, closed |-> closed, position |-> position]
Release(session) == [type |-> "Release", session |-> session]

AccountEffects == [type : {"Account"}, film : Nat, closed : BOOLEAN, position : Places]
Effects == AccountEffects \cup [type : {"Release"}, session : Sessions]

VARIABLES
    next,        \* films begun
    film,        \* the film playing, or None
    posted,      \* effects on their way
    account,     \* the last word the account took on each film
    verdicts     \* how each film ended (the last one is Supervisor's `finished`)

playVars == <<next, film, posted, account, verdicts>>

Numbers == 1..MaxFilms

----------------------------------------------------------------------------
(* The verdict.                                                               *)

HasLength(f) == f.given \/ f.measured

\* A film without a length is at its end when its player says so.
ReachedTheEnd(f) ==
    ~HasLength(f) \/ f.position \in (IF f.measured THEN {"AtEnd"} ELSE {"NearEnd", "AtEnd"})

FilmVerdict(f, signal) ==
    CASE f.intent # None                              -> "Stopped"
      [] f.intent = None /\ signal = "EndOfFile"      -> IF ReachedTheEnd(f) THEN "Ended" ELSE "Failed"
      [] f.intent = None /\ signal \in {"Error", "Gone"} -> "Failed"
      [] OTHER                                        -> "Stopped"

\* Live television has no length: its source says what its end means.
LiveVerdictSourceFirst(f, signal) ==     \* mutant: the source's word before the viewer's
    CASE f.sourceEnd = "Natural" -> "Ended"
      [] f.sourceEnd = "Broken"  -> "Failed"
      [] OTHER                   -> IF f.intent # None \/ signal = "Quit" THEN "Stopped" ELSE "Failed"
LiveVerdict(f, signal) ==
    CASE f.intent # None                             -> "Stopped"
      [] f.intent = None /\ f.sourceEnd = "Natural"  -> "Ended"
      [] f.intent = None /\ f.sourceEnd = "Broken"   -> "Failed"
      [] OTHER                                       -> IF signal = "Quit" THEN "Stopped" ELSE "Failed"

Verdict(f, signal) == IF f.live THEN LiveVerdict(f, signal) ELSE FilmVerdict(f, signal)

\* Stopped or ended is closed for the account; a handover and a failure are not.
ClosesStopped(f, outcome) == outcome # "Failed"     \* mutant: a handover closes it too
Closes(f, outcome) ==
    \/ outcome = "Ended"
    \/ outcome = "Stopped" /\ f.intent # "Handover"

Change(f, closed) ==
    IF f.watch /\ HasLength(f) THEN {Account(f.number, closed, f.position)} ELSE {}

CloseEffects(f, signal) ==
    Change(f, Closes(f, Verdict(f, signal)))
    \cup (IF f.session = None THEN {} ELSE {Release(f.session)})

\* The film is over, and this is how.
Close(f, signal) ==
    verdicts' = [verdicts EXCEPT ![f.number] =
                    [outcome |-> Verdict(f, signal), intent |-> f.intent]]

----------------------------------------------------------------------------
(* The supervisor's methods.                                                  *)

Begun(number, player, live, watch, session, given, position) ==
    [number |-> number, player |-> player, live |-> live, watch |-> watch, session |-> session,
     sourceEnd |-> None, given |-> given, measured |-> FALSE, position |-> position,
     intent |-> None, told |-> FALSE, jumped |-> FALSE]

Replaced(f) == IF f.intent = None THEN [f EXCEPT !.intent = "Replace"] ELSE f

\* A film has started; whatever was playing is over.
Begin(player, live, watch, session, given, position) ==
    /\ next < MaxFilms
    /\ live => player = "Here" /\ ~watch /\ session = None /\ ~given
    /\ next' = next + 1
    /\ film' = Begun(next + 1, player, live, watch, session, given, position)
    /\ IF film = None THEN UNCHANGED <<posted, verdicts>>
       ELSE /\ Close(Replaced(film), "Gone")
            /\ posted' = posted \cup CloseEffects(Replaced(film), "Gone")
    /\ UNCHANGED account

Playing(number) == film # None /\ film.number = number

Intend(number, intent) ==
    /\ Playing(number)
    /\ film' = [film EXCEPT !.intent = intent]
    /\ UNCHANGED <<next, posted, account, verdicts>>

SourceEnded(number, end) ==
    /\ Playing(number) /\ film.live
    /\ film' = IF film.sourceEnd = None THEN [film EXCEPT !.sourceEnd = end] ELSE film
    /\ UNCHANGED <<next, posted, account, verdicts>>

\* Where the film has got to; the account is told the first time, after a jump
\* and every ninety seconds (`due`).
Observed(position, duration, jump) ==
    [film EXCEPT !.position = position,
                 !.measured = film.measured \/ duration,
                 !.jumped = film.jumped \/ jump]
Observe(number, position, duration, jump, due) ==
    /\ Playing(number)
    /\ jump => film.told
    /\ LET f == Observed(position, duration, jump)
           change == IF f.jumped \/ ~f.told \/ due THEN Change(f, FALSE) ELSE {}
       IN  /\ change # {} => Cardinality(posted) < MaxPosted
           /\ film' = IF change = {} THEN f ELSE [f EXCEPT !.told = TRUE, !.jumped = FALSE]
           /\ posted' = posted \cup change
    /\ UNCHANGED <<next, account, verdicts>>

FinishLeavesFilm(number, signal) ==      \* mutant: looked at, not taken
    /\ Playing(number)
    /\ Close(film, signal)
    /\ posted' = posted \cup CloseEffects(film, signal)
    /\ UNCHANGED <<next, film, account>>
Finish(number, signal) ==
    /\ Playing(number)
    /\ film' = None
    /\ Close(film, signal)
    /\ posted' = posted \cup CloseEffects(film, signal)
    /\ UNCHANGED <<next, account>>

\* An effect is carried out, whenever its task gets to it.
CarryOut(effect) ==
    /\ effect \in posted
    /\ posted' = posted \ {effect}
    /\ account' = IF effect.type # "Account" THEN account
                  ELSE [account EXCEPT ![effect.film] =
                            [closed |-> effect.closed, position |-> effect.position]]
    /\ UNCHANGED <<next, film, verdicts>>

----------------------------------------------------------------------------
PlayInit ==
    /\ next = 0 /\ film = None /\ posted = {}
    /\ account = [n \in Numbers |-> None]
    /\ verdicts = [n \in Numbers |-> None]

PlayNext ==
    \/ \E player \in Players, live, watch, given \in BOOLEAN, session \in Sessions \cup {None} :
            Begin(player, live, watch, session, given, "Short")
    \/ \E n \in Numbers, intent \in Intents : Intend(n, intent)
    \/ \E n \in Numbers, end \in SourceEnds : SourceEnded(n, end)
    \/ \E n \in Numbers, position \in Places, duration, jump, due \in BOOLEAN :
            Observe(n, position, duration, jump, due)
    \/ \E n \in Numbers, signal \in Signals : Finish(n, signal)
    \/ \E effect \in posted : CarryOut(effect)

PlaySpec == PlayInit /\ [][PlayNext]_playVars

----------------------------------------------------------------------------
(* Properties.                                                                *)

\* The record, its effects and its verdicts are what the code could hold.
PlayTypeOK ==
    /\ next \in 0..MaxFilms
    /\ film \in Film \cup {None}
    /\ film # None => film.number = next
    /\ posted \subseteq Effects
    /\ account \in [Numbers -> [closed : BOOLEAN, position : Places] \cup {None}]
    /\ verdicts \in [Numbers -> Verdicts \cup {None}]

\* The account is never told a film was closed that is still playing, failed,
\* or went on in Kodi, whatever order its end, its replacement and the tasks
\* that write the account come in (close, begin, finish).
SaysClosed(n) == \/ account[n] # None /\ account[n].closed
                 \/ \E e \in posted : e.type = "Account" /\ e.film = n /\ e.closed
ClosedMeansDone ==
    \A n \in Numbers : SaysClosed(n) =>
        /\ verdicts[n] # None
        /\ verdicts[n].outcome # "Failed"
        /\ verdicts[n].intent # "Handover"

\* A film that was asked to go is reported stopped, whatever its player or its
\* source says on the way out (verdict, live_verdict).
AskedIsStopped ==
    \A n \in Numbers : verdicts[n] # None /\ verdicts[n].intent # None
                       => verdicts[n].outcome = "Stopped"

\* A second word about a film changes nothing (finish).
DecidedOnce ==
    [][ \A n \in Numbers : verdicts[n] # None => verdicts'[n] = verdicts[n] ]_playVars
=============================================================================
