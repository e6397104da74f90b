--------------------------- MODULE PlaybackProofs ---------------------------
(* What holds of the supervisor for every number of films and sessions.       *)
(* ClosedMeansDone and DecidedOnce are not inductive: they need to know that  *)
(* a film still playing, or still to come, has no verdict yet (Undecided).    *)
EXTENDS Playback, TLAPS

PlayingIsNumbered == film # None => film.number \in Numbers

Undecided ==
    \A n \in Numbers : n > next \/ (film # None /\ n = next) => verdicts[n] = None

PlayInv ==
    /\ PlayTypeOK
    /\ PlayingIsNumbered
    /\ Undecided
    /\ AskedIsStopped
    /\ ClosedMeansDone

\* A verdict is one of the three outcomes (verdict, live_verdict).
LEMMA VerdictIsAnOutcome ==
    ASSUME NEW f \in Film, NEW signal
    PROVE  Verdict(f, signal) \in Outcomes
  BY DEF Verdict, FilmVerdict, LiveVerdict, Outcomes, Film

\* An intent is all a verdict needs (verdict, live_verdict).
LEMMA IntentDecides ==
    ASSUME NEW f \in Film, NEW signal, f.intent # None
    PROVE  Verdict(f, signal) = "Stopped"
  BY DEF Verdict, FilmVerdict, LiveVerdict, Film

\* What closes a film for the account is no failure and no handover (close).
LEMMA ClosingIsDone ==
    ASSUME NEW f \in Film, NEW signal, Closes(f, Verdict(f, signal))
    PROVE  Verdict(f, signal) # "Failed" /\ f.intent # "Handover"
<1>1. CASE Verdict(f, signal) = "Ended"
  <2>1. f.intent = None
    BY <1>1, IntentDecides
  <2>2. None # "Handover"
    BY PlaybackAssumption DEF Intents
  <2> QED BY <1>1, <2>1, <2>2
<1>2. CASE Verdict(f, signal) = "Stopped" /\ f.intent # "Handover"
  BY <1>2
<1> QED BY <1>1, <1>2 DEF Closes

\* What closing a film asks for are effects, and what it tells the account is
\* of that film (close, Film::change).
LEMMA CloseEffectsAreEffects ==
    ASSUME NEW f \in Film, NEW signal
    PROVE  CloseEffects(f, signal) \subseteq Effects
<1>1. Closes(f, Verdict(f, signal)) \in BOOLEAN
  BY DEF Closes
<1>2. Change(f, Closes(f, Verdict(f, signal))) \subseteq AccountEffects
  BY <1>1 DEF Change, Account, AccountEffects, Film
<1>3. f.session # None => Release(f.session) \in [type : {"Release"}, session : Sessions]
  BY DEF Film, Release
<1> QED BY <1>2, <1>3 DEF CloseEffects, Effects

LEMMA CloseTellsOfItself ==
    ASSUME NEW f \in Film, NEW signal, NEW e \in CloseEffects(f, signal),
           e.type = "Account", e.closed
    PROVE  e.film = f.number /\ Closes(f, Verdict(f, signal))
<1>1. CASE e \in Change(f, Closes(f, Verdict(f, signal)))
  BY <1>1 DEF Change, Account
<1>2. CASE f.session # None /\ e = Release(f.session)
  BY <1>2 DEF Release
<1> QED BY <1>1, <1>2 DEF CloseEffects

\* A film replaced is a film, with an intent (begin).
LEMMA ReplacedIsAFilm ==
    ASSUME NEW f \in Film
    PROVE  Replaced(f) \in Film /\ Replaced(f).number = f.number
  BY DEF Replaced, Film, Intents

\* Closing the film playing decides it, and says nothing of any other.
LEMMA Closing ==
    ASSUME PlayInv, film # None,
           NEW f \in Film, f.number = film.number, NEW signal,
           Close(f, signal), posted' = posted \cup CloseEffects(f, signal),
           UNCHANGED account
    PROVE  /\ verdicts' \in [Numbers -> Verdicts \cup {None}]
           /\ posted' \subseteq Effects
           /\ \A n \in Numbers : n # film.number => verdicts'[n] = verdicts[n]
           /\ AskedIsStopped' /\ ClosedMeansDone'
<1> DEFINE v == [outcome |-> Verdict(f, signal), intent |-> f.intent]
<1>1. v \in Verdicts
  BY VerdictIsAnOutcome DEF Verdicts, Film
<1>2. /\ film.number \in Numbers
      /\ verdicts \in [Numbers -> Verdicts \cup {None}]
      /\ posted \subseteq Effects
  BY DEF PlayInv, PlayTypeOK, PlayingIsNumbered
<1>3. verdicts' = [verdicts EXCEPT ![film.number] = v]
  BY DEF Close
<1>4. verdicts' \in [Numbers -> Verdicts \cup {None}]
  BY <1>1, <1>2, <1>3
<1>5. verdicts'[film.number] = v /\ v # None
  BY <1>1, <1>2, <1>3, PlaybackAssumption
<1>6. \A n \in Numbers : n # film.number => verdicts'[n] = verdicts[n]
  BY <1>2, <1>3
<1>7. posted' \subseteq Effects
  BY <1>2, CloseEffectsAreEffects
<1>8. AskedIsStopped'
  <2> SUFFICES ASSUME NEW n \in Numbers, verdicts'[n] # None, verdicts'[n].intent # None
               PROVE  verdicts'[n].outcome = "Stopped"
    BY DEF AskedIsStopped
  <2>1. CASE n = film.number
    BY <2>1, <1>5, IntentDecides
  <2>2. CASE n # film.number
    BY <2>2, <1>6 DEF PlayInv, AskedIsStopped
  <2> QED BY <2>1, <2>2
<1>9. ClosedMeansDone'
  <2> SUFFICES ASSUME NEW n \in Numbers, SaysClosed(n)'
               PROVE  verdicts'[n] # None /\ verdicts'[n].outcome # "Failed"
                      /\ verdicts'[n].intent # "Handover"
    BY DEF ClosedMeansDone
  <2>1. CASE SaysClosed(n)
    <3>1. verdicts[n] # None
      BY <2>1 DEF PlayInv, ClosedMeansDone
    <3>2. verdicts[film.number] = None
      BY <1>2 DEF PlayInv, Undecided, PlayTypeOK
    <3>3. verdicts'[n] = verdicts[n]
      BY <3>1, <3>2, <1>6
    <3> QED BY <2>1, <3>3 DEF PlayInv, ClosedMeansDone
  <2>2. CASE ~SaysClosed(n)
    <3>1. PICK e \in CloseEffects(f, signal) : e.type = "Account" /\ e.film = n /\ e.closed
      BY <2>2 DEF SaysClosed
    <3>2. n = f.number /\ Closes(f, Verdict(f, signal))
      BY <3>1, CloseTellsOfItself
    <3> QED BY <3>2, <1>5, ClosingIsDone
  <2> QED BY <2>1, <2>2
<1> QED BY <1>4, <1>6, <1>7, <1>8, <1>9

----------------------------------------------------------------------------
LEMMA InitInv == PlayInit => PlayInv
  BY PlaybackAssumption
     DEF PlayInit, PlayInv, PlayTypeOK, PlayingIsNumbered, Undecided, AskedIsStopped,
         ClosedMeansDone, SaysClosed, Numbers

LEMMA BeginInv ==
    ASSUME PlayInv, NEW player \in Players, NEW live \in BOOLEAN, NEW watch \in BOOLEAN,
           NEW session \in Sessions \cup {None}, NEW given \in BOOLEAN,
           Begin(player, live, watch, session, given, "Short")
    PROVE  PlayInv'
<1>1. /\ next \in 0..MaxFilms /\ next' \in 0..MaxFilms /\ next' = next + 1
      /\ next' \in Numbers /\ MaxFilms \in Nat
  BY PlaybackAssumption DEF Begin, PlayInv, PlayTypeOK, Numbers
<1>2. film' \in Film /\ film'.number = next'
  BY <1>1 DEF Begin, Begun, Film, Places, Intents, SourceEnds
<1>3. /\ account' \in [Numbers -> [closed : BOOLEAN, position : Places] \cup {None}]
      /\ UNCHANGED account
  BY DEF Begin, PlayInv, PlayTypeOK
<1>4. /\ verdicts' \in [Numbers -> Verdicts \cup {None}]
      /\ posted' \subseteq Effects
      /\ \A n \in Numbers : n > next => verdicts'[n] = verdicts[n]
      /\ AskedIsStopped' /\ ClosedMeansDone'
  <2>1. CASE film = None
    BY <2>1, <1>3 DEF Begin, PlayInv, PlayTypeOK, AskedIsStopped, ClosedMeansDone, SaysClosed
  <2>2. CASE film # None
    <3>1. film \in Film /\ film.number = next
      BY <2>2 DEF PlayInv, PlayTypeOK
    <3>2. Replaced(film) \in Film /\ Replaced(film).number = film.number
      BY <3>1, ReplacedIsAFilm
    <3>3. /\ Close(Replaced(film), "Gone")
          /\ posted' = posted \cup CloseEffects(Replaced(film), "Gone")
      BY <2>2 DEF Begin
    <3>4. \A n \in Numbers : n > next => n # film.number
      BY <1>1, <3>1 DEF Numbers
    <3> HIDE DEF Numbers
    <3> QED BY <2>2, <3>2, <3>3, <3>4, <1>3, Closing
  <2> QED BY <2>1, <2>2
<1>5. Undecided'
  BY <1>1, <1>2, <1>4 DEF PlayInv, Undecided, Numbers
<1> QED BY <1>1, <1>2, <1>3, <1>4, <1>5 DEF PlayInv, PlayTypeOK, PlayingIsNumbered

LEMMA IntendInv ==
    ASSUME PlayInv, NEW n \in Numbers, NEW intent \in Intents, Intend(n, intent)
    PROVE  PlayInv'
<1>1. film \in Film /\ film' \in Film /\ film'.number = film.number
  BY DEF PlayInv, PlayTypeOK, Intend, Playing, Film
<1>2. UNCHANGED <<next, posted, account, verdicts>> /\ film # None
  BY DEF Intend, Playing
<1> QED BY <1>1, <1>2 DEF PlayInv, PlayTypeOK, PlayingIsNumbered, Undecided, AskedIsStopped,
                          ClosedMeansDone, SaysClosed

LEMMA SourceEndedInv ==
    ASSUME PlayInv, NEW n \in Numbers, NEW end \in SourceEnds, SourceEnded(n, end)
    PROVE  PlayInv'
<1>1. film \in Film /\ film' \in Film /\ film'.number = film.number
  BY DEF PlayInv, PlayTypeOK, SourceEnded, Playing, Film
<1>2. UNCHANGED <<next, posted, account, verdicts>> /\ film # None
  BY DEF SourceEnded, Playing
<1> QED BY <1>1, <1>2 DEF PlayInv, PlayTypeOK, PlayingIsNumbered, Undecided, AskedIsStopped,
                          ClosedMeansDone, SaysClosed

LEMMA ObserveInv ==
    ASSUME PlayInv, NEW n \in Numbers, NEW position \in Places, NEW duration \in BOOLEAN,
           NEW jump \in BOOLEAN, NEW due \in BOOLEAN,
           Observe(n, position, duration, jump, due)
    PROVE  PlayInv'
<1> DEFINE f == Observed(position, duration, jump)
<1> DEFINE change == IF f.jumped \/ ~f.told \/ due THEN Change(f, FALSE) ELSE {}
<1>1. film \in Film /\ film # None
  BY DEF PlayInv, PlayTypeOK, Observe, Playing
<1>2. f \in Film /\ f.number = film.number
  BY <1>1 DEF Observed, Film
<1>3. film' = (IF change = {} THEN f ELSE [f EXCEPT !.told = TRUE, !.jumped = FALSE])
  BY DEF Observe
<1>4. film' \in Film /\ film'.number = film.number
  <2> HIDE DEF f, change
  <2> QED BY <1>2, <1>3 DEF Film
<1>5. posted' = posted \cup change /\ UNCHANGED <<next, account, verdicts>>
  BY DEF Observe
<1>6. change \subseteq AccountEffects /\ \A e \in change : ~e.closed
  <2> DEFINE told == Account(f.number, FALSE, f.position)
  <2>1. change \subseteq {told}
    BY Zenon DEF Change
  <2>2. told \in AccountEffects /\ told.closed = FALSE
    <3> HIDE DEF f
    <3> QED BY <1>2 DEF Account, AccountEffects, Film
  <2> HIDE DEF told, change
  <2> QED BY <2>1, <2>2
<1>7. posted' \subseteq Effects
  BY <1>5, <1>6 DEF Effects, PlayInv, PlayTypeOK
<1>8. \A m \in Numbers : SaysClosed(m)' => SaysClosed(m)
  <2> HIDE DEF change
  <2> QED BY <1>5, <1>6 DEF SaysClosed
<1> HIDE DEF f, change
<1> QED BY <1>1, <1>4, <1>5, <1>7, <1>8 DEF PlayInv, PlayTypeOK, PlayingIsNumbered, Undecided,
                                            AskedIsStopped, ClosedMeansDone

LEMMA FinishInv ==
    ASSUME PlayInv, NEW n \in Numbers, NEW signal \in Signals, Finish(n, signal)
    PROVE  PlayInv'
<1>1. film \in Film /\ film # None /\ film.number = next
  BY DEF Finish, Playing, PlayInv, PlayTypeOK
<1>2. /\ film' = None /\ UNCHANGED <<next, account>>
      /\ Close(film, signal) /\ posted' = posted \cup CloseEffects(film, signal)
  BY DEF Finish
<1>3. /\ verdicts' \in [Numbers -> Verdicts \cup {None}]
      /\ posted' \subseteq Effects
      /\ \A m \in Numbers : m # film.number => verdicts'[m] = verdicts[m]
      /\ AskedIsStopped' /\ ClosedMeansDone'
  BY <1>1, <1>2, Closing
<1>4. Undecided'
  BY <1>1, <1>2, <1>3 DEF PlayInv, Undecided, PlayTypeOK, Numbers
<1> QED BY <1>1, <1>2, <1>3, <1>4 DEF PlayInv, PlayTypeOK, PlayingIsNumbered

LEMMA CarryOutInv ==
    ASSUME PlayInv, NEW effect \in posted, CarryOut(effect)
    PROVE  PlayInv'
<1>1. /\ UNCHANGED <<next, film, verdicts>>
      /\ posted' \subseteq posted /\ effect \in Effects
  BY DEF CarryOut, PlayInv, PlayTypeOK
<1>2. account' \in [Numbers -> [closed : BOOLEAN, position : Places] \cup {None}]
  <2>1. effect.type = "Account" => effect \in AccountEffects
    BY <1>1 DEF Effects, AccountEffects
  <2> QED BY <2>1 DEF CarryOut, PlayInv, PlayTypeOK, AccountEffects
<1>3. \A m \in Numbers : SaysClosed(m)' => SaysClosed(m)
  BY <1>1 DEF SaysClosed, CarryOut, PlayInv, PlayTypeOK
<1> QED BY <1>1, <1>2, <1>3 DEF PlayInv, PlayTypeOK, PlayingIsNumbered, Undecided,
                                AskedIsStopped, ClosedMeansDone

LEMMA StepInv == PlayInv /\ [PlayNext]_playVars => PlayInv'
<1> SUFFICES ASSUME PlayInv, [PlayNext]_playVars PROVE PlayInv'
  OBVIOUS
<1>1. CASE \E player \in Players, live, watch, given \in BOOLEAN, session \in Sessions \cup {None} :
                Begin(player, live, watch, session, given, "Short")
  BY <1>1, BeginInv
<1>2. CASE \E n \in Numbers, intent \in Intents : Intend(n, intent)
  BY <1>2, IntendInv
<1>3. CASE \E n \in Numbers, end \in SourceEnds : SourceEnded(n, end)
  BY <1>3, SourceEndedInv
<1>4. CASE \E n \in Numbers, position \in Places, duration, jump, due \in BOOLEAN :
                Observe(n, position, duration, jump, due)
  BY <1>4, ObserveInv
<1>5. CASE \E n \in Numbers, signal \in Signals : Finish(n, signal)
  BY <1>5, FinishInv
<1>6. CASE \E effect \in posted : CarryOut(effect)
  BY <1>6, CarryOutInv
<1>7. CASE UNCHANGED playVars
  BY <1>7 DEF playVars, PlayInv, PlayTypeOK, PlayingIsNumbered, Undecided, AskedIsStopped,
              ClosedMeansDone, SaysClosed
<1> QED BY <1>1, <1>2, <1>3, <1>4, <1>5, <1>6, <1>7 DEF PlayNext

LEMMA PlayInvariance == PlaySpec => []PlayInv
  BY InitInv, StepInv, PTL DEF PlaySpec

\* The record, its effects and its verdicts keep their types (Supervisor).
THEOREM PlayTypeCorrect == PlaySpec => []PlayTypeOK
  BY PlayInvariance, PTL DEF PlayInv

\* The account is never told a film was closed that is still playing, failed,
\* or went on in Kodi (close).
THEOREM ClosedIsDone == PlaySpec => []ClosedMeansDone
  BY PlayInvariance, PTL DEF PlayInv

\* A film that was asked to go is reported stopped (verdict, live_verdict).
THEOREM AskedStops == PlaySpec => []AskedIsStopped
  BY PlayInvariance, PTL DEF PlayInv

\* A second word about a film changes nothing (finish).
THEOREM EndsOnce == PlaySpec => DecidedOnce
<1>1. PlayInv /\ [PlayNext]_playVars
      => [ \A n \in Numbers : verdicts[n] # None => verdicts'[n] = verdicts[n] ]_playVars
  <2> SUFFICES ASSUME PlayInv, PlayNext, NEW n \in Numbers, verdicts[n] # None
               PROVE  verdicts'[n] = verdicts[n]
    BY Zenon
  <2>1. ASSUME NEW f, film # None, f.number = film.number, NEW signal, Close(f, signal)
        PROVE  verdicts'[n] = verdicts[n]
    <3>1. film.number # n
      BY <2>1 DEF PlayInv, PlayTypeOK, Undecided
    <3> QED BY <2>1, <3>1 DEF Close, PlayInv, PlayTypeOK
  <2>2. ASSUME NEW player, NEW live, NEW watch, NEW session, NEW given,
               Begin(player, live, watch, session, given, "Short")
        PROVE  verdicts'[n] = verdicts[n]
    <3>1. CASE film = None
      BY <2>2, <3>1 DEF Begin
    <3>2. CASE film # None
      <4>1. film \in Film
        BY <3>2 DEF PlayInv, PlayTypeOK
      <4>2. Close(Replaced(film), "Gone")
        BY <2>2, <3>2 DEF Begin
      <4> QED BY <4>1, <4>2, <3>2, <2>1, ReplacedIsAFilm
    <3> QED BY <3>1, <3>2
  <2>3. ASSUME NEW m, NEW signal, Finish(m, signal)
        PROVE  verdicts'[n] = verdicts[n]
    BY <2>3, <2>1 DEF Finish, Playing
  <2>4. CASE \E m \in Numbers, intent \in Intents : Intend(m, intent)
    BY <2>4 DEF Intend
  <2>5. CASE \E m \in Numbers, end \in SourceEnds : SourceEnded(m, end)
    BY <2>5 DEF SourceEnded
  <2>6. CASE \E m \in Numbers, position \in Places, duration, jump, due \in BOOLEAN :
                 Observe(m, position, duration, jump, due)
    BY <2>6 DEF Observe
  <2>7. CASE \E effect \in posted : CarryOut(effect)
    BY <2>7 DEF CarryOut
  <2> QED BY ONLY PlayNext, <2>2, <2>3, <2>4, <2>5, <2>6, <2>7 DEF PlayNext
<1> QED BY <1>1, PlayInvariance, PTL DEF PlaySpec, DecidedOnce
=============================================================================
