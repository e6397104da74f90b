--------------------------- MODULE FilmStartProofs ---------------------------
(* What putting films on the television keeps, for any number of starts and   *)
(* whatever interrupts them.  None of the four properties is inductive: each  *)
(* needs to know what is still going to happen to a session, to the player's  *)
(* unit or to the film on record, and who will see to it.                     *)
EXTENDS FilmStart, FiniteSetTheorems, TLAPS

----------------------------------------------------------------------------
(* The inductive invariant.                                                   *)

StartStages ==
    {"Idle", "Counting", "Stopping", "StopUnit", "StopRecord", "Listing", "Ending",
     "Opening", "OpeningSwitched", "Opened", "Launching", "LaunchStop", "LaunchUnit",
     "Launched", "Check", "UndoTake", "UndoUnit", "GiveBack", "KodiOpened", "KodiResolved",
     "KodiOpens", "KodiRegister", "BackToUi", "UiListing", "UiEnding", "UiPlayer", "UiUnit",
     "Over", "Done"}
AsideStages ==
    {"Idle", "CallingOff", "Stopping", "StopUnit", "StopRecord", "Stopped", "KodiStops",
     "Switching", "KodiOpens", "KodiRegister", "BackToUi", "UiListing", "UiEnding",
     "UiPlayer", "UiUnit", "Done"}
OfHandoff == {"Switching", "KodiOpens", "KodiRegister"}

\* The player, the worker and the tasks hold what the code can hold.
TasksTypeOK ==
    /\ at \in [Tasks -> StartStages \cup AsideStages]
    /\ \A n \in StartIds : at[n] \in StartStages
    /\ \A a \in Asides : at[a] \in AsideStages /\ (at[a] \in OfHandoff => a = Handoff)
    /\ kind \in [StartIds -> {"Here", "Kodi"}]
    /\ held \in [Tasks -> [film : Nat \cup {None}, session : StartIds \cup {None}]]
    /\ sessions \subseteq StartIds /\ late \subseteq StartIds
    /\ unit \in StartIds \cup {None} /\ playing \in StartIds \cup {None}
    /\ pnum \in Nat

\* A film's end has nothing to tell the account, and its session to let go.
Phases == {"Waiting", "Asking", "Listed", "Ending"}
Sweeps == [kind : {"Here", "Kodi"}, phase : Phases, begun : Nat, listed : SUBSET StartIds,
           last : BOOLEAN]
RecordTypeOK ==
    /\ next \in Nat
    /\ film # None => film \in P!Film /\ ~film.watch /\ film.number = next
    /\ posted \subseteq [type : {"Release"}, session : StartIds]
    /\ sweep # None => sweep \in Sweeps

FollowersTypeOK ==
    /\ followers \subseteq [film : Nat, here : Nat, phase : {"Following", "Stopping", "StopUnit"}]
    /\ \A f \in followers : f.film <= next
    /\ \A f, g \in followers : f.film = g.film => f = g

\* The counters know where every start is.
Counters ==
    /\ S!StartsTypeOK /\ S!NoneAheadOfItself
    /\ busy = Cardinality(counted) + Cardinality(underway)
    /\ numbered \cap counted = {} /\ begun <= MaxStarts
CountersLinked ==
    \A n \in StartIds :
        /\ n > begun <=> at[n] = "Idle"
        /\ n \in numbered \cup counted <=> at[n] = "Counting"
        /\ n \in underway <=> at[n] \notin {"Idle", "Counting", "Done"}
        /\ at[n] \notin {"Idle", "Counting"} => n - 1 <= calledOff

Early == {"Idle", "Counting", "Stopping", "StopUnit", "StopRecord", "Listing", "Ending",
          "Opening", "OpeningSwitched"}
Ours  == {"Opened", "Launching", "LaunchStop", "LaunchUnit", "Launched", "Check",
          "UndoTake", "UndoUnit"}
OnKodi == {"OpeningSwitched", "KodiOpened", "KodiResolved", "KodiOpens", "KodiRegister"}
GivenUp == {"BackToUi", "UiListing", "UiEnding", "UiPlayer", "UiUnit", "Over", "Done"}

\* A start goes the way of the player it is for, and the film on record is of a
\* start that has put it on.
WaysApart ==
    \A n \in StartIds :
        /\ at[n] \in Ours => kind[n] = "Here"
        /\ at[n] \in OnKodi => kind[n] = "Kodi"
        /\ at[n] \in {"KodiOpens", "KodiRegister"} => held[n].session \in {None, n}
FilmOfAStart ==
    film # None /\ film.session # None =>
        kind[film.session] = film.player /\ at[film.session] \in {"Over", "Done"}

\* Every session has somebody who will end it: the film, the task that lets a
\* film's session go, its start, or the sweep.
SweptYet(n) ==
    /\ sweep # None /\ kind[n] = sweep.kind
    /\ sweep.phase \in {"Listed", "Ending"} /\ sweep.last => n \in sweep.listed
Accounted(n) ==
    \/ film # None /\ film.session = n
    \/ P!Release(n) \in posted
    \/ at[n] \in Ours \cup {"KodiOpened", "KodiResolved", "GiveBack"}
    \/ at[n] \in {"KodiOpens", "KodiRegister"} /\ held[n].session = n
    \/ SweptYet(n)
SessionsAccounted == \A n \in sessions : at[n] \notin Early /\ Accounted(n)
LateSwept ==
    \A n \in late :
        /\ at[n] \in GivenUp
        /\ sweep # None /\ kind[n] = sweep.kind
        /\ sweep.phase \in {"Listed", "Ending"} => ~sweep.last

SweepKnows ==
    sweep # None =>
        /\ sweep.phase = "Listed" =>
               \A n \in sweep.listed : kind[n] = sweep.kind /\ at[n] \notin Early
        /\ sweep.phase = "Ending" =>
               \A n \in sweep.listed : at[n] = "Done" /\ (film = None \/ film.session # n)

\* A stop of the player's unit that was begun and is still to come.
StopStages == {"Stopping", "StopUnit", "LaunchStop", "UndoTake", "UndoUnit", "UiUnit"}
StopPending ==
    \/ \E t \in Tasks : at[t] \in StopStages
    \/ \E f \in followers : f.phase \in {"Stopping", "StopUnit"}

\* A unit that runs is looked at once more by the start that made it, is to be
\* stopped, or there is a start nobody has called off.
LookedAt == \E n \in StartIds : at[n] \in {"Launched", "Check"}
UnitWatched == unit # None => LookedAt \/ StopPending \/ calledOff < begun

\* While films are put on here only, the unit that runs is of the film on
\* record, and the film's follower would stop it; who takes the film off the
\* record has stopped the unit before.
OnRecord(n) ==
    /\ film # None /\ film.session = n /\ ~S!CalledOff(n)
    /\ \E f \in followers : f.film = film.number /\ f.phase = "Following" /\ f.here = pnum
UnitOnRecord ==
    unit # None /\ OnlyHere =>
        at[unit] \in {"Launched", "Check"} \/ StopPending \/ OnRecord(unit)
StoppedBefore ==
    /\ \A t \in Tasks : held[t].film # None => held[t].film <= next
    /\ \A t \in Tasks :
        at[t] = "StopRecord" /\ film # None /\ held[t].film = film.number
            => unit = None \/ unit # film.session

FilmStartInv ==
    /\ TasksTypeOK /\ RecordTypeOK /\ FollowersTypeOK
    /\ Counters /\ CountersLinked /\ WaysApart /\ FilmOfAStart
    /\ SessionsAccounted /\ LateSwept /\ SweepKnows
    /\ UnitWatched /\ UnitOnRecord /\ StoppedBefore

----------------------------------------------------------------------------
(* Lemmas about the model's operators.                                        *)

\* A task that goes somewhere leaves the others where they are.
Moves(t, place) ==
    /\ at' \in [Tasks -> StartStages \cup AsideStages]
    /\ at'[t] = place
    /\ \A u \in Tasks : u # t => at'[u] = at[u]

LEMMA GoMoves ==
    ASSUME TasksTypeOK, NEW t \in Tasks, NEW place \in StartStages \cup AsideStages, Go(t, place)
    PROVE  Moves(t, place)
  BY DEF TasksTypeOK, Go, Moves

\* The starts of any place are finitely many.
LEMMA FinitelyMany ==
    ASSUME NEW n \in Nat, NEW A, A \subseteq 1..n
    PROVE  IsFiniteSet(A) /\ Cardinality(A) \in Nat
<1>1. IsFiniteSet(A)
  BY FS_Interval, FS_Subset, IsFiniteSet(1..n)
<1> QED BY <1>1, FS_CardinalityType

\* A start that is counted has a guard later, and none yet.
LEMMA Apart ==
    ASSUME Counters, CountersLinked
    PROVE  /\ numbered \cap counted = {} /\ numbered \cap underway = {} /\ counted \cap underway = {}
           /\ 1..begun \subseteq StartIds
           /\ IsFiniteSet(counted) /\ IsFiniteSet(underway)
           /\ Cardinality(counted) \in Nat /\ Cardinality(underway) \in Nat
<1>1. 1..begun \subseteq StartIds
  BY FilmStartAssumption DEF Counters, S!StartsTypeOK, StartIds
<1>2. \A n \in underway : n \in StartIds /\ n \notin counted /\ n \notin numbered
  BY <1>1 DEF CountersLinked, Counters, S!StartsTypeOK
<1>3. \A A : A \subseteq 1..begun => IsFiniteSet(A) /\ Cardinality(A) \in Nat
  BY FinitelyMany DEF Counters, S!StartsTypeOK
<1> QED BY <1>1, <1>2, <1>3 DEF Counters, S!StartsTypeOK

\* The counts are zero only when no start is counted or under way.
LEMMA NoneBusy ==
    ASSUME Counters, CountersLinked, busy = 0
    PROVE  counted = {} /\ underway = {}
<1>1. Cardinality(counted) = 0 /\ Cardinality(underway) = 0
  BY Apart DEF Counters
<1> QED BY <1>1, Apart, FS_EmptySet

\* Each atomic of begin_start and call_off_starts keeps the counters exact.
LEMMA TakeNumberCounts ==
    ASSUME Counters, S!TakeNumber
    PROVE  Counters' /\ begun + 1 \in StartIds
  BY FilmStartAssumption DEF Counters, S!TakeNumber, S!StartsTypeOK, S!NoneAheadOfItself, StartIds

LEMMA CountCounts ==
    ASSUME Counters, CountersLinked, NEW n \in StartIds, S!Count(n)
    PROVE  Counters'
<1>1. /\ n \in numbered /\ numbered' = numbered \ {n} /\ counted' = counted \cup {n} /\ busy' = busy + 1
      /\ UNCHANGED <<begun, calledOff, underway, backs>>
  BY DEF S!Count
<1>2. Cardinality(counted \cup {n}) = Cardinality(counted) + 1
  BY <1>1, Apart, FS_AddElement
<1>3. busy' = Cardinality(counted') + Cardinality(underway')
  BY <1>1, <1>2, Apart DEF Counters, S!StartsTypeOK
<1> QED BY <1>1, <1>3 DEF Counters, S!StartsTypeOK, S!NoneAheadOfItself

LEMMA CallOffOlderCounts ==
    ASSUME Counters, CountersLinked, NEW n \in StartIds, S!CallOffOlder(n)
    PROVE  /\ Counters'
           /\ calledOff' \in Nat /\ calledOff' >= calledOff /\ calledOff' >= n - 1
           /\ calledOff' < n \/ calledOff' = calledOff
<1>1. /\ n \in counted /\ counted' = counted \ {n} /\ underway' = underway \cup {n}
      /\ calledOff' = (IF n - 1 > calledOff THEN n - 1 ELSE calledOff)
      /\ UNCHANGED <<begun, busy, numbered, backs>>
  BY DEF S!CallOffOlder, S!Raised
<1>2. /\ Cardinality(counted \ {n}) = Cardinality(counted) - 1
      /\ Cardinality(underway \cup {n}) = Cardinality(underway) + 1
  <2>1. n \notin underway
    BY <1>1, Apart
  <2> QED BY <1>1, <2>1, Apart, FS_AddElement, FS_RemoveElement
<1>3. busy' = Cardinality(counted') + Cardinality(underway')
  BY <1>1, <1>2, Apart DEF Counters, S!StartsTypeOK
<1> QED BY <1>1, <1>3 DEF Counters, S!StartsTypeOK, S!NoneAheadOfItself, StartIds

LEMMA EndStartCounts ==
    ASSUME Counters, CountersLinked, NEW n \in StartIds, S!EndStart(n)
    PROVE  Counters'
<1>1. /\ n \in underway /\ underway' = underway \ {n} /\ busy' = busy - 1
      /\ UNCHANGED <<begun, calledOff, numbered, counted, backs>>
  BY DEF S!EndStart
<1>2. Cardinality(underway \ {n}) = Cardinality(underway) - 1 /\ Cardinality(underway \ {n}) \in Nat
  BY <1>1, Apart, FS_RemoveElement, FS_CardinalityType
<1>3. busy' = Cardinality(counted') + Cardinality(underway') /\ busy' \in Nat
  BY <1>1, <1>2, Apart DEF Counters, S!StartsTypeOK
<1> QED BY <1>1, <1>3 DEF Counters, S!StartsTypeOK, S!NoneAheadOfItself

LEMMA CallOffReadCounts ==
    ASSUME Counters, NEW n \in backs, S!CallOffRead(n)
    PROVE  Counters' /\ calledOff' \in Nat /\ calledOff' >= calledOff
  BY DEF Counters, S!CallOffRead, S!Raised, S!StartsTypeOK, S!NoneAheadOfItself

\* The film on record is of a start, or of nobody.
LEMMA FilmTyped ==
    ASSUME RecordTypeOK, film # None
    PROVE  /\ film.number = next /\ film.player \in {"Here", "Kodi"} /\ ~film.watch
           /\ film.session \in StartIds \cup {None}
  BY DEF RecordTypeOK, P!Film, P!Players

\* A film that ends leaves its session to be let go, and nothing else.
LEMMA ClosingReleases ==
    ASSUME NEW f, ~f.watch, NEW signal
    PROVE  P!CloseEffects(f, signal) = IF f.session = None THEN {} ELSE {P!Release(f.session)}
  BY DEF P!CloseEffects, P!Change

\* What the film on record lets go when it is over.
LetGo == IF film = None \/ film.session = None THEN {} ELSE {P!Release(film.session)}

\* The film on record ends, and its session is let go by a task of its own.
LEMMA FinishEnds ==
    ASSUME RecordTypeOK, NEW number, NEW signal, P!Finish(number, signal)
    PROVE  film # None /\ film.number = number /\ film' = None /\ next' = next
           /\ posted' = posted \cup LetGo
  BY ClosingReleases DEF RecordTypeOK, P!Finish, P!Playing, LetGo

\* A film begins, and the one on record before it ends.
LEMMA BeginReplaces ==
    ASSUME RecordTypeOK, NEW player \in {"Here", "Kodi"}, NEW session \in StartIds \cup {None},
           P!Begin(player, FALSE, FALSE, session, FALSE, "Short")
    PROVE  /\ next' = next + 1 /\ posted' = posted \cup LetGo
           /\ film' # None /\ film' \in P!Film /\ ~film'.watch
           /\ film'.number = next' /\ film'.player = player /\ film'.session = session
<1>1. film' = P!Begun(next + 1, player, FALSE, FALSE, session, FALSE, "Short") /\ next' = next + 1
  BY DEF P!Begin
<1>2. film' \in P!Film
  BY <1>1 DEF P!Begun, P!Film, P!Players, P!Places, RecordTypeOK
<1>3. film'.number = next' /\ film'.player = player /\ film'.session = session /\ ~film'.watch
  BY <1>1 DEF P!Begun
<1>4. film # None =>
        /\ P!Replaced(film).session = film.session /\ P!Replaced(film).watch = film.watch
        /\ posted' = posted \cup P!CloseEffects(P!Replaced(film), "Gone")
  BY DEF P!Begin, P!Replaced, P!Film
<1>5. posted' = posted \cup LetGo
  <2>1. CASE film = None
    BY <2>1 DEF P!Begin, LetGo
  <2>2. CASE film # None
    BY <2>2, <1>4, ClosingReleases DEF LetGo, RecordTypeOK
  <2> QED BY <2>1, <2>2
<1> QED BY <1>1, <1>2, <1>3, <1>5, NoneAssumption

\* What is let go is sessions of starts.
LEMMA LetGoTyped ==
    ASSUME RecordTypeOK
    PROVE  LetGo \subseteq [type : {"Release"}, session : StartIds]
  BY FilmTyped DEF LetGo, P!Release

\* Only starts here, and nothing handed to Kodi: so it was before.
LEMMA OnlyHereBefore ==
    ASSUME OnlyHere', begun' = begun, kind' = kind, Handoff \in Asides => at[Handoff] = "Idle"
    PROVE  OnlyHere
  BY DEF OnlyHere

\* An intent changes nothing else of the film.
SameFilm ==
    /\ film = None <=> film' = None
    /\ film # None => /\ film' \in P!Film /\ film'.number = film.number /\ film'.watch = film.watch
                      /\ film'.player = film.player /\ film'.session = film.session
LEMMA IntendKeepsFilm ==
    ASSUME RecordTypeOK, NEW number, NEW intent \in P!Intents, P!Intend(number, intent)
    PROVE  SameFilm /\ UNCHANGED <<next, posted>>
<1>1. film # None /\ film' = [film EXCEPT !.intent = intent] /\ UNCHANGED <<next, posted>>
  BY DEF P!Intend, P!Playing
<1>2. film \in P!Film
  BY <1>1 DEF RecordTypeOK
<1>3. film' \in P!Film /\ film'.number = film.number /\ film'.watch = film.watch
      /\ film'.player = film.player /\ film'.session = film.session
  BY <1>1, <1>2 DEF P!Film
<1> QED BY <1>1, <1>3, NoneAssumption DEF SameFilm

\* What is asked for besides is no start, and nothing is neither.
LEMMA AsidesApart ==
    /\ \A a \in Asides : a \notin StartIds
    /\ Back \notin StartIds /\ SourceLost \notin StartIds /\ Handoff \notin StartIds
    /\ Back # SourceLost /\ Back # Handoff /\ SourceLost # Handoff
    /\ \A t \in Tasks : t \in StartIds \/ t = Back \/ t = SourceLost \/ t = Handoff
    /\ None \notin StartIds /\ None \notin Nat
  BY FilmStartAssumption DEF StartIds, Tasks, Back, SourceLost, Handoff

\* What plays here by the record is a film, or nothing.
LEMMA FilmHereTyped ==
    ASSUME RecordTypeOK
    PROVE  FilmHere \in Nat \cup {None} /\ (FilmHere # None => film # None /\ FilmHere = film.number)
  BY FilmTyped DEF FilmHere, RecordTypeOK

LEMMA SweepsAreSome == None \notin Sweeps
  BY NoneAssumption, StartIds \subseteq Int, Nat \subseteq Int DEF Sweeps, Phases, StartIds

----------------------------------------------------------------------------
(* A start begins.                                                          *)

\* A start takes its number.
LEMMA ChooseKeeps ==
    ASSUME FilmStartInv, NEW k \in Kinds, Choose(k)
    PROVE  FilmStartInv'
<1> USE FilmStartAssumption DEF FilmStartInv, startVars, playVars, playerVars, shownVars,
          workerVars, taskVars, restVars
<1>1. /\ Counters' /\ begun + 1 \in StartIds /\ Moves(begun + 1, "Counting") /\ at[begun + 1] = "Idle"
      /\ begun' = begun + 1 /\ numbered' = numbered \cup {begun + 1}
      /\ kind' \in [StartIds -> {"Here", "Kodi"}]
      /\ \A n \in StartIds : n # begun + 1 => kind'[n] = kind[n]
      /\ UNCHANGED <<busy, calledOff, counted, underway, backs>>
      /\ UNCHANGED <<playVars, playerVars, shownVars, workerVars, held, listed, restVars>>
  BY TakeNumberCounts, GoMoves DEF Choose, S!TakeNumber, CountersLinked, Counters, S!StartsTypeOK,
     TasksTypeOK, Tasks, StartStages, AsideStages
<1>2. TasksTypeOK'
  BY <1>1, AsidesApart DEF TasksTypeOK, StartStages, AsideStages, OfHandoff, Moves, Tasks
<1>3. RecordTypeOK' /\ FollowersTypeOK'
  BY <1>1 DEF RecordTypeOK, FollowersTypeOK
<1>4. Counters' /\ CountersLinked'
  BY <1>1 DEF CountersLinked, Moves, Tasks, Counters, S!StartsTypeOK, StartIds
<1>5. WaysApart' /\ FilmOfAStart'
  BY <1>1, FilmTyped DEF WaysApart, Ours, OnKodi, Moves, Tasks, FilmOfAStart
<1>6. SessionsAccounted'
  BY <1>1 DEF SessionsAccounted, Accounted, SweptYet, Early, Ours, Moves, Tasks, TasksTypeOK
<1>7. LateSwept' /\ SweepKnows'
  BY <1>1 DEF LateSwept, GivenUp, Moves, Tasks, TasksTypeOK, SweepKnows, Early, RecordTypeOK,
    Sweeps
<1>8. UnitWatched'
  BY <1>1 DEF UnitWatched, Counters, S!StartsTypeOK, S!NoneAheadOfItself
<1>9. UnitOnRecord'
  <2>1. OnlyHere' => OnlyHere
    <3>1. \A m \in 1..begun : m \in StartIds /\ m # begun + 1 /\ m \in 1..begun'
      BY <1>1 DEF Counters, S!StartsTypeOK, StartIds
    <3>2. Handoff \in Asides => at'[Handoff] = at[Handoff]
      BY <1>1, AsidesApart DEF Moves, Tasks
    <3> QED
      BY <1>1, <3>1, <3>2 DEF OnlyHere
  <2> QED
    BY <1>1, <2>1 DEF UnitOnRecord, OnRecord, S!CalledOff, StopPending, StopStages, Moves, Tasks, TasksTypeOK
<1>10. StoppedBefore'
  BY <1>1 DEF StoppedBefore, Moves
<1> QED
  BY <1>2, <1>3, <1>4, <1>5, <1>6, <1>7, <1>8, <1>9, <1>10

\* A start is counted.
LEMMA CountInKeeps ==
    ASSUME FilmStartInv, NEW n \in StartIds, CountIn(n)
    PROVE  FilmStartInv'
<1> USE FilmStartAssumption DEF FilmStartInv, startVars, playVars, playerVars, shownVars,
          workerVars, taskVars, restVars
<1>1. /\ S!Count(n) /\ at[n] = "Counting"
      /\ numbered' = numbered \ {n} /\ counted' = counted \cup {n} /\ UNCHANGED <<begun, calledOff, underway, backs>>
      /\ UNCHANGED <<playVars, playerVars, shownVars, workerVars, taskVars, restVars>>
  BY DEF CountIn, S!Count
<1>2. TasksTypeOK'
  BY <1>1 DEF TasksTypeOK, StartStages, AsideStages, OfHandoff
<1>3. RecordTypeOK' /\ FollowersTypeOK'
  BY <1>1 DEF RecordTypeOK, FollowersTypeOK
<1>4. Counters' /\ CountersLinked'
  BY <1>1, CountCounts DEF CountersLinked
<1>5. WaysApart' /\ FilmOfAStart'
  BY <1>1, FilmTyped DEF WaysApart, Ours, OnKodi, FilmOfAStart
<1>6. SessionsAccounted'
  BY <1>1 DEF SessionsAccounted, Accounted, SweptYet, Ours
<1>7. LateSwept' /\ SweepKnows'
  BY <1>1 DEF LateSwept, SweepKnows
<1>8. UnitWatched'
  BY <1>1 DEF UnitWatched, LookedAt, StopPending, StopStages
<1>9. UnitOnRecord'
  BY <1>1 DEF UnitOnRecord, OnlyHere, OnRecord, S!CalledOff, StopPending, StopStages
<1>10. StoppedBefore'
  BY <1>1 DEF StoppedBefore
<1> QED
  BY <1>2, <1>3, <1>4, <1>5, <1>6, <1>7, <1>8, <1>9, <1>10

\* The older ones are called off.
LEMMA CallOffOlderKeeps ==
    ASSUME FilmStartInv, NEW n \in StartIds, CallOffOlder(n)
    PROVE  FilmStartInv'
<1> USE FilmStartAssumption DEF FilmStartInv, startVars, playVars, playerVars, shownVars,
          workerVars, taskVars, restVars
<1>1. /\ S!CallOffOlder(n) /\ at[n] = "Counting" /\ n \in counted
      /\ counted' = counted \ {n} /\ underway' = underway \cup {n} /\ UNCHANGED <<begun, busy, numbered, backs>>
      /\ \/ kind[n] = "Here" /\ Moves(n, "Stopping")
         \/ kind[n] # "Here" /\ Moves(n, "Listing")
      /\ UNCHANGED <<playVars, playerVars, shownVars, workerVars, kind, held, listed, restVars>>
  <2>1. kind[n] = "Here" => Go(n, "Stopping")
    BY DEF CallOffOlder
  <2>2. kind[n] # "Here" => Go(n, "Listing")
    BY DEF CallOffOlder
  <2> QED
    BY <2>1, <2>2, GoMoves DEF CallOffOlder, S!CallOffOlder, Tasks, StartStages, AsideStages
<1>2. TasksTypeOK'
  BY <1>1 DEF TasksTypeOK, StartStages, AsideStages, OfHandoff, Moves, Tasks
<1>3. RecordTypeOK' /\ FollowersTypeOK'
  BY <1>1 DEF RecordTypeOK, FollowersTypeOK
<1>4. Counters' /\ CountersLinked'
  <2>1. Counters' /\ calledOff' \in Nat /\ calledOff' >= calledOff /\ calledOff' >= n - 1
    BY <1>1, CallOffOlderCounts
  <2> QED
    BY <1>1, <2>1 DEF CountersLinked, Moves, Tasks, Counters, S!StartsTypeOK, StartIds
<1>5. WaysApart' /\ FilmOfAStart'
  BY <1>1, FilmTyped DEF WaysApart, Ours, OnKodi, Moves, Tasks, FilmOfAStart
<1>6. SessionsAccounted'
  BY <1>1 DEF SessionsAccounted, Accounted, SweptYet, Early, Ours, Moves, Tasks, TasksTypeOK
<1>7. LateSwept' /\ SweepKnows'
  BY <1>1 DEF LateSwept, GivenUp, Moves, Tasks, TasksTypeOK, SweepKnows, Early, RecordTypeOK,
    Sweeps
<1>8. UnitWatched'
  <2>1. calledOff' \in Nat /\ (calledOff' < n \/ calledOff' = calledOff)
    BY <1>1, CallOffOlderCounts
  <2>2. n <= begun /\ n \in Nat /\ begun \in Nat
    BY <1>1 DEF Counters, S!StartsTypeOK, StartIds
  <2>3. CASE calledOff' < n
    BY <1>1, <2>1, <2>2, <2>3 DEF UnitWatched
  <2>4. CASE calledOff' = calledOff
    BY <1>1, <2>4 DEF UnitWatched, LookedAt, StopPending, StopStages, Moves, Tasks
  <2> QED
    BY <2>1, <2>3, <2>4
<1>9. UnitOnRecord'
  <2>1. n <= begun
    BY <1>1 DEF Counters, S!StartsTypeOK
  <2>2. OnlyHere' => kind[n] = "Here" /\ at'[n] = "Stopping"
    BY <1>1, <2>1 DEF OnlyHere, Moves, StartIds
  <2> QED
    BY <2>2 DEF UnitOnRecord, StopPending, StopStages, Tasks
<1>10. StoppedBefore'
  BY <1>1 DEF StoppedBefore, Moves
<1> QED
  BY <1>2, <1>3, <1>4, <1>5, <1>6, <1>7, <1>8, <1>9, <1>10

----------------------------------------------------------------------------
(* What plays is stopped, and the sessions there are are ended.             *)

\* The player lets go, and the film is told why.
LEMMA StopTakesKeeps ==
    ASSUME FilmStartInv, NEW t \in Tasks, StopTakes(t)
    PROVE  FilmStartInv'
<1> USE FilmStartAssumption DEF FilmStartInv, startVars, playVars, playerVars, shownVars,
          workerVars, taskVars, restVars
<1>1. /\ at[t] = "Stopping" /\ Moves(t, "StopUnit")
      /\ SameFilm /\ UNCHANGED <<next, posted>>
      /\ held' = [held EXCEPT ![t] = [film |-> FilmHere, session |-> playing]]
      /\ playing' = None /\ pnum' = pnum + 1
      /\ UNCHANGED <<startVars, unit, shownVars, workerVars, kind, listed, restVars>>
  <2>1. SameFilm /\ UNCHANGED <<next, posted>>
    <3>1. StopIntent(t) \in P!Intents
      BY DEF StopIntent, P!Intents
    <3>2. CASE FilmHere = None
      BY <3>2 DEF StopTakes, SameFilm, RecordTypeOK
    <3>3. CASE FilmHere # None
      BY <3>1, <3>3, IntendKeepsFilm DEF StopTakes
    <3> QED BY <3>2, <3>3
  <2> QED
    BY <2>1, GoMoves DEF StopTakes, PlayerLetsGo, StartStages, AsideStages
<1>2. TasksTypeOK'
  BY <1>1, FilmHereTyped DEF TasksTypeOK, StartStages, AsideStages, OfHandoff, Moves, Tasks
<1>3. RecordTypeOK' /\ FollowersTypeOK'
  BY <1>1 DEF RecordTypeOK, SameFilm, FollowersTypeOK
<1>4. Counters' /\ CountersLinked'
  BY <1>1 DEF Counters, S!StartsTypeOK, S!NoneAheadOfItself, CountersLinked, Moves, Tasks
<1>5. WaysApart' /\ FilmOfAStart'
  BY <1>1, FilmTyped DEF SameFilm, WaysApart, Ours, OnKodi, Moves, Tasks, FilmOfAStart
<1>6. SessionsAccounted'
  BY <1>1 DEF SameFilm, SessionsAccounted, Accounted, SweptYet, Early, Ours, Moves, Tasks, TasksTypeOK
<1>7. LateSwept' /\ SweepKnows'
  BY <1>1 DEF SameFilm, LateSwept, GivenUp, Moves, Tasks, TasksTypeOK, SweepKnows, Early, RecordTypeOK, Sweeps
<1>8. UnitWatched'
  BY <1>1 DEF UnitWatched, LookedAt, StopPending, StopStages, Moves
<1>9. UnitOnRecord'
  BY <1>1 DEF UnitOnRecord, OnlyHere, OnRecord, S!CalledOff, StopPending, StopStages, Moves
<1>10. StoppedBefore'
  BY <1>1, FilmHereTyped, FilmTyped DEF SameFilm, StoppedBefore, Moves
<1> QED
  BY <1>2, <1>3, <1>4, <1>5, <1>6, <1>7, <1>8, <1>9, <1>10

\* The unit is stopped.
LEMMA StopUnitKeeps ==
    ASSUME FilmStartInv, NEW t \in Tasks, StopUnit(t)
    PROVE  FilmStartInv'
<1> USE FilmStartAssumption DEF FilmStartInv, startVars, playVars, playerVars, shownVars,
          workerVars, taskVars, restVars
<1>1. /\ at[t] = "StopUnit" /\ Moves(t, "StopRecord")
      /\ unit' = None
      /\ UNCHANGED <<startVars, playVars, pnum, playing, shownVars, workerVars, kind, held, listed, restVars>>
  BY GoMoves DEF StopUnit, StartStages, AsideStages
<1>2. TasksTypeOK'
  BY <1>1 DEF TasksTypeOK, StartStages, AsideStages, OfHandoff, Moves, Tasks
<1>3. RecordTypeOK' /\ FollowersTypeOK'
  BY <1>1 DEF RecordTypeOK, FollowersTypeOK
<1>4. Counters' /\ CountersLinked'
  BY <1>1 DEF Counters, S!StartsTypeOK, S!NoneAheadOfItself, CountersLinked, Moves, Tasks
<1>5. WaysApart' /\ FilmOfAStart'
  BY <1>1, FilmTyped DEF WaysApart, Ours, OnKodi, Moves, Tasks, FilmOfAStart
<1>6. SessionsAccounted'
  BY <1>1 DEF SessionsAccounted, Accounted, SweptYet, Early, Ours, Moves, Tasks, TasksTypeOK
<1>7. LateSwept' /\ SweepKnows'
  BY <1>1 DEF LateSwept, GivenUp, Moves, Tasks, TasksTypeOK, SweepKnows, Early, RecordTypeOK,
    Sweeps
<1>8. UnitWatched'
  BY <1>1 DEF UnitWatched, LookedAt, StopPending, StopStages
<1>9. UnitOnRecord'
  BY <1>1 DEF UnitOnRecord, OnlyHere, OnRecord, S!CalledOff, StopPending, StopStages
<1>10. StoppedBefore'
  BY <1>1 DEF StoppedBefore
<1> QED
  BY <1>2, <1>3, <1>4, <1>5, <1>6, <1>7, <1>8, <1>9, <1>10

\* The film it stopped is over.
LEMMA StopRecordKeeps ==
    ASSUME FilmStartInv, NEW t \in Tasks, StopRecord(t)
    PROVE  FilmStartInv'
<1> USE FilmStartAssumption DEF FilmStartInv, startVars, playVars, playerVars, shownVars,
          workerVars, taskVars, restVars
<1>1. /\ at[t] = "StopRecord"
      /\ \/ t = Back /\ Moves(t, "Done")
         \/ t = SourceLost /\ Moves(t, "Stopped")
         \/ t = Handoff /\ Moves(t, "Switching")
         \/ t \in StartIds /\ Moves(t, "Listing")
      /\ \/ UNCHANGED <<next, film, posted>>
         \/ /\ film # None /\ film.number = held[t].film
            /\ film' = None /\ next' = next /\ posted' = posted \cup LetGo
      /\ sessions' \subseteq sessions
      /\ UNCHANGED <<startVars, playerVars, shownVars, late, kind, held, listed, restVars>>
  <2>1. /\ t = Back => Go(t, "Done")
        /\ t = SourceLost => Go(t, "Stopped")
        /\ t = Handoff => Go(t, "Switching")
        /\ t \in StartIds => Go(t, "Listing")
    BY AsidesApart DEF StopRecord, Go
  <2>2. \/ UNCHANGED <<next, film, posted>>
        \/ /\ film # None /\ film.number = held[t].film
           /\ film' = None /\ next' = next /\ posted' = posted \cup LetGo
    BY FinishEnds DEF StopRecord
  <2>3. at[t] = "StopRecord" /\ sessions' \subseteq sessions
        /\ UNCHANGED <<startVars, playerVars, shownVars, late, kind, held, listed, restVars>>
    BY DEF StopRecord
  <2> QED
    BY <2>1, <2>2, <2>3, AsidesApart, GoMoves DEF StartStages, AsideStages
<1>2. TasksTypeOK'
  BY <1>1, AsidesApart DEF TasksTypeOK, StartStages, AsideStages, OfHandoff, Moves, Tasks
<1>3. RecordTypeOK' /\ FollowersTypeOK'
  BY <1>1, LetGoTyped DEF RecordTypeOK, FollowersTypeOK
<1>4. Counters' /\ CountersLinked'
  BY <1>1, AsidesApart DEF Counters, S!StartsTypeOK, S!NoneAheadOfItself, CountersLinked, Moves, Tasks
<1>5. WaysApart' /\ FilmOfAStart'
  BY <1>1, FilmTyped DEF WaysApart, Ours, OnKodi, Moves, Tasks, FilmOfAStart
<1>6. SessionsAccounted'
  BY <1>1, AsidesApart
     DEF LetGo, SessionsAccounted, Accounted, SweptYet, Early, Ours, Moves, Tasks, TasksTypeOK
<1>7. LateSwept' /\ SweepKnows'
  BY <1>1 DEF LateSwept, GivenUp, Moves, Tasks, TasksTypeOK, SweepKnows, Early, RecordTypeOK,
    Sweeps
<1>8. UnitWatched'
  BY <1>1 DEF UnitWatched, LookedAt, StopPending, StopStages, Moves, Tasks
<1>9. UnitOnRecord'
  BY <1>1 DEF UnitOnRecord, OnlyHere, OnRecord, S!CalledOff, StopPending, StopStages, StoppedBefore,
    Moves, Tasks, TasksTypeOK
<1>10. StoppedBefore'
  BY <1>1 DEF StoppedBefore, Moves
<1> QED
  BY <1>2, <1>3, <1>4, <1>5, <1>6, <1>7, <1>8, <1>9, <1>10

\* The sessions are listed.
LEMMA ListSessionsKeeps ==
    ASSUME FilmStartInv, NEW t \in Tasks, ListSessions(t)
    PROVE  FilmStartInv'
<1> USE FilmStartAssumption DEF FilmStartInv, startVars, playVars, playerVars, shownVars,
          workerVars, taskVars, restVars
<1>1. /\ \/ at[t] = "Listing" /\ Moves(t, "Ending")
         \/ at[t] = "UiListing" /\ Moves(t, "UiEnding")
      /\ UNCHANGED <<startVars, playVars, playerVars, shownVars, workerVars, kind, held, restVars>>
  <2>1. at[t] = "Listing" => Go(t, "Ending")
    BY DEF ListSessions
  <2>2. at[t] = "UiListing" => Go(t, "UiEnding")
    BY DEF ListSessions
  <2> QED
    BY <2>1, <2>2, GoMoves DEF ListSessions, StartStages, AsideStages
<1>2. TasksTypeOK'
  BY <1>1 DEF TasksTypeOK, StartStages, AsideStages, OfHandoff, Moves, Tasks
<1>3. RecordTypeOK' /\ FollowersTypeOK'
  BY <1>1 DEF RecordTypeOK, FollowersTypeOK
<1>4. Counters' /\ CountersLinked'
  BY <1>1 DEF Counters, S!StartsTypeOK, S!NoneAheadOfItself, CountersLinked, Moves, Tasks
<1>5. WaysApart' /\ FilmOfAStart'
  BY <1>1, FilmTyped DEF WaysApart, Ours, OnKodi, Moves, Tasks, FilmOfAStart
<1>6. SessionsAccounted'
  BY <1>1 DEF SessionsAccounted, Accounted, SweptYet, Early, Ours, Moves, Tasks, TasksTypeOK
<1>7. LateSwept' /\ SweepKnows'
  BY <1>1 DEF LateSwept, GivenUp, Moves, Tasks, TasksTypeOK, SweepKnows, Early, RecordTypeOK,
    Sweeps
<1>8. UnitWatched'
  BY <1>1 DEF UnitWatched, LookedAt, StopPending, StopStages, Moves, Tasks
<1>9. UnitOnRecord'
  BY <1>1 DEF UnitOnRecord, OnlyHere, OnRecord, S!CalledOff, StopPending, StopStages, Moves,
    Tasks, TasksTypeOK
<1>10. StoppedBefore'
  BY <1>1 DEF StoppedBefore, Moves
<1> QED
  BY <1>2, <1>3, <1>4, <1>5, <1>6, <1>7, <1>8, <1>9, <1>10

\* What was listed is ended.
LEMMA EndListedKeeps ==
    ASSUME FilmStartInv, NEW t \in Tasks, EndListed(t)
    PROVE  FilmStartInv'
<1> USE FilmStartAssumption DEF FilmStartInv, startVars, playVars, playerVars, shownVars,
          workerVars, taskVars, restVars
<1>1. /\ \/ at[t] = "Ending" /\ Moves(t, "Opening")
         \/ at[t] = "UiEnding" /\ Moves(t, "UiPlayer")
      /\ sessions' \subseteq sessions
      /\ UNCHANGED <<startVars, playVars, playerVars, shownVars, late, kind, held, listed, restVars>>
  <2>1. at[t] = "Ending" => Go(t, "Opening")
    BY DEF EndListed
  <2>2. at[t] = "UiEnding" => Go(t, "UiPlayer")
    BY DEF EndListed
  <2> QED
    BY <2>1, <2>2, GoMoves DEF EndListed, StartStages, AsideStages
<1>2. TasksTypeOK'
  BY <1>1 DEF TasksTypeOK, StartStages, AsideStages, OfHandoff, Moves, Tasks
<1>3. RecordTypeOK' /\ FollowersTypeOK'
  BY <1>1 DEF RecordTypeOK, FollowersTypeOK
<1>4. Counters' /\ CountersLinked'
  BY <1>1 DEF Counters, S!StartsTypeOK, S!NoneAheadOfItself, CountersLinked, Moves, Tasks
<1>5. WaysApart' /\ FilmOfAStart'
  BY <1>1, FilmTyped DEF WaysApart, Ours, OnKodi, Moves, Tasks, FilmOfAStart
<1>6. SessionsAccounted'
  BY <1>1 DEF SessionsAccounted, Accounted, SweptYet, Early, Ours, Moves, Tasks, TasksTypeOK
<1>7. LateSwept' /\ SweepKnows'
  BY <1>1 DEF LateSwept, GivenUp, Moves, Tasks, TasksTypeOK, SweepKnows, Early, RecordTypeOK,
    Sweeps
<1>8. UnitWatched'
  BY <1>1 DEF UnitWatched, LookedAt, StopPending, StopStages, Moves, Tasks
<1>9. UnitOnRecord'
  BY <1>1 DEF UnitOnRecord, OnlyHere, OnRecord, S!CalledOff, StopPending, StopStages, Moves,
    Tasks, TasksTypeOK
<1>10. StoppedBefore'
  BY <1>1 DEF StoppedBefore, Moves
<1> QED
  BY <1>2, <1>3, <1>4, <1>5, <1>6, <1>7, <1>8, <1>9, <1>10

----------------------------------------------------------------------------
(* The worker opens the source, in time or late.                            *)

\* A session is made.
LEMMA WorkerOpensKeeps ==
    ASSUME FilmStartInv, NEW n \in StartIds, WorkerOpens(n)
    PROVE  FilmStartInv'
<1> USE FilmStartAssumption DEF FilmStartInv, startVars, playVars, playerVars, shownVars,
          workerVars, taskVars, restVars
<1>1. /\ sessions' = sessions \cup {n} /\ late' = late \ {n}
      /\ \/ at[n] = "Opening" /\ kind[n] = "Here" /\ Moves(n, "Opened")
         \/ at[n] = "Opening" /\ kind[n] = "Kodi" /\ Moves(n, "KodiOpened")
         \/ at[n] = "OpeningSwitched" /\ Moves(n, "KodiResolved")
         \/ n \in late /\ UNCHANGED at
      /\ UNCHANGED <<startVars, playVars, playerVars, shownVars, kind, held, listed, restVars>>
  <2>1. \/ at[n] = "Opening" /\ kind[n] = "Here" /\ Go(n, "Opened")
        \/ at[n] = "Opening" /\ kind[n] = "Kodi" /\ Go(n, "KodiOpened")
        \/ at[n] = "OpeningSwitched" /\ Go(n, "KodiResolved")
        \/ n \in late /\ Go(n, at[n])
    BY DEF WorkerOpens, Go, TasksTypeOK, LateSwept
  <2>2. n \in Tasks /\ (Go(n, at[n]) => UNCHANGED at)
    BY DEF Go, Tasks, TasksTypeOK
  <2> QED
    BY <2>1, <2>2, GoMoves DEF WorkerOpens, WorkerMakes, StartStages, AsideStages
<1>2. TasksTypeOK'
  BY <1>1 DEF TasksTypeOK, StartStages, AsideStages, OfHandoff, Moves, Tasks
<1>3. RecordTypeOK' /\ FollowersTypeOK'
  BY <1>1 DEF RecordTypeOK, FollowersTypeOK
<1>4. Counters' /\ CountersLinked'
  BY <1>1 DEF Counters, S!StartsTypeOK, S!NoneAheadOfItself, CountersLinked, Moves, Tasks
<1>5. WaysApart' /\ FilmOfAStart'
  BY <1>1, FilmTyped DEF WaysApart, Ours, OnKodi, Moves, Tasks, FilmOfAStart
<1>6. SessionsAccounted'
  BY <1>1 DEF LateSwept, GivenUp, SessionsAccounted, Accounted, SweptYet, Early, Ours, Moves, Tasks,
    TasksTypeOK
<1>7. LateSwept' /\ SweepKnows'
  BY <1>1 DEF LateSwept, GivenUp, Moves, Tasks, TasksTypeOK, SweepKnows, Early, RecordTypeOK,
    Sweeps
<1>8. UnitWatched'
  BY <1>1 DEF UnitWatched, LookedAt, StopPending, StopStages, Moves, Tasks
<1>9. UnitOnRecord'
  BY <1>1 DEF UnitOnRecord, OnlyHere, OnRecord, S!CalledOff, StopPending, StopStages, Moves,
    Tasks, TasksTypeOK
<1>10. StoppedBefore'
  BY <1>1 DEF StoppedBefore, Moves
<1> QED
  BY <1>2, <1>3, <1>4, <1>5, <1>6, <1>7, <1>8, <1>9, <1>10

\* The answer is given up on, and the sweep is to find what it may still make.
LEMMA GivesUpKeeps ==
    ASSUME FilmStartInv, NEW n \in StartIds, GivesUp(n)
    PROVE  FilmStartInv'
<1> USE FilmStartAssumption DEF FilmStartInv, startVars, playVars, playerVars, shownVars,
          workerVars, taskVars, restVars
<1>1. /\ \/ at[n] = "Opening" /\ kind[n] = "Here" /\ Moves(n, "Over")
         \/ at[n] = "OpeningSwitched" /\ kind[n] = "Kodi" /\ Moves(n, "BackToUi")
      /\ late' \subseteq late \cup {n} /\ sweep = None
      /\ sweep' \in Sweeps /\ sweep' # None /\ sweep'.kind = kind[n] /\ sweep'.phase = "Waiting"
      /\ UNCHANGED <<startVars, playVars, playerVars, shownVars, sessions, kind, held, listed, followers>>
  <2>1. \/ at[n] = "Opening" /\ kind[n] = "Here" /\ Go(n, "Over")
        \/ at[n] = "OpeningSwitched" /\ kind[n] = "Kodi" /\ Go(n, "BackToUi")
    BY DEF GivesUp, TasksTypeOK
  <2>2. /\ sweep = None /\ late' \subseteq late \cup {n}
        /\ sweep' = [kind |-> kind[n], phase |-> "Waiting", begun |-> 0, listed |-> {}, last |-> FALSE]
    BY DEF GivesUp, StartSweep
  <2>3. sweep' \in Sweeps /\ sweep'.kind = kind[n] /\ sweep'.phase = "Waiting"
    BY <2>2 DEF Sweeps, Phases, TasksTypeOK
  <2>4. sweep' # None
    BY <2>3, SweepsAreSome
  <2> QED
    BY <2>1, <2>2, <2>3, <2>4, GoMoves DEF GivesUp, Tasks, StartStages, AsideStages
<1>2. TasksTypeOK'
  BY <1>1 DEF TasksTypeOK, StartStages, AsideStages, OfHandoff, Moves, Tasks
<1>3. RecordTypeOK' /\ FollowersTypeOK'
  BY <1>1 DEF RecordTypeOK, FollowersTypeOK
<1>4. Counters' /\ CountersLinked'
  BY <1>1 DEF Counters, S!StartsTypeOK, S!NoneAheadOfItself, CountersLinked, Moves, Tasks
<1>5. WaysApart' /\ FilmOfAStart'
  BY <1>1, FilmTyped DEF WaysApart, Ours, OnKodi, Moves, Tasks, FilmOfAStart
<1>6. SessionsAccounted'
  BY <1>1 DEF SessionsAccounted, Accounted, SweptYet, Early, Ours, Moves, Tasks, TasksTypeOK
<1>7. LateSwept' /\ SweepKnows'
  BY <1>1 DEF LateSwept, GivenUp, Moves, SweepKnows
<1>8. UnitWatched'
  BY <1>1 DEF UnitWatched, LookedAt, StopPending, StopStages, Moves, Tasks
<1>9. UnitOnRecord'
  BY <1>1 DEF UnitOnRecord, OnlyHere, OnRecord, S!CalledOff, StopPending, StopStages, Moves,
    Tasks, TasksTypeOK
<1>10. StoppedBefore'
  BY <1>1 DEF StoppedBefore, Moves
<1> QED
  BY <1>2, <1>3, <1>4, <1>5, <1>6, <1>7, <1>8, <1>9, <1>10

----------------------------------------------------------------------------
(* The player is started, and the film goes on record.                      *)

\* A start called off gives its session back.
LEMMA OpenedKeeps ==
    ASSUME FilmStartInv, NEW n \in StartIds, Opened(n)
    PROVE  FilmStartInv'
<1> USE FilmStartAssumption DEF FilmStartInv, startVars, playVars, playerVars, shownVars,
          workerVars, taskVars, restVars
<1>1. /\ at[n] = "Opened"
      /\ \/ Moves(n, "GiveBack")
         \/ Moves(n, "Launching")
      /\ UNCHANGED <<startVars, playVars, playerVars, shownVars, workerVars, kind, held, listed, restVars>>
  BY GoMoves DEF Opened, Tasks, StartStages, AsideStages
<1>2. TasksTypeOK'
  BY <1>1 DEF TasksTypeOK, StartStages, AsideStages, OfHandoff, Moves, Tasks
<1>3. RecordTypeOK' /\ FollowersTypeOK'
  BY <1>1 DEF RecordTypeOK, FollowersTypeOK
<1>4. Counters' /\ CountersLinked'
  BY <1>1 DEF Counters, S!StartsTypeOK, S!NoneAheadOfItself, CountersLinked, Moves, Tasks
<1>5. WaysApart' /\ FilmOfAStart'
  BY <1>1, FilmTyped DEF WaysApart, Ours, OnKodi, Moves, Tasks, FilmOfAStart
<1>6. SessionsAccounted'
  BY <1>1, AsidesApart DEF SessionsAccounted, Accounted, SweptYet, Early, Ours, Moves, Tasks,
    TasksTypeOK
<1>7. LateSwept' /\ SweepKnows'
  BY <1>1, AsidesApart DEF LateSwept, GivenUp, Moves, Tasks, TasksTypeOK, SweepKnows, Early,
    RecordTypeOK, Sweeps
<1>8. UnitWatched'
  BY <1>1 DEF UnitWatched, LookedAt, StopPending, StopStages, Moves, Tasks
<1>9. UnitOnRecord'
  BY <1>1 DEF UnitOnRecord, OnlyHere, OnRecord, S!CalledOff, StopPending, StopStages, Moves, Tasks,
     TasksTypeOK
<1>10. StoppedBefore'
  BY <1>1 DEF StoppedBefore, Moves
<1> QED
  BY <1>2, <1>3, <1>4, <1>5, <1>6, <1>7, <1>8, <1>9, <1>10

\* The player that is to start stops what plays.
LEMMA LaunchStopsKeeps ==
    ASSUME FilmStartInv, NEW n \in StartIds, LaunchStops(n)
    PROVE  FilmStartInv'
<1> USE FilmStartAssumption DEF FilmStartInv, startVars, playVars, playerVars, shownVars,
          workerVars, taskVars, restVars
<1>1. /\ at[n] = "Launching" /\ Moves(n, "LaunchStop")
      /\ playing' = None /\ pnum' = pnum + 1
      /\ UNCHANGED <<startVars, playVars, unit, shownVars, workerVars, kind, held, listed, restVars>>
  BY GoMoves DEF LaunchStops, PlayerLetsGo, Tasks, StartStages, AsideStages
<1>2. TasksTypeOK'
  BY <1>1 DEF TasksTypeOK, StartStages, AsideStages, OfHandoff, Moves, Tasks
<1>3. RecordTypeOK' /\ FollowersTypeOK'
  BY <1>1 DEF RecordTypeOK, FollowersTypeOK
<1>4. Counters' /\ CountersLinked'
  BY <1>1 DEF Counters, S!StartsTypeOK, S!NoneAheadOfItself, CountersLinked, Moves, Tasks
<1>5. WaysApart' /\ FilmOfAStart'
  BY <1>1, FilmTyped DEF WaysApart, Ours, OnKodi, Moves, Tasks, FilmOfAStart
<1>6. SessionsAccounted'
  BY <1>1, AsidesApart DEF SessionsAccounted, Accounted, SweptYet, Early, Ours, Moves, Tasks,
    TasksTypeOK
<1>7. LateSwept' /\ SweepKnows'
  BY <1>1, AsidesApart DEF LateSwept, GivenUp, Moves, Tasks, TasksTypeOK, SweepKnows, Early,
    RecordTypeOK, Sweeps
<1>8. UnitWatched'
  BY <1>1 DEF UnitWatched, LookedAt, StopPending, StopStages, Moves, Tasks
<1>9. UnitOnRecord'
  BY <1>1 DEF UnitOnRecord, OnlyHere, OnRecord, S!CalledOff, StopPending, StopStages, Moves,
     TasksTypeOK
<1>10. StoppedBefore'
  BY <1>1 DEF StoppedBefore, Moves
<1> QED
  BY <1>2, <1>3, <1>4, <1>5, <1>6, <1>7, <1>8, <1>9, <1>10

\* It is stopped, and the player counts once more.
LEMMA LaunchStoppedKeeps ==
    ASSUME FilmStartInv, NEW n \in StartIds, LaunchStopped(n)
    PROVE  FilmStartInv'
<1> USE FilmStartAssumption DEF FilmStartInv, startVars, playVars, playerVars, shownVars,
          workerVars, taskVars, restVars
<1>1. /\ at[n] = "LaunchStop" /\ Moves(n, "LaunchUnit")
      /\ unit' = None /\ pnum' = pnum + 1
      /\ UNCHANGED <<startVars, playVars, playing, shownVars, workerVars, kind, held, listed, restVars>>
  BY GoMoves DEF LaunchStopped, Tasks, StartStages, AsideStages
<1>2. TasksTypeOK'
  BY <1>1 DEF TasksTypeOK, StartStages, AsideStages, OfHandoff, Moves, Tasks
<1>3. RecordTypeOK' /\ FollowersTypeOK'
  BY <1>1 DEF RecordTypeOK, FollowersTypeOK
<1>4. Counters' /\ CountersLinked'
  BY <1>1 DEF Counters, S!StartsTypeOK, S!NoneAheadOfItself, CountersLinked, Moves, Tasks
<1>5. WaysApart' /\ FilmOfAStart'
  BY <1>1, FilmTyped DEF WaysApart, Ours, OnKodi, Moves, Tasks, FilmOfAStart
<1>6. SessionsAccounted'
  BY <1>1, AsidesApart DEF SessionsAccounted, Accounted, SweptYet, Early, Ours, Moves, Tasks,
    TasksTypeOK
<1>7. LateSwept' /\ SweepKnows'
  BY <1>1, AsidesApart DEF LateSwept, GivenUp, Moves, Tasks, TasksTypeOK, SweepKnows, Early,
    RecordTypeOK, Sweeps
<1>8. UnitWatched'
  BY <1>1 DEF UnitWatched, LookedAt, StopPending, StopStages
<1>9. UnitOnRecord'
  BY <1>1 DEF UnitOnRecord, OnlyHere, OnRecord, S!CalledOff, StopPending, StopStages
<1>10. StoppedBefore'
  BY <1>1 DEF StoppedBefore
<1> QED
  BY <1>2, <1>3, <1>4, <1>5, <1>6, <1>7, <1>8, <1>9, <1>10

\* The unit runs, or could not be started.
LEMMA LaunchUnitKeeps ==
    ASSUME FilmStartInv, NEW n \in StartIds, LaunchUnit(n)
    PROVE  FilmStartInv'
<1> USE FilmStartAssumption DEF FilmStartInv, startVars, playVars, playerVars, shownVars,
          workerVars, taskVars, restVars
<1>1. /\ at[n] = "LaunchUnit"
      /\ \/ unit = None /\ unit' = n /\ Moves(n, "Launched")
         \/ unit' = unit /\ Moves(n, "GiveBack")
      /\ UNCHANGED <<startVars, playVars, pnum, playing, workerVars, kind, held, listed, restVars>>
  BY GoMoves DEF LaunchUnit, Tasks, StartStages, AsideStages
<1>2. TasksTypeOK'
  BY <1>1 DEF TasksTypeOK, StartStages, AsideStages, OfHandoff, Moves, Tasks
<1>3. RecordTypeOK' /\ FollowersTypeOK'
  BY <1>1 DEF RecordTypeOK, FollowersTypeOK
<1>4. Counters' /\ CountersLinked'
  BY <1>1 DEF Counters, S!StartsTypeOK, S!NoneAheadOfItself, CountersLinked, Moves, Tasks
<1>5. WaysApart' /\ FilmOfAStart'
  BY <1>1, FilmTyped DEF WaysApart, Ours, OnKodi, Moves, Tasks, FilmOfAStart
<1>6. SessionsAccounted'
  BY <1>1, AsidesApart DEF SessionsAccounted, Accounted, SweptYet, Early, Ours, Moves, Tasks,
    TasksTypeOK
<1>7. LateSwept' /\ SweepKnows'
  BY <1>1, AsidesApart DEF LateSwept, GivenUp, Moves, Tasks, TasksTypeOK, SweepKnows, Early,
    RecordTypeOK, Sweeps
<1>8. UnitWatched'
  BY <1>1 DEF UnitWatched, LookedAt, StopPending, StopStages, Moves, Tasks
<1>9. UnitOnRecord'
  BY <1>1 DEF UnitOnRecord, OnlyHere, OnRecord, S!CalledOff, StopPending, StopStages, Moves, Tasks,
     TasksTypeOK
<1>10. StoppedBefore'
  BY <1>1, FilmTyped DEF StoppedBefore, FilmOfAStart, Moves
<1> QED
  BY <1>2, <1>3, <1>4, <1>5, <1>6, <1>7, <1>8, <1>9, <1>10

\* The player knows its session.
LEMMA LaunchedKeeps ==
    ASSUME FilmStartInv, NEW n \in StartIds, Launched(n)
    PROVE  FilmStartInv'
<1> USE FilmStartAssumption DEF FilmStartInv, startVars, playVars, playerVars, shownVars,
          workerVars, taskVars, restVars
<1>1. /\ at[n] = "Launched" /\ Moves(n, "Check")
      /\ playing' = n
      /\ UNCHANGED <<startVars, playVars, pnum, unit, shownVars, workerVars, kind, held, listed, restVars>>
  BY GoMoves DEF Launched, Tasks, StartStages, AsideStages
<1>2. TasksTypeOK'
  BY <1>1 DEF TasksTypeOK, StartStages, AsideStages, OfHandoff, Moves, Tasks
<1>3. RecordTypeOK' /\ FollowersTypeOK'
  BY <1>1 DEF RecordTypeOK, FollowersTypeOK
<1>4. Counters' /\ CountersLinked'
  BY <1>1 DEF Counters, S!StartsTypeOK, S!NoneAheadOfItself, CountersLinked, Moves, Tasks
<1>5. WaysApart' /\ FilmOfAStart'
  BY <1>1, FilmTyped DEF WaysApart, Ours, OnKodi, Moves, Tasks, FilmOfAStart
<1>6. SessionsAccounted'
  BY <1>1, AsidesApart DEF SessionsAccounted, Accounted, SweptYet, Early, Ours, Moves, Tasks,
    TasksTypeOK
<1>7. LateSwept' /\ SweepKnows'
  BY <1>1, AsidesApart DEF LateSwept, GivenUp, Moves, Tasks, TasksTypeOK, SweepKnows, Early,
    RecordTypeOK, Sweeps
<1>8. UnitWatched'
  BY <1>1 DEF UnitWatched, LookedAt, StopPending, StopStages, Moves
<1>9. UnitOnRecord'
  BY <1>1 DEF UnitOnRecord, OnlyHere, OnRecord, S!CalledOff, StopPending, StopStages, Moves, Tasks,
     TasksTypeOK
<1>10. StoppedBefore'
  BY <1>1 DEF StoppedBefore, Moves
<1> QED
  BY <1>2, <1>3, <1>4, <1>5, <1>6, <1>7, <1>8, <1>9, <1>10

\* Not called off, the film goes on record with its follower; called off, it is taken back.
LEMMA CheckKeeps ==
    ASSUME FilmStartInv, NEW n \in StartIds, Check(n)
    PROVE  FilmStartInv'
<1> USE FilmStartAssumption DEF FilmStartInv, startVars, playVars, playerVars, shownVars,
          workerVars, taskVars, restVars
<1>1. /\ at[n] = "Check"
      /\ \/ S!CalledOff(n) /\ Moves(n, "UndoTake") /\ UNCHANGED <<next, film, posted, followers>>
         \/ /\ ~S!CalledOff(n) /\ Moves(n, "Over")
            /\ next' = next + 1 /\ posted' = posted \cup LetGo
            /\ film' # None /\ film' \in P!Film /\ ~film'.watch
            /\ film'.number = next' /\ film'.player = "Here" /\ film'.session = n
            /\ followers' = followers \cup {[film |-> next', here |-> pnum, phase |-> "Following"]}
      /\ UNCHANGED <<startVars, playerVars, shownVars, workerVars, kind, held, listed, sweep>>
  BY BeginReplaces, GoMoves DEF Check, Register, Tasks, StartStages, AsideStages
<1>2. TasksTypeOK'
  BY <1>1 DEF TasksTypeOK, StartStages, AsideStages, OfHandoff, Moves, Tasks
<1>3. RecordTypeOK' /\ FollowersTypeOK'
  <2>1. RecordTypeOK'
    BY <1>1, LetGoTyped DEF RecordTypeOK
  <2>2. FollowersTypeOK'
    BY <1>1 DEF FollowersTypeOK, RecordTypeOK, TasksTypeOK
  <2> QED BY <2>1, <2>2
<1>4. Counters' /\ CountersLinked'
  BY <1>1 DEF Counters, S!StartsTypeOK, S!NoneAheadOfItself, CountersLinked, Moves, Tasks
<1>5. WaysApart' /\ FilmOfAStart'
  BY <1>1, FilmTyped DEF WaysApart, Ours, OnKodi, Moves, Tasks, FilmOfAStart
<1>6. SessionsAccounted'
  BY <1>1, AsidesApart
     DEF LetGo, SessionsAccounted, Accounted, SweptYet, Early, Ours, Moves, Tasks, TasksTypeOK
<1>7. LateSwept' /\ SweepKnows'
  BY <1>1, AsidesApart DEF LateSwept, GivenUp, Moves, Tasks, TasksTypeOK, SweepKnows, Early,
    RecordTypeOK, Sweeps
<1>8. UnitWatched'
  <2>1. ~S!CalledOff(n) => calledOff < begun
    BY <1>1 DEF S!CalledOff, CountersLinked, Counters, S!StartsTypeOK, StartIds
  <2> QED
    BY <1>1, <2>1 DEF UnitWatched, LookedAt, StopPending, StopStages, Moves, Tasks
<1>9. UnitOnRecord'
  <2>1. CASE Moves(n, "UndoTake") /\ UNCHANGED <<film, followers>>
    BY <1>1, <2>1 DEF UnitOnRecord, OnlyHere, OnRecord, S!CalledOff, StopPending, StopStages,
       Moves, TasksTypeOK
  <2>2. CASE ~S!CalledOff(n) /\ Moves(n, "Over") /\ film'.session = n /\ film' # None
             /\ film'.number = next' /\ [film |-> next', here |-> pnum, phase |-> "Following"] \in followers'
    <3>1. unit = n => OnRecord(n)'
      BY <1>1, <2>2 DEF OnRecord, S!CalledOff
    <3>2. ASSUME unit # None, unit # n, OnRecord(unit) PROVE FALSE
      <4>1. unit \in StartIds /\ at[unit] \in {"Over", "Done"} /\ unit > calledOff
        BY <3>2 DEF OnRecord, FilmOfAStart, TasksTypeOK, S!CalledOff, StartIds, Counters, S!StartsTypeOK
      <4>2. unit - 1 <= calledOff /\ n - 1 <= calledOff /\ n > calledOff
        BY <1>1, <2>2, <4>1 DEF CountersLinked, S!CalledOff, StartIds, Counters, S!StartsTypeOK
      <4> QED
        BY <3>2, <4>1, <4>2 DEF StartIds, Counters, S!StartsTypeOK
    <3> QED
      BY <1>1, <3>1, <3>2 DEF UnitOnRecord, OnlyHere, StopPending, StopStages, Moves, Tasks, TasksTypeOK
  <2> QED BY <1>1, <2>1, <2>2
<1>10. StoppedBefore'
  BY <1>1 DEF StoppedBefore, Moves, TasksTypeOK, RecordTypeOK
<1> QED
  BY <1>2, <1>3, <1>4, <1>5, <1>6, <1>7, <1>8, <1>9, <1>10

\* The player lets go of what is taken back, or of what played before the interface returned.
LEMMA UndoTakeKeeps ==
    ASSUME FilmStartInv, NEW t \in Tasks, UndoTake(t)
    PROVE  FilmStartInv'
<1> USE FilmStartAssumption DEF FilmStartInv, startVars, playVars, playerVars, shownVars,
          workerVars, taskVars, restVars
<1>1. /\ at[t] \in {"UndoTake", "UiPlayer"}
      /\ \/ /\ at[t] = "UiPlayer" /\ UNCHANGED playerVars
            /\ (t \in StartIds /\ Moves(t, "Over")) \/ (t \notin StartIds /\ Moves(t, "Done"))
         \/ /\ playing' = None /\ pnum' = pnum + 1 /\ unit' = unit
            /\ \/ at[t] = "UndoTake" /\ Moves(t, "UndoUnit")
               \/ at[t] = "UiPlayer" /\ Moves(t, "UiUnit")
      /\ UNCHANGED <<startVars, playVars, shownVars, workerVars, kind, held, listed, restVars>>
  <2>1. \/ /\ at[t] = "UiPlayer" /\ UNCHANGED playerVars
           /\ (t \in StartIds /\ Go(t, "Over")) \/ (t \notin StartIds /\ Go(t, "Done"))
        \/ /\ playing' = None /\ pnum' = pnum + 1 /\ unit' = unit
           /\ \/ at[t] = "UndoTake" /\ Go(t, "UndoUnit")
              \/ at[t] = "UiPlayer" /\ Go(t, "UiUnit")
    BY DEF UndoTake, PlayerLetsGo, Over, Go
  <2> QED
    BY <2>1, GoMoves DEF UndoTake, PlayerLetsGo, Over, StartStages, AsideStages
<1>2. TasksTypeOK'
  BY <1>1, AsidesApart DEF TasksTypeOK, StartStages, AsideStages, OfHandoff, Moves, Tasks
<1>3. RecordTypeOK' /\ FollowersTypeOK'
  BY <1>1 DEF RecordTypeOK, FollowersTypeOK
<1>4. Counters' /\ CountersLinked'
  BY <1>1 DEF Counters, S!StartsTypeOK, S!NoneAheadOfItself, CountersLinked, Moves, Tasks
<1>5. WaysApart' /\ FilmOfAStart'
  BY <1>1, FilmTyped DEF WaysApart, Ours, OnKodi, Moves, Tasks, FilmOfAStart
<1>6. SessionsAccounted'
  BY <1>1, AsidesApart DEF SessionsAccounted, Accounted, SweptYet, Early, Ours, Moves, Tasks,
    TasksTypeOK
<1>7. LateSwept' /\ SweepKnows'
  BY <1>1, AsidesApart DEF LateSwept, GivenUp, Moves, Tasks, TasksTypeOK, SweepKnows, Early,
    RecordTypeOK, Sweeps
<1>8. UnitWatched'
  BY <1>1 DEF UnitWatched, LookedAt, StopPending, StopStages, Moves, Tasks
<1>9. UnitOnRecord'
  BY <1>1 DEF UnitOnRecord, OnlyHere, OnRecord, S!CalledOff, StopPending, StopStages, Moves, Tasks,
     TasksTypeOK
<1>10. StoppedBefore'
  BY <1>1 DEF StoppedBefore, Moves
<1> QED
  BY <1>2, <1>3, <1>4, <1>5, <1>6, <1>7, <1>8, <1>9, <1>10

\* The unit is stopped.
LEMMA UndoUnitKeeps ==
    ASSUME FilmStartInv, NEW t \in Tasks, UndoUnit(t)
    PROVE  FilmStartInv'
<1> USE FilmStartAssumption DEF FilmStartInv, startVars, playVars, playerVars, shownVars,
          workerVars, taskVars, restVars
<1>1. /\ unit' = None
      /\ \/ at[t] = "UndoUnit" /\ Moves(t, "GiveBack")
         \/ at[t] = "UiUnit" /\ t \in StartIds /\ Moves(t, "Over")
         \/ at[t] = "UiUnit" /\ t \notin StartIds /\ Moves(t, "Done")
      /\ UNCHANGED <<startVars, playVars, pnum, playing, shownVars, workerVars, kind, held, listed, restVars>>
  <2>1. \/ at[t] = "UndoUnit" /\ Go(t, "GiveBack")
        \/ at[t] = "UiUnit" /\ t \in StartIds /\ Go(t, "Over")
        \/ at[t] = "UiUnit" /\ t \notin StartIds /\ Go(t, "Done")
    BY DEF UndoUnit, Over, Go
  <2> QED
    BY <2>1, GoMoves DEF UndoUnit, Over, StartStages, AsideStages
<1>2. TasksTypeOK'
  BY <1>1, AsidesApart DEF TasksTypeOK, StartStages, AsideStages, OfHandoff, Moves, Tasks
<1>3. RecordTypeOK' /\ FollowersTypeOK'
  BY <1>1 DEF RecordTypeOK, FollowersTypeOK
<1>4. Counters' /\ CountersLinked'
  BY <1>1 DEF Counters, S!StartsTypeOK, S!NoneAheadOfItself, CountersLinked, Moves, Tasks
<1>5. WaysApart' /\ FilmOfAStart'
  BY <1>1, FilmTyped DEF WaysApart, Ours, OnKodi, Moves, Tasks, FilmOfAStart
<1>6. SessionsAccounted'
  BY <1>1, AsidesApart DEF SessionsAccounted, Accounted, SweptYet, Early, Ours, Moves, Tasks,
    TasksTypeOK
<1>7. LateSwept' /\ SweepKnows'
  BY <1>1, AsidesApart DEF LateSwept, GivenUp, Moves, Tasks, TasksTypeOK, SweepKnows, Early,
    RecordTypeOK, Sweeps
<1>8. UnitWatched'
  BY <1>1 DEF UnitWatched, LookedAt, StopPending, StopStages
<1>9. UnitOnRecord'
  BY <1>1 DEF UnitOnRecord, OnlyHere, OnRecord, S!CalledOff, StopPending, StopStages
<1>10. StoppedBefore'
  BY <1>1 DEF StoppedBefore
<1> QED
  BY <1>2, <1>3, <1>4, <1>5, <1>6, <1>7, <1>8, <1>9, <1>10

\* The session goes back to the worker.
LEMMA GiveBackKeeps ==
    ASSUME FilmStartInv, NEW n \in StartIds, GiveBack(n)
    PROVE  FilmStartInv'
<1> USE FilmStartAssumption DEF FilmStartInv, startVars, playVars, playerVars, shownVars,
          workerVars, taskVars, restVars
<1>1. /\ at[n] = "GiveBack" /\ Moves(n, "Over")
      /\ sessions' = sessions \ {n}
      /\ UNCHANGED <<startVars, playVars, playerVars, shownVars, late, kind, held, listed, restVars>>
  BY GoMoves DEF GiveBack, Tasks, StartStages, AsideStages
<1>2. TasksTypeOK'
  BY <1>1 DEF TasksTypeOK, StartStages, AsideStages, OfHandoff, Moves, Tasks
<1>3. RecordTypeOK' /\ FollowersTypeOK'
  BY <1>1 DEF RecordTypeOK, FollowersTypeOK
<1>4. Counters' /\ CountersLinked'
  BY <1>1 DEF Counters, S!StartsTypeOK, S!NoneAheadOfItself, CountersLinked, Moves, Tasks
<1>5. WaysApart' /\ FilmOfAStart'
  BY <1>1, FilmTyped DEF WaysApart, Ours, OnKodi, Moves, Tasks, FilmOfAStart
<1>6. SessionsAccounted'
  BY <1>1 DEF SessionsAccounted, Accounted, SweptYet, Ours, Moves, Tasks, TasksTypeOK
<1>7. LateSwept' /\ SweepKnows'
  BY <1>1, AsidesApart DEF LateSwept, GivenUp, Moves, Tasks, TasksTypeOK, SweepKnows, Early,
    RecordTypeOK, Sweeps
<1>8. UnitWatched'
  BY <1>1 DEF UnitWatched, LookedAt, StopPending, StopStages, Moves, Tasks
<1>9. UnitOnRecord'
  BY <1>1 DEF UnitOnRecord, OnlyHere, OnRecord, S!CalledOff, StopPending, StopStages, Moves, Tasks,
     TasksTypeOK
<1>10. StoppedBefore'
  BY <1>1 DEF StoppedBefore, Moves
<1> QED
  BY <1>2, <1>3, <1>4, <1>5, <1>6, <1>7, <1>8, <1>9, <1>10

\* The start is over.
LEMMA EndStartKeeps ==
    ASSUME FilmStartInv, NEW n \in StartIds, EndStart(n)
    PROVE  FilmStartInv'
<1> USE FilmStartAssumption DEF FilmStartInv, startVars, playVars, playerVars, shownVars,
          workerVars, taskVars, restVars
<1>1. /\ S!EndStart(n) /\ at[n] = "Over" /\ Moves(n, "Done")
      /\ underway' = underway \ {n} /\ UNCHANGED <<begun, calledOff, numbered, counted, backs>>
      /\ UNCHANGED <<playVars, playerVars, shownVars, workerVars, kind, held, listed, restVars>>
  BY GoMoves DEF EndStart, S!EndStart, Tasks, StartStages, AsideStages
<1>2. TasksTypeOK'
  BY <1>1 DEF TasksTypeOK, StartStages, AsideStages, OfHandoff, Moves, Tasks
<1>3. RecordTypeOK' /\ FollowersTypeOK'
  BY <1>1 DEF RecordTypeOK, FollowersTypeOK
<1>4. Counters' /\ CountersLinked'
  BY <1>1, EndStartCounts DEF CountersLinked, Moves, Tasks
<1>5. WaysApart' /\ FilmOfAStart'
  BY <1>1, FilmTyped DEF WaysApart, Ours, OnKodi, Moves, Tasks, FilmOfAStart
<1>6. SessionsAccounted'
  BY <1>1, AsidesApart DEF SessionsAccounted, Accounted, SweptYet, Early, Ours, Moves, Tasks,
    TasksTypeOK
<1>7. LateSwept' /\ SweepKnows'
  BY <1>1, AsidesApart DEF LateSwept, GivenUp, Moves, Tasks, TasksTypeOK, SweepKnows, Early,
    RecordTypeOK, Sweeps
<1>8. UnitWatched'
  BY <1>1 DEF UnitWatched, LookedAt, StopPending, StopStages, Moves, Tasks
<1>9. UnitOnRecord'
  BY <1>1 DEF UnitOnRecord, OnlyHere, OnRecord, S!CalledOff, StopPending, StopStages, Moves, Tasks,
     TasksTypeOK
<1>10. StoppedBefore'
  BY <1>1 DEF StoppedBefore, Moves
<1> QED
  BY <1>2, <1>3, <1>4, <1>5, <1>6, <1>7, <1>8, <1>9, <1>10

----------------------------------------------------------------------------
(* The film on Kodi.                                                        *)

\* The display changes hands, and what plays here goes with the interface.
LEMMA SwitchToKodiKeeps ==
    ASSUME FilmStartInv, NEW t \in Tasks, SwitchToKodi(t)
    PROVE  FilmStartInv'
<1> USE FilmStartAssumption DEF FilmStartInv, startVars, playVars, playerVars, shownVars,
          workerVars, taskVars, restVars
<1>1. /\ unit' = None
      /\ \/ at[t] = "Opening" /\ t \in StartIds /\ kind[t] = "Kodi" /\ Moves(t, "OpeningSwitched")
         \/ at[t] = "KodiOpened" /\ t \in StartIds /\ Moves(t, "KodiResolved")
         \/ at[t] = "Switching" /\ t = Handoff /\ t \notin StartIds /\ Moves(t, "KodiOpens")
      /\ UNCHANGED <<startVars, playVars, pnum, playing, workerVars, kind, held, listed, restVars>>
  <2>1. t \in StartIds => at[t] # "Switching"
    BY DEF TasksTypeOK, StartStages
  <2>2. at[t] = "Switching" => t = Handoff /\ t \notin StartIds
    BY <2>1 DEF Tasks, TasksTypeOK, OfHandoff
  <2>3. \/ at[t] = "Opening" /\ t \in StartIds /\ kind[t] = "Kodi" /\ Go(t, "OpeningSwitched")
        \/ at[t] = "KodiOpened" /\ t \in StartIds /\ Go(t, "KodiResolved")
        \/ at[t] = "Switching" /\ Go(t, "KodiOpens")
    BY <2>1 DEF SwitchToKodi, Go
  <2> QED
    BY <2>2, <2>3, GoMoves DEF SwitchToKodi, StartStages, AsideStages
<1>2. TasksTypeOK'
  BY <1>1 DEF TasksTypeOK, StartStages, AsideStages, OfHandoff, Moves, Tasks
<1>3. RecordTypeOK' /\ FollowersTypeOK'
  BY <1>1 DEF RecordTypeOK, FollowersTypeOK
<1>4. Counters' /\ CountersLinked'
  BY <1>1 DEF Counters, S!StartsTypeOK, S!NoneAheadOfItself, CountersLinked, Moves, Tasks
<1>5. WaysApart' /\ FilmOfAStart'
  BY <1>1, FilmTyped DEF WaysApart, Ours, OnKodi, Moves, Tasks, FilmOfAStart
<1>6. SessionsAccounted'
  BY <1>1, AsidesApart DEF SessionsAccounted, Accounted, SweptYet, Early, Ours, Moves, Tasks,
    TasksTypeOK
<1>7. LateSwept' /\ SweepKnows'
  BY <1>1, AsidesApart DEF LateSwept, GivenUp, Moves, Tasks, TasksTypeOK, SweepKnows, Early,
    RecordTypeOK, Sweeps
<1>8. UnitWatched'
  BY <1>1 DEF UnitWatched, LookedAt, StopPending, StopStages
<1>9. UnitOnRecord'
  BY <1>1 DEF UnitOnRecord, OnlyHere, OnRecord, S!CalledOff, StopPending, StopStages
<1>10. StoppedBefore'
  BY <1>1 DEF StoppedBefore
<1> QED
  BY <1>2, <1>3, <1>4, <1>5, <1>6, <1>7, <1>8, <1>9, <1>10

\* The display does not change hands.
LEMMA SwitchFailsKeeps ==
    ASSUME FilmStartInv, NEW t \in Tasks, SwitchFails(t)
    PROVE  FilmStartInv'
<1> USE FilmStartAssumption DEF FilmStartInv, startVars, playVars, playerVars, shownVars,
          workerVars, taskVars, restVars
<1>1. /\ \/ at[t] = "KodiOpened" /\ t \in StartIds /\ Moves(t, "GiveBack")
         \/ at[t] = "Switching" /\ t \notin StartIds /\ Moves(t, "BackToUi")
      /\ UNCHANGED <<startVars, playVars, playerVars, shownVars, workerVars, kind, held, listed, restVars>>
  <2>1. at[t] = "KodiOpened" => t \in StartIds /\ t # Handoff
    BY AsidesApart DEF Tasks, TasksTypeOK, AsideStages
  <2>2. at[t] = "Switching" => t = Handoff /\ t \notin StartIds
    BY DEF Tasks, TasksTypeOK, StartStages, OfHandoff
  <2>3. \/ at[t] = "KodiOpened" /\ Go(t, "GiveBack")
        \/ at[t] = "Switching" /\ Go(t, "BackToUi")
    BY <2>1, <2>2 DEF SwitchFails, KodiRefused, Go
  <2> QED
    BY <2>1, <2>2, <2>3, GoMoves DEF SwitchFails, StartStages, AsideStages
<1>2. TasksTypeOK'
  BY <1>1 DEF TasksTypeOK, StartStages, AsideStages, OfHandoff, Moves, Tasks
<1>3. RecordTypeOK' /\ FollowersTypeOK'
  BY <1>1 DEF RecordTypeOK, FollowersTypeOK
<1>4. Counters' /\ CountersLinked'
  BY <1>1 DEF Counters, S!StartsTypeOK, S!NoneAheadOfItself, CountersLinked, Moves, Tasks
<1>5. WaysApart' /\ FilmOfAStart'
  BY <1>1, FilmTyped DEF WaysApart, Ours, OnKodi, Moves, Tasks, FilmOfAStart
<1>6. SessionsAccounted'
  BY <1>1, AsidesApart DEF SessionsAccounted, Accounted, SweptYet, Early, Ours, Moves, Tasks,
    TasksTypeOK
<1>7. LateSwept' /\ SweepKnows'
  BY <1>1, AsidesApart DEF LateSwept, GivenUp, Moves, Tasks, TasksTypeOK, SweepKnows, Early,
    RecordTypeOK, Sweeps
<1>8. UnitWatched'
  BY <1>1 DEF UnitWatched, LookedAt, StopPending, StopStages, Moves, Tasks
<1>9. UnitOnRecord'
  BY <1>1 DEF UnitOnRecord, OnlyHere, OnRecord, S!CalledOff, StopPending, StopStages, Moves, Tasks,
     TasksTypeOK
<1>10. StoppedBefore'
  BY <1>1 DEF StoppedBefore, Moves
<1> QED
  BY <1>2, <1>3, <1>4, <1>5, <1>6, <1>7, <1>8, <1>9, <1>10

\* Kodi is to be given the source, or the session.
LEMMA KodiResolvedKeeps ==
    ASSUME FilmStartInv, NEW n \in StartIds, NEW resolved \in BOOLEAN, KodiResolved(n, resolved)
    PROVE  FilmStartInv'
<1> USE FilmStartAssumption DEF FilmStartInv, startVars, playVars, playerVars, shownVars,
          workerVars, taskVars, restVars
<1>1. /\ at[n] = "KodiResolved" /\ Moves(n, "KodiOpens")
      /\ \/ sessions' = sessions \ {n}
         \/ sessions' = sessions /\ held'[n].session = n
      /\ held'[n].session \in {None, n}
      /\ held' \in [Tasks -> [film : Nat \cup {None}, session : StartIds \cup {None}]]
      /\ held'[n].film = None /\ \A u \in Tasks : u # n => held'[u] = held[u]
      /\ UNCHANGED <<startVars, playVars, playerVars, shownVars, late, kind, listed, restVars>>
  BY GoMoves DEF KodiResolved, TasksTypeOK, Tasks, StartStages, AsideStages
<1>2. TasksTypeOK'
  BY <1>1 DEF TasksTypeOK, StartStages, AsideStages, OfHandoff, Moves, Tasks
<1>3. RecordTypeOK' /\ FollowersTypeOK'
  BY <1>1 DEF RecordTypeOK, FollowersTypeOK
<1>4. Counters' /\ CountersLinked'
  BY <1>1 DEF Counters, S!StartsTypeOK, S!NoneAheadOfItself, CountersLinked, Moves, Tasks
<1>5. WaysApart' /\ FilmOfAStart'
  BY <1>1, FilmTyped DEF WaysApart, Ours, OnKodi, Moves, Tasks, FilmOfAStart
<1>6. SessionsAccounted'
  BY <1>1, AsidesApart DEF SessionsAccounted, Accounted, SweptYet, Early, Ours, Moves, Tasks,
    TasksTypeOK
<1>7. LateSwept' /\ SweepKnows'
  BY <1>1, AsidesApart DEF LateSwept, GivenUp, Moves, Tasks, TasksTypeOK, SweepKnows, Early,
    RecordTypeOK, Sweeps
<1>8. UnitWatched'
  BY <1>1 DEF UnitWatched, LookedAt, StopPending, StopStages, Moves, Tasks
<1>9. UnitOnRecord'
  BY <1>1 DEF UnitOnRecord, OnlyHere, OnRecord, S!CalledOff, StopPending, StopStages, Moves, Tasks,
     TasksTypeOK
<1>10. StoppedBefore'
  BY <1>1 DEF StoppedBefore, Moves
<1> QED
  BY <1>2, <1>3, <1>4, <1>5, <1>6, <1>7, <1>8, <1>9, <1>10

\* Kodi is given the film, or could not be.
LEMMA KodiOpensKeeps ==
    ASSUME FilmStartInv, NEW t \in Tasks, KodiOpens(t)
    PROVE  FilmStartInv'
<1> USE FilmStartAssumption DEF FilmStartInv, startVars, playVars, playerVars, shownVars,
          workerVars, taskVars, restVars
<1>1. /\ at[t] = "KodiOpens"
      /\ \/ Moves(t, "KodiRegister")
         \/ t \in StartIds /\ Moves(t, "GiveBack")
         \/ t \notin StartIds /\ Moves(t, "BackToUi")
      /\ UNCHANGED <<startVars, playVars, playerVars, workerVars, kind, held, listed, restVars>>
  <2>1. t = Handoff \/ t \in StartIds
    BY DEF KodiOpens, Tasks, TasksTypeOK, OfHandoff
  <2>2. Go(t, "KodiRegister") \/ Go(t, KodiRefused(t))
    BY DEF KodiOpens
  <2>3. KodiRefused(t) = IF t \in StartIds THEN "GiveBack" ELSE "BackToUi"
    BY <2>1, AsidesApart DEF KodiRefused
  <2> QED
    BY <2>2, <2>3, GoMoves DEF KodiOpens, StartStages, AsideStages
<1>2. TasksTypeOK'
  BY <1>1, AsidesApart DEF TasksTypeOK, StartStages, AsideStages, OfHandoff, Moves, Tasks
<1>3. RecordTypeOK' /\ FollowersTypeOK'
  BY <1>1 DEF RecordTypeOK, FollowersTypeOK
<1>4. Counters' /\ CountersLinked'
  BY <1>1 DEF Counters, S!StartsTypeOK, S!NoneAheadOfItself, CountersLinked, Moves, Tasks
<1>5. WaysApart' /\ FilmOfAStart'
  BY <1>1, FilmTyped DEF WaysApart, Ours, OnKodi, Moves, Tasks, FilmOfAStart
<1>6. SessionsAccounted'
  BY <1>1, AsidesApart DEF SessionsAccounted, Accounted, SweptYet, Early, Ours, Moves, Tasks,
    TasksTypeOK
<1>7. LateSwept' /\ SweepKnows'
  BY <1>1, AsidesApart DEF LateSwept, GivenUp, Moves, Tasks, TasksTypeOK, SweepKnows, Early,
    RecordTypeOK, Sweeps
<1>8. UnitWatched'
  BY <1>1 DEF UnitWatched, LookedAt, StopPending, StopStages, Moves, Tasks
<1>9. UnitOnRecord'
  BY <1>1 DEF UnitOnRecord, OnlyHere, OnRecord, S!CalledOff, StopPending, StopStages, Moves, Tasks,
     TasksTypeOK
<1>10. StoppedBefore'
  BY <1>1 DEF StoppedBefore, Moves
<1> QED
  BY <1>2, <1>3, <1>4, <1>5, <1>6, <1>7, <1>8, <1>9, <1>10

\* The film goes on record.
LEMMA KodiRegisterKeeps ==
    ASSUME FilmStartInv, NEW t \in Tasks, KodiRegister(t)
    PROVE  FilmStartInv'
<1> USE FilmStartAssumption DEF FilmStartInv, startVars, playVars, playerVars, shownVars,
          workerVars, taskVars, restVars
<1>1. /\ at[t] = "KodiRegister"
      /\ next' = next + 1 /\ posted' = posted \cup LetGo
      /\ film' # None /\ film' \in P!Film /\ ~film'.watch
      /\ film'.number = next' /\ film'.player = "Kodi"
      /\ \/ t = Handoff /\ t \notin StartIds /\ film'.session = None /\ Moves(t, "Done")
         \/ t \in StartIds /\ film'.session = held[t].session /\ Moves(t, "Over")
      /\ UNCHANGED <<startVars, playerVars, shownVars, workerVars, kind, held, listed, restVars>>
  <2>1. \/ t = Handoff /\ t \notin StartIds
        \/ t # Handoff /\ t \in StartIds /\ held[t].session \in StartIds \cup {None}
    BY AsidesApart DEF KodiRegister, Tasks, TasksTypeOK, OfHandoff
  <2>2. Go(t, IF t \in StartIds THEN "Over" ELSE "Done")
    BY DEF KodiRegister, Over
  <2>3. CASE t = Handoff
    BY <2>1, <2>2, <2>3, BeginReplaces, GoMoves DEF KodiRegister, StartStages, AsideStages
  <2>4. CASE t # Handoff
    BY <2>1, <2>2, <2>4, BeginReplaces, GoMoves DEF KodiRegister, StartStages, AsideStages
  <2> QED BY <2>3, <2>4
<1>2. TasksTypeOK'
  BY <1>1, AsidesApart DEF TasksTypeOK, StartStages, AsideStages, OfHandoff, Moves, Tasks
<1>3. RecordTypeOK' /\ FollowersTypeOK'
  <2>1. RecordTypeOK'
    BY <1>1, LetGoTyped DEF RecordTypeOK
  <2>2. FollowersTypeOK'
    BY <1>1 DEF FollowersTypeOK, RecordTypeOK
  <2> QED BY <2>1, <2>2
<1>4. Counters' /\ CountersLinked'
  BY <1>1 DEF Counters, S!StartsTypeOK, S!NoneAheadOfItself, CountersLinked, Moves, Tasks
<1>5. WaysApart' /\ FilmOfAStart'
  BY <1>1, FilmTyped DEF WaysApart, Ours, OnKodi, Moves, Tasks, FilmOfAStart
<1>6. SessionsAccounted'
  BY <1>1, AsidesApart
     DEF LetGo, SessionsAccounted, Accounted, SweptYet, Early, Ours, Moves, Tasks, TasksTypeOK, WaysApart
<1>7. LateSwept' /\ SweepKnows'
  BY <1>1, AsidesApart DEF LateSwept, GivenUp, Moves, Tasks, TasksTypeOK, SweepKnows, Early, RecordTypeOK,
    Sweeps, WaysApart
<1>8. UnitWatched'
  BY <1>1 DEF UnitWatched, LookedAt, StopPending, StopStages, Moves, Tasks
<1>9. UnitOnRecord'
  <2>1. ~OnlyHere
    <3>1. CASE t = Handoff
      BY <1>1, <3>1, AsidesApart DEF OnlyHere, Tasks
    <3>2. CASE t \in StartIds
      BY <1>1, <3>2 DEF OnlyHere, WaysApart, OnKodi, CountersLinked, Counters, S!StartsTypeOK, StartIds
    <3> QED BY <1>1, <3>1, <3>2
  <2>2. OnlyHere' => OnlyHere
    BY <1>1 DEF OnlyHere, Moves, Tasks
  <2> QED
    BY <2>1, <2>2 DEF UnitOnRecord
<1>10. StoppedBefore'
  BY <1>1 DEF StoppedBefore, TasksTypeOK, RecordTypeOK
<1> QED
  BY <1>2, <1>3, <1>4, <1>5, <1>6, <1>7, <1>8, <1>9, <1>10

\* The interface gets the display back.
LEMMA BackToUiKeeps ==
    ASSUME FilmStartInv, NEW t \in Tasks, BackToUi(t)
    PROVE  FilmStartInv'
<1> USE FilmStartAssumption DEF FilmStartInv, startVars, playVars, playerVars, shownVars,
          workerVars, taskVars, restVars
<1>1. /\ at[t] = "BackToUi"
      /\ \/ Moves(t, "UiListing")
         \/ t \in StartIds /\ Moves(t, "Over")
         \/ t \notin StartIds /\ Moves(t, "Done")
      /\ UNCHANGED <<startVars, playVars, playerVars, workerVars, kind, held, listed, restVars>>
  <2>1. \/ Go(t, "UiListing")
        \/ t \in StartIds /\ Go(t, "Over")
        \/ t \notin StartIds /\ Go(t, "Done")
    BY DEF BackToUi, Over, Go
  <2> QED
    BY <2>1, GoMoves DEF BackToUi, StartStages, AsideStages
<1>2. TasksTypeOK'
  BY <1>1, AsidesApart DEF TasksTypeOK, StartStages, AsideStages, OfHandoff, Moves, Tasks
<1>3. RecordTypeOK' /\ FollowersTypeOK'
  BY <1>1 DEF RecordTypeOK, FollowersTypeOK
<1>4. Counters' /\ CountersLinked'
  BY <1>1 DEF Counters, S!StartsTypeOK, S!NoneAheadOfItself, CountersLinked, Moves, Tasks
<1>5. WaysApart' /\ FilmOfAStart'
  BY <1>1, FilmTyped DEF WaysApart, Ours, OnKodi, Moves, Tasks, FilmOfAStart
<1>6. SessionsAccounted'
  BY <1>1, AsidesApart DEF SessionsAccounted, Accounted, SweptYet, Early, Ours, Moves, Tasks,
    TasksTypeOK
<1>7. LateSwept' /\ SweepKnows'
  BY <1>1, AsidesApart DEF LateSwept, GivenUp, Moves, Tasks, TasksTypeOK, SweepKnows, Early,
    RecordTypeOK, Sweeps
<1>8. UnitWatched'
  BY <1>1 DEF UnitWatched, LookedAt, StopPending, StopStages, Moves, Tasks
<1>9. UnitOnRecord'
  BY <1>1 DEF UnitOnRecord, OnlyHere, OnRecord, S!CalledOff, StopPending, StopStages, Moves, Tasks,
     TasksTypeOK
<1>10. StoppedBefore'
  BY <1>1 DEF StoppedBefore, Moves
<1> QED
  BY <1>2, <1>3, <1>4, <1>5, <1>6, <1>7, <1>8, <1>9, <1>10

\* Kodi's film is over.
LEMMA KodiFollowsKeeps ==
    ASSUME FilmStartInv, KodiFollows
    PROVE  FilmStartInv'
<1> USE FilmStartAssumption DEF FilmStartInv, startVars, playVars, playerVars, shownVars,
          workerVars, taskVars, restVars
<1>1. /\ film # None /\ film.player = "Kodi"
      /\ film' = None /\ next' = next /\ posted' = posted \cup LetGo
      /\ UNCHANGED <<startVars, playerVars, workerVars, taskVars, restVars>>
  BY FinishEnds DEF KodiFollows
<1>2. TasksTypeOK'
  BY <1>1 DEF TasksTypeOK, StartStages, AsideStages, OfHandoff
<1>3. RecordTypeOK' /\ FollowersTypeOK'
  BY <1>1, LetGoTyped DEF RecordTypeOK, FollowersTypeOK
<1>4. Counters' /\ CountersLinked'
  BY <1>1 DEF Counters, S!StartsTypeOK, S!NoneAheadOfItself, CountersLinked
<1>5. WaysApart' /\ FilmOfAStart'
  BY <1>1, FilmTyped DEF WaysApart, Ours, OnKodi, FilmOfAStart
<1>6. SessionsAccounted'
  BY <1>1, AsidesApart DEF LetGo, SessionsAccounted, Accounted, SweptYet, Ours, TasksTypeOK
<1>7. LateSwept' /\ SweepKnows'
  BY <1>1 DEF LateSwept, SweepKnows
<1>8. UnitWatched'
  BY <1>1 DEF UnitWatched, LookedAt, StopPending, StopStages
<1>9. UnitOnRecord'
  <2>1. ASSUME OnlyHere, unit # None, OnRecord(unit) PROVE FALSE
    <3>1. unit \in StartIds /\ kind[unit] = "Kodi" /\ unit <= begun
      BY <1>1, <2>1 DEF OnRecord, FilmOfAStart, TasksTypeOK, CountersLinked, Counters, S!StartsTypeOK, StartIds
    <3> QED
      BY <2>1, <3>1 DEF OnlyHere, StartIds, Counters, S!StartsTypeOK
  <2> QED
    BY <1>1, <2>1 DEF UnitOnRecord, OnlyHere, StopPending, StopStages
<1>10. StoppedBefore'
  BY <1>1 DEF StoppedBefore
<1> QED
  BY <1>2, <1>3, <1>4, <1>5, <1>6, <1>7, <1>8, <1>9, <1>10

----------------------------------------------------------------------------
(* Back, the television's other source, and a film handed to Kodi.          *)

\* Back reads which start is the last.
LEMMA PressBackKeeps ==
    ASSUME FilmStartInv, PressBack
    PROVE  FilmStartInv'
<1> USE FilmStartAssumption DEF FilmStartInv, startVars, playVars, playerVars, shownVars,
          workerVars, taskVars, restVars
<1>1. /\ Back \in Asides /\ at[Back] = "Idle" /\ Moves(Back, "CallingOff")
      /\ backs' = backs \cup {begun} /\ UNCHANGED <<begun, busy, calledOff, numbered, counted, underway>>
      /\ UNCHANGED <<playVars, playerVars, shownVars, workerVars, kind, held, listed, restVars>>
  BY GoMoves DEF PressBack, Asked, S!ReadBegun, Tasks, StartStages, AsideStages
<1>2. TasksTypeOK'
  BY <1>1, AsidesApart DEF TasksTypeOK, StartStages, AsideStages, OfHandoff, Moves, Tasks
<1>3. RecordTypeOK' /\ FollowersTypeOK'
  BY <1>1 DEF RecordTypeOK, FollowersTypeOK
<1>4. Counters' /\ CountersLinked'
  BY <1>1 DEF Counters, S!StartsTypeOK, S!NoneAheadOfItself, CountersLinked, Moves, Tasks
<1>5. WaysApart' /\ FilmOfAStart'
  BY <1>1, FilmTyped DEF WaysApart, Ours, OnKodi, Moves, Tasks, FilmOfAStart
<1>6. SessionsAccounted'
  BY <1>1, AsidesApart DEF SessionsAccounted, Accounted, SweptYet, Early, Ours, Moves, Tasks,
    TasksTypeOK
<1>7. LateSwept' /\ SweepKnows'
  BY <1>1, AsidesApart DEF LateSwept, GivenUp, Moves, Tasks, TasksTypeOK, SweepKnows, Early,
    RecordTypeOK, Sweeps
<1>8. UnitWatched'
  BY <1>1 DEF UnitWatched, LookedAt, StopPending, StopStages, Moves, Tasks
<1>9. UnitOnRecord'
  BY <1>1 DEF UnitOnRecord, OnlyHere, OnRecord, S!CalledOff, StopPending, StopStages, Moves, Tasks,
     TasksTypeOK
<1>10. StoppedBefore'
  BY <1>1 DEF StoppedBefore, Moves
<1> QED
  BY <1>2, <1>3, <1>4, <1>5, <1>6, <1>7, <1>8, <1>9, <1>10

\* Back calls off what it has read.
LEMMA BackCallsOffKeeps ==
    ASSUME FilmStartInv, BackCallsOff
    PROVE  FilmStartInv'
<1> USE FilmStartAssumption DEF FilmStartInv, startVars, playVars, playerVars, shownVars,
          workerVars, taskVars, restVars
<1>1. /\ Counters' /\ calledOff' \in Nat /\ calledOff' >= calledOff
      /\ at[Back] = "CallingOff" /\ Back \in Asides /\ Moves(Back, "Stopping")
      /\ UNCHANGED <<begun, busy, numbered, counted, underway>>
      /\ UNCHANGED <<playVars, playerVars, shownVars, workerVars, kind, held, listed, restVars>>
  BY CallOffReadCounts, GoMoves DEF BackCallsOff, S!CallOffRead, Tasks, StartStages, AsideStages
<1>2. TasksTypeOK'
  BY <1>1 DEF TasksTypeOK, StartStages, AsideStages, OfHandoff, Moves, Tasks
<1>3. RecordTypeOK' /\ FollowersTypeOK'
  BY <1>1 DEF RecordTypeOK, FollowersTypeOK
<1>4. Counters' /\ CountersLinked'
  BY <1>1 DEF Counters, S!StartsTypeOK, CountersLinked, Moves, Tasks, StartIds
<1>5. WaysApart' /\ FilmOfAStart'
  BY <1>1, FilmTyped DEF WaysApart, Ours, OnKodi, Moves, Tasks, FilmOfAStart
<1>6. SessionsAccounted'
  BY <1>1, AsidesApart DEF SessionsAccounted, Accounted, SweptYet, Ours, Moves, Tasks, TasksTypeOK
<1>7. LateSwept' /\ SweepKnows'
  BY <1>1, AsidesApart DEF LateSwept, Moves, Tasks, TasksTypeOK, SweepKnows, RecordTypeOK, Sweeps
<1>8. UnitWatched'
  BY <1>1 DEF UnitWatched, LookedAt, StopPending, StopStages, Moves, Tasks
<1>9. UnitOnRecord'
  BY <1>1 DEF UnitOnRecord, OnlyHere, OnRecord, S!CalledOff, StopPending, StopStages, Moves,
     TasksTypeOK
<1>10. StoppedBefore'
  BY <1>1 DEF StoppedBefore, Moves
<1> QED
  BY <1>2, <1>3, <1>4, <1>5, <1>6, <1>7, <1>8, <1>9, <1>10

\* The television left: what plays is stopped.
LEMMA LoseSourceKeeps ==
    ASSUME FilmStartInv, LoseSource
    PROVE  FilmStartInv'
<1> USE FilmStartAssumption DEF FilmStartInv, startVars, playVars, playerVars, shownVars,
          workerVars, taskVars, restVars
<1>1. /\ SourceLost \in Asides /\ at[SourceLost] = "Idle"
      /\ \/ Moves(SourceLost, "Stopping")
         \/ Moves(SourceLost, "Stopped")
      /\ UNCHANGED <<startVars, playVars, playerVars, shownVars, workerVars, kind, held, listed, restVars>>
  BY GoMoves DEF LoseSource, Asked, Tasks, StartStages, AsideStages
<1>2. TasksTypeOK'
  BY <1>1, AsidesApart DEF TasksTypeOK, StartStages, AsideStages, OfHandoff, Moves, Tasks
<1>3. RecordTypeOK' /\ FollowersTypeOK'
  BY <1>1 DEF RecordTypeOK, FollowersTypeOK
<1>4. Counters' /\ CountersLinked'
  BY <1>1 DEF Counters, S!StartsTypeOK, S!NoneAheadOfItself, CountersLinked, Moves, Tasks
<1>5. WaysApart' /\ FilmOfAStart'
  BY <1>1, FilmTyped DEF WaysApart, Ours, OnKodi, Moves, Tasks, FilmOfAStart
<1>6. SessionsAccounted'
  BY <1>1, AsidesApart DEF SessionsAccounted, Accounted, SweptYet, Early, Ours, Moves, Tasks,
    TasksTypeOK
<1>7. LateSwept' /\ SweepKnows'
  BY <1>1, AsidesApart DEF LateSwept, GivenUp, Moves, Tasks, TasksTypeOK, SweepKnows, Early,
    RecordTypeOK, Sweeps
<1>8. UnitWatched'
  BY <1>1 DEF UnitWatched, LookedAt, StopPending, StopStages, Moves, Tasks
<1>9. UnitOnRecord'
  BY <1>1 DEF UnitOnRecord, OnlyHere, OnRecord, S!CalledOff, StopPending, StopStages, Moves, Tasks,
     TasksTypeOK
<1>10. StoppedBefore'
  BY <1>1 DEF StoppedBefore, Moves
<1> QED
  BY <1>2, <1>3, <1>4, <1>5, <1>6, <1>7, <1>8, <1>9, <1>10

\* Kodi is to stop too, if it is there.
LEMMA StandByKeeps ==
    ASSUME FilmStartInv, StandBy
    PROVE  FilmStartInv'
<1> USE FilmStartAssumption DEF FilmStartInv, startVars, playVars, playerVars, shownVars,
          workerVars, taskVars, restVars
<1>1. /\ SourceLost \in Asides /\ at[SourceLost] = "Stopped"
      /\ \/ Moves(SourceLost, "KodiStops")
         \/ Moves(SourceLost, "Done")
      /\ UNCHANGED <<startVars, playVars, playerVars, shownVars, workerVars, kind, held, listed, restVars>>
  BY GoMoves DEF StandBy, Tasks, StartStages, AsideStages
<1>2. TasksTypeOK'
  BY <1>1 DEF TasksTypeOK, StartStages, AsideStages, OfHandoff, Moves, Tasks
<1>3. RecordTypeOK' /\ FollowersTypeOK'
  BY <1>1 DEF RecordTypeOK, FollowersTypeOK
<1>4. Counters' /\ CountersLinked'
  BY <1>1 DEF Counters, S!StartsTypeOK, S!NoneAheadOfItself, CountersLinked, Moves, Tasks
<1>5. WaysApart' /\ FilmOfAStart'
  BY <1>1, FilmTyped DEF WaysApart, Ours, OnKodi, Moves, Tasks, FilmOfAStart
<1>6. SessionsAccounted'
  BY <1>1, AsidesApart DEF SessionsAccounted, Accounted, SweptYet, Early, Ours, Moves, Tasks,
    TasksTypeOK
<1>7. LateSwept' /\ SweepKnows'
  BY <1>1, AsidesApart DEF LateSwept, GivenUp, Moves, Tasks, TasksTypeOK, SweepKnows, Early,
    RecordTypeOK, Sweeps
<1>8. UnitWatched'
  BY <1>1 DEF UnitWatched, LookedAt, StopPending, StopStages, Moves, Tasks
<1>9. UnitOnRecord'
  BY <1>1 DEF UnitOnRecord, OnlyHere, OnRecord, S!CalledOff, StopPending, StopStages, Moves, Tasks,
     TasksTypeOK
<1>10. StoppedBefore'
  BY <1>1 DEF StoppedBefore, Moves
<1> QED
  BY <1>2, <1>3, <1>4, <1>5, <1>6, <1>7, <1>8, <1>9, <1>10

\* Kodi stops.
LEMMA KodiStopsKeeps ==
    ASSUME FilmStartInv, KodiStops
    PROVE  FilmStartInv'
<1> USE FilmStartAssumption DEF FilmStartInv, startVars, playVars, playerVars, shownVars,
          workerVars, taskVars, restVars
<1>1. /\ SourceLost \in Asides /\ at[SourceLost] = "KodiStops" /\ Moves(SourceLost, "BackToUi")
      /\ UNCHANGED <<startVars, playVars, playerVars, workerVars, kind, held, listed, restVars>>
  BY GoMoves DEF KodiStops, Tasks, StartStages, AsideStages
<1>2. TasksTypeOK'
  BY <1>1 DEF TasksTypeOK, StartStages, AsideStages, OfHandoff, Moves, Tasks
<1>3. RecordTypeOK' /\ FollowersTypeOK'
  BY <1>1 DEF RecordTypeOK, FollowersTypeOK
<1>4. Counters' /\ CountersLinked'
  BY <1>1 DEF Counters, S!StartsTypeOK, S!NoneAheadOfItself, CountersLinked, Moves, Tasks
<1>5. WaysApart' /\ FilmOfAStart'
  BY <1>1, FilmTyped DEF WaysApart, Ours, OnKodi, Moves, Tasks, FilmOfAStart
<1>6. SessionsAccounted'
  BY <1>1, AsidesApart DEF SessionsAccounted, Accounted, SweptYet, Early, Ours, Moves, Tasks,
    TasksTypeOK
<1>7. LateSwept' /\ SweepKnows'
  BY <1>1, AsidesApart DEF LateSwept, GivenUp, Moves, Tasks, TasksTypeOK, SweepKnows, Early,
    RecordTypeOK, Sweeps
<1>8. UnitWatched'
  BY <1>1 DEF UnitWatched, LookedAt, StopPending, StopStages, Moves, Tasks
<1>9. UnitOnRecord'
  BY <1>1 DEF UnitOnRecord, OnlyHere, OnRecord, S!CalledOff, StopPending, StopStages, Moves, Tasks,
     TasksTypeOK
<1>10. StoppedBefore'
  BY <1>1 DEF StoppedBefore, Moves
<1> QED
  BY <1>2, <1>3, <1>4, <1>5, <1>6, <1>7, <1>8, <1>9, <1>10

\* A film here is to go on in Kodi.
LEMMA HandOffKeeps ==
    ASSUME FilmStartInv, HandOff
    PROVE  FilmStartInv'
<1> USE FilmStartAssumption DEF FilmStartInv, startVars, playVars, playerVars, shownVars,
          workerVars, taskVars, restVars
<1>1. /\ Handoff \in Asides /\ at[Handoff] = "Idle" /\ Moves(Handoff, "Stopping")
      /\ UNCHANGED <<startVars, playVars, playerVars, shownVars, workerVars, kind, held, listed, restVars>>
  BY GoMoves DEF HandOff, Asked, Tasks, StartStages, AsideStages
<1>2. TasksTypeOK'
  BY <1>1 DEF TasksTypeOK, StartStages, AsideStages, OfHandoff, Moves, Tasks
<1>3. RecordTypeOK' /\ FollowersTypeOK'
  BY <1>1 DEF RecordTypeOK, FollowersTypeOK
<1>4. Counters' /\ CountersLinked'
  BY <1>1 DEF Counters, S!StartsTypeOK, S!NoneAheadOfItself, CountersLinked, Moves, Tasks
<1>5. WaysApart' /\ FilmOfAStart'
  BY <1>1, FilmTyped DEF WaysApart, Ours, OnKodi, Moves, Tasks, FilmOfAStart
<1>6. SessionsAccounted'
  BY <1>1, AsidesApart DEF SessionsAccounted, Accounted, SweptYet, Early, Ours, Moves, Tasks,
    TasksTypeOK
<1>7. LateSwept' /\ SweepKnows'
  BY <1>1, AsidesApart DEF LateSwept, GivenUp, Moves, Tasks, TasksTypeOK, SweepKnows, Early,
    RecordTypeOK, Sweeps
<1>8. UnitWatched'
  BY <1>1 DEF UnitWatched, LookedAt, StopPending, StopStages, Moves, Tasks
<1>9. UnitOnRecord'
  BY <1>1 DEF UnitOnRecord, OnlyHere, OnRecord, S!CalledOff, StopPending, StopStages, Moves
<1>10. StoppedBefore'
  BY <1>1 DEF StoppedBefore, Moves
<1> QED
  BY <1>2, <1>3, <1>4, <1>5, <1>6, <1>7, <1>8, <1>9, <1>10

----------------------------------------------------------------------------
(* The followers, and the tasks that let a session go.                      *)

\* The player of a film stops, and its word ends the film.
LEMMA FollowerHearsKeeps ==
    ASSUME FilmStartInv, NEW f \in followers, FollowerHears(f)
    PROVE  FilmStartInv'
<1> USE FilmStartAssumption DEF FilmStartInv, startVars, playVars, playerVars, shownVars,
          workerVars, taskVars, restVars
<1>1. /\ f.phase = "Following" /\ next' = next
      /\ \/ /\ film # None /\ film.number = f.film /\ film' = None /\ posted' = posted \cup LetGo
            /\ \/ pnum = f.here /\ followers' = (followers \ {f}) \cup {[f EXCEPT !.phase = "Stopping"]}
               \/ pnum # f.here /\ followers' = followers \ {f}
         \/ /\ ~(film # None /\ film.number = f.film) /\ UNCHANGED <<film, posted>>
            /\ followers' = followers \ {f}
      /\ UNCHANGED <<startVars, playerVars, shownVars, workerVars, taskVars, sweep>>
  BY FinishEnds DEF FollowerHears, P!Playing
<1>2. TasksTypeOK'
  BY <1>1 DEF TasksTypeOK, StartStages, AsideStages, OfHandoff
<1>3. RecordTypeOK' /\ FollowersTypeOK'
  <2>1. RecordTypeOK'
    BY <1>1, LetGoTyped DEF RecordTypeOK
  <2>2. [f EXCEPT !.phase = "Stopping"] \in [film : Nat, here : Nat, phase : {"Following", "Stopping", "StopUnit"}]
        /\ [f EXCEPT !.phase = "Stopping"].film = f.film
    BY DEF FollowersTypeOK
  <2>3. FollowersTypeOK'
    BY <1>1, <2>2 DEF FollowersTypeOK
  <2> QED BY <2>1, <2>3
<1>4. Counters' /\ CountersLinked'
  BY <1>1 DEF Counters, S!StartsTypeOK, S!NoneAheadOfItself, CountersLinked
<1>5. WaysApart' /\ FilmOfAStart'
  BY <1>1, FilmTyped DEF WaysApart, Ours, OnKodi, FilmOfAStart
<1>6. SessionsAccounted'
  BY <1>1, AsidesApart DEF LetGo, SessionsAccounted, Accounted, SweptYet, Ours, TasksTypeOK
<1>7. LateSwept' /\ SweepKnows'
  BY <1>1 DEF LateSwept, SweepKnows
<1>8. UnitWatched'
  BY <1>1 DEF UnitWatched, LookedAt, StopPending, StopStages
<1>9. UnitOnRecord'
  <2>1. CASE StopPending
    BY <1>1, <2>1 DEF UnitOnRecord, StopPending
  <2>2. CASE at[unit] \in {"Launched", "Check"}
    BY <1>1, <2>2 DEF UnitOnRecord, OnlyHere
  <2>3. CASE film # None /\ film.number = f.film /\ OnRecord(unit)
    <3>1. pnum = f.here
      BY <2>3 DEF OnRecord, FollowersTypeOK
    <3>2. [f EXCEPT !.phase = "Stopping"] \in followers' /\ [f EXCEPT !.phase = "Stopping"].phase = "Stopping"
      BY <1>1, <2>3, <3>1 DEF FollowersTypeOK
    <3> QED
      BY <3>2 DEF UnitOnRecord, StopPending
  <2>4. CASE ~(film # None /\ film.number = f.film) /\ OnRecord(unit)
    BY <1>1, <2>4 DEF UnitOnRecord, OnRecord, S!CalledOff
  <2> QED
    BY <1>1, <2>1, <2>2, <2>3, <2>4 DEF UnitOnRecord, OnlyHere
<1>10. StoppedBefore'
  BY <1>1 DEF StoppedBefore
<1> QED
  BY <1>2, <1>3, <1>4, <1>5, <1>6, <1>7, <1>8, <1>9, <1>10

\* Its follower has the player let go.
LEMMA FollowerTakesKeeps ==
    ASSUME FilmStartInv, NEW f \in followers, FollowerTakes(f)
    PROVE  FilmStartInv'
<1> USE FilmStartAssumption DEF FilmStartInv, startVars, playVars, playerVars, shownVars,
          workerVars, taskVars, restVars
<1>1. /\ f.phase = "Stopping" /\ playing' = None /\ pnum' = pnum + 1
      /\ followers' = (followers \ {f}) \cup {[f EXCEPT !.phase = "StopUnit"]}
      /\ UNCHANGED <<startVars, playVars, unit, shownVars, workerVars, taskVars, sweep>>
  BY DEF FollowerTakes, PlayerLetsGo
<1>2. TasksTypeOK'
  BY <1>1 DEF TasksTypeOK, StartStages, AsideStages, OfHandoff
<1>3. RecordTypeOK' /\ FollowersTypeOK'
  BY <1>1 DEF RecordTypeOK, FollowersTypeOK
<1>4. Counters' /\ CountersLinked'
  BY <1>1 DEF Counters, S!StartsTypeOK, S!NoneAheadOfItself, CountersLinked
<1>5. WaysApart' /\ FilmOfAStart'
  BY <1>1, FilmTyped DEF WaysApart, Ours, OnKodi, FilmOfAStart
<1>6. SessionsAccounted'
  BY <1>1 DEF SessionsAccounted, Accounted, SweptYet, Ours
<1>7. LateSwept' /\ SweepKnows'
  BY <1>1 DEF LateSwept, SweepKnows
<1>8. StopPending'
  <2>1. [f EXCEPT !.phase = "StopUnit"] \in followers' /\ [f EXCEPT !.phase = "StopUnit"].phase = "StopUnit"
    BY <1>1 DEF FollowersTypeOK
  <2> QED BY <2>1 DEF StopPending
<1>9. UnitWatched' /\ UnitOnRecord'
  BY <1>8 DEF UnitWatched, UnitOnRecord
<1>10. StoppedBefore'
  BY <1>1 DEF StoppedBefore
<1> QED
  BY <1>2, <1>3, <1>4, <1>5, <1>6, <1>7, <1>8, <1>9, <1>10

\* And stops the unit.
LEMMA FollowerStopsKeeps ==
    ASSUME FilmStartInv, NEW f \in followers, FollowerStops(f)
    PROVE  FilmStartInv'
<1> USE FilmStartAssumption DEF FilmStartInv, startVars, playVars, playerVars, shownVars,
          workerVars, taskVars, restVars
<1>1. /\ unit' = None /\ followers' = followers \ {f}
      /\ UNCHANGED <<startVars, playVars, pnum, playing, shownVars, workerVars, taskVars, sweep>>
  BY DEF FollowerStops
<1>2. TasksTypeOK'
  BY <1>1 DEF TasksTypeOK, StartStages, AsideStages, OfHandoff
<1>3. RecordTypeOK' /\ FollowersTypeOK'
  BY <1>1 DEF RecordTypeOK, FollowersTypeOK
<1>4. Counters' /\ CountersLinked'
  BY <1>1 DEF Counters, S!StartsTypeOK, S!NoneAheadOfItself, CountersLinked
<1>5. WaysApart' /\ FilmOfAStart'
  BY <1>1, FilmTyped DEF WaysApart, Ours, OnKodi, FilmOfAStart
<1>6. SessionsAccounted'
  BY <1>1 DEF SessionsAccounted, Accounted, SweptYet, Ours
<1>7. LateSwept' /\ SweepKnows'
  BY <1>1 DEF LateSwept, SweepKnows
<1>8. UnitWatched'
  BY <1>1 DEF UnitWatched, LookedAt, StopPending, StopStages
<1>9. UnitOnRecord'
  BY <1>1 DEF UnitOnRecord, OnlyHere, OnRecord, S!CalledOff, StopPending, StopStages
<1>10. StoppedBefore'
  BY <1>1 DEF StoppedBefore
<1> QED
  BY <1>2, <1>3, <1>4, <1>5, <1>6, <1>7, <1>8, <1>9, <1>10

\* The session of a film that is over is ended.
LEMMA ReleaseSessionKeeps ==
    ASSUME FilmStartInv, ReleaseSession
    PROVE  FilmStartInv'
<1> USE FilmStartAssumption DEF FilmStartInv, startVars, playVars, playerVars, shownVars,
          workerVars, taskVars, restVars
<1>1. /\ \E n \in StartIds : posted' = posted \ {P!Release(n)} /\ sessions' = sessions \ {n}
      /\ UNCHANGED <<next, film>>
      /\ UNCHANGED <<startVars, playerVars, shownVars, late, taskVars, restVars>>
  <2>1. PICK effect \in posted : P!CarryOut(effect) /\ sessions' = sessions \ {effect.session}
    BY DEF ReleaseSession
  <2>2. effect.session \in StartIds /\ effect = P!Release(effect.session)
    BY <2>1 DEF RecordTypeOK, P!Release
  <2> QED
    BY <2>1, <2>2 DEF ReleaseSession, P!CarryOut
<1>2. TasksTypeOK'
  BY <1>1 DEF TasksTypeOK, StartStages, AsideStages, OfHandoff
<1>3. RecordTypeOK' /\ FollowersTypeOK'
  BY <1>1 DEF RecordTypeOK, FollowersTypeOK
<1>4. Counters' /\ CountersLinked'
  BY <1>1 DEF Counters, S!StartsTypeOK, S!NoneAheadOfItself, CountersLinked
<1>5. WaysApart' /\ FilmOfAStart'
  BY <1>1, FilmTyped DEF WaysApart, Ours, OnKodi, FilmOfAStart
<1>6. SessionsAccounted'
  BY <1>1 DEF SessionsAccounted, Accounted, SweptYet, Ours, P!Release
<1>7. LateSwept' /\ SweepKnows'
  BY <1>1 DEF LateSwept, SweepKnows
<1>8. UnitWatched'
  BY <1>1 DEF UnitWatched, LookedAt, StopPending, StopStages
<1>9. UnitOnRecord'
  BY <1>1 DEF UnitOnRecord, OnlyHere, OnRecord, S!CalledOff, StopPending, StopStages
<1>10. StoppedBefore'
  BY <1>1 DEF StoppedBefore
<1> QED
  BY <1>2, <1>3, <1>4, <1>5, <1>6, <1>7, <1>8, <1>9, <1>10

----------------------------------------------------------------------------
(* The sweep.                                                               *)

\* It reads the starts.
LEMMA SweepReadsKeeps ==
    ASSUME FilmStartInv, SweepReads
    PROVE  FilmStartInv'
<1> USE FilmStartAssumption DEF FilmStartInv, startVars, playVars, playerVars, shownVars,
          workerVars, taskVars, restVars
<1>1. /\ sweep # None /\ sweep.phase = "Waiting" /\ sweep' # None /\ sweep' \in Sweeps
      /\ sweep'.phase \in {"Waiting", "Asking"} /\ sweep'.kind = sweep.kind
      /\ UNCHANGED <<startVars, playVars, playerVars, shownVars, workerVars, taskVars, followers>>
  <2>1. sweep \in Sweeps /\ sweep # None /\ sweep.phase = "Waiting" /\ begun \in Nat
    BY DEF SweepReads, RecordTypeOK, Counters, S!StartsTypeOK
  <2>2. sweep' \in Sweeps /\ sweep'.phase \in {"Waiting", "Asking"} /\ sweep'.kind = sweep.kind
    BY <2>1 DEF SweepReads, Sweeps, Phases
  <2> QED
    BY <2>1, <2>2, SweepsAreSome DEF SweepReads
<1>2. TasksTypeOK'
  BY <1>1 DEF TasksTypeOK, StartStages, AsideStages, OfHandoff
<1>3. RecordTypeOK' /\ FollowersTypeOK'
  BY <1>1 DEF RecordTypeOK, FollowersTypeOK
<1>4. Counters' /\ CountersLinked'
  BY <1>1 DEF Counters, S!StartsTypeOK, S!NoneAheadOfItself, CountersLinked
<1>5. WaysApart' /\ FilmOfAStart'
  BY <1>1, FilmTyped DEF WaysApart, Ours, OnKodi, FilmOfAStart
<1>6. SessionsAccounted'
  BY <1>1 DEF SessionsAccounted, Accounted, SweptYet, Ours
<1>7. LateSwept' /\ SweepKnows'
  BY <1>1 DEF LateSwept, SweepKnows
<1>8. UnitWatched'
  BY <1>1 DEF UnitWatched, LookedAt, StopPending, StopStages
<1>9. UnitOnRecord'
  BY <1>1 DEF UnitOnRecord, OnlyHere, OnRecord, S!CalledOff, StopPending, StopStages
<1>10. StoppedBefore'
  BY <1>1 DEF StoppedBefore
<1> QED
  BY <1>2, <1>3, <1>4, <1>5, <1>6, <1>7, <1>8, <1>9, <1>10

\* It has the worker's sessions listed.
LEMMA SweepListsKeeps ==
    ASSUME FilmStartInv, SweepLists
    PROVE  FilmStartInv'
<1> USE FilmStartAssumption DEF FilmStartInv, startVars, playVars, playerVars, shownVars,
          workerVars, taskVars, restVars
<1>1. /\ sweep # None /\ sweep' # None /\ sweep' \in Sweeps
      /\ sweep'.phase = "Listed" /\ sweep'.kind = sweep.kind /\ sweep'.last = (late = {})
      /\ sweep'.listed = {n \in sessions : kind[n] = sweep.kind}
      /\ UNCHANGED <<startVars, playVars, playerVars, shownVars, workerVars, taskVars, followers>>
  <2>1. sweep \in Sweeps /\ sweep # None
    BY DEF SweepLists, RecordTypeOK
  <2>2. /\ sweep' \in Sweeps /\ sweep'.phase = "Listed" /\ sweep'.kind = sweep.kind
        /\ sweep'.last = (late = {}) /\ sweep'.listed = {n \in sessions : kind[n] = sweep.kind}
    BY <2>1 DEF SweepLists, Sweeps, Phases, TasksTypeOK
  <2> QED
    BY <2>1, <2>2, SweepsAreSome DEF SweepLists
<1>2. TasksTypeOK'
  BY <1>1 DEF TasksTypeOK, StartStages, AsideStages, OfHandoff
<1>3. RecordTypeOK' /\ FollowersTypeOK'
  BY <1>1 DEF RecordTypeOK, FollowersTypeOK
<1>4. Counters' /\ CountersLinked'
  BY <1>1 DEF Counters, S!StartsTypeOK, S!NoneAheadOfItself, CountersLinked
<1>5. WaysApart' /\ FilmOfAStart'
  BY <1>1, FilmTyped DEF WaysApart, Ours, OnKodi, FilmOfAStart
<1>6. SessionsAccounted'
  BY <1>1 DEF SessionsAccounted, Accounted, SweptYet, Ours
<1>7. LateSwept' /\ SweepKnows'
  <2>1. LateSwept'
    BY <1>1 DEF LateSwept
  <2>2. SweepKnows'
    BY <1>1 DEF SweepKnows, SessionsAccounted
  <2> QED BY <2>1, <2>2
<1>8. UnitWatched'
  BY <1>1 DEF UnitWatched, LookedAt, StopPending, StopStages
<1>9. UnitOnRecord'
  BY <1>1 DEF UnitOnRecord, OnlyHere, OnRecord, S!CalledOff, StopPending, StopStages
<1>10. StoppedBefore'
  BY <1>1 DEF StoppedBefore
<1> QED
  BY <1>2, <1>3, <1>4, <1>5, <1>6, <1>7, <1>8, <1>9, <1>10

\* With no start under way it ends what it has listed, but for the film's.
LEMMA SweepDecidesKeeps ==
    ASSUME FilmStartInv, SweepDecides
    PROVE  FilmStartInv'
<1> USE FilmStartAssumption DEF FilmStartInv, startVars, playVars, playerVars, shownVars,
          workerVars, taskVars, restVars
<1>1. /\ sweep # None /\ sweep.phase = "Listed" /\ sweep' # None /\ sweep' \in Sweeps /\ sweep'.kind = sweep.kind /\ sweep'.last = sweep.last
      /\ \/ /\ busy = 0 /\ sweep'.phase = "Ending" /\ sweep'.listed = sweep.listed \ Kept
         \/ sweep'.phase = "Waiting"
      /\ UNCHANGED <<startVars, playVars, playerVars, shownVars, workerVars, taskVars, followers>>
  <2>1. sweep \in Sweeps /\ sweep # None /\ sweep.phase = "Listed"
    BY DEF SweepDecides, RecordTypeOK
  <2>2. \/ busy = 0 /\ sweep' = [sweep EXCEPT !.phase = "Ending", !.listed = sweep.listed \ Kept]
        \/ sweep' = [sweep EXCEPT !.phase = "Waiting", !.listed = {}]
    BY DEF SweepDecides
  <2>3. sweep' \in Sweeps /\ sweep'.kind = sweep.kind /\ sweep'.last = sweep.last
    BY <2>1, <2>2 DEF Sweeps, Phases
  <2>4. \/ busy = 0 /\ sweep'.phase = "Ending" /\ sweep'.listed = sweep.listed \ Kept
        \/ sweep'.phase = "Waiting"
    BY <2>1, <2>2 DEF Sweeps
  <2> QED
    BY <2>1, <2>3, <2>4, SweepsAreSome DEF SweepDecides
<1>2. TasksTypeOK'
  BY <1>1 DEF TasksTypeOK, StartStages, AsideStages, OfHandoff
<1>3. RecordTypeOK' /\ FollowersTypeOK'
  BY <1>1 DEF RecordTypeOK, FollowersTypeOK
<1>4. Counters' /\ CountersLinked'
  BY <1>1 DEF Counters, S!StartsTypeOK, S!NoneAheadOfItself, CountersLinked
<1>5. WaysApart' /\ FilmOfAStart'
  BY <1>1, FilmTyped DEF WaysApart, Ours, OnKodi, FilmOfAStart
<1>6. SessionsAccounted'
  <2> SUFFICES ASSUME NEW n \in sessions
               PROVE  at[n] \notin Early /\ Accounted(n)'
    BY <1>1 DEF SessionsAccounted
  <2>1. at[n] \notin Early /\ Accounted(n)
    BY DEF SessionsAccounted
  <2>2. SweptYet(n) => SweptYet(n)' \/ n \in Kept
    BY <1>1 DEF SweptYet
  <2>3. n \in Kept => film # None /\ film.session = n
    BY DEF Kept
  <2> QED
    BY <1>1, <2>1, <2>2, <2>3 DEF Accounted
<1>7. LateSwept' /\ SweepKnows'
  <2>1. LateSwept'
    BY <1>1 DEF LateSwept
  <2>2. ASSUME busy = 0, sweep'.phase = "Ending", sweep'.listed = sweep.listed \ Kept
        PROVE  SweepKnows'
    <3> SUFFICES ASSUME NEW n \in sweep.listed, n \notin Kept
                 PROVE  at[n] = "Done" /\ (film = None \/ film.session # n)
      BY <1>1, <2>2 DEF SweepKnows
    <3>1. n \in StartIds /\ kind[n] = sweep.kind /\ at[n] \notin Early
      BY <1>1 DEF SweepKnows, RecordTypeOK, Sweeps
    <3>2. at[n] = "Done"
      BY <2>2, <3>1, NoneBusy DEF CountersLinked, Early
    <3>3. film # None => film.session # n
      BY <1>1, <3>1, AsidesApart DEF FilmOfAStart, Kept
    <3> QED BY <3>2, <3>3
  <2>3. sweep'.phase = "Waiting" => SweepKnows'
    BY DEF SweepKnows
  <2> QED BY <1>1, <2>1, <2>2, <2>3
<1>8. UnitWatched'
  BY <1>1 DEF UnitWatched, LookedAt, StopPending, StopStages
<1>9. UnitOnRecord'
  BY <1>1 DEF UnitOnRecord, OnlyHere, OnRecord, S!CalledOff, StopPending, StopStages
<1>10. StoppedBefore'
  BY <1>1 DEF StoppedBefore
<1> QED
  BY <1>2, <1>3, <1>4, <1>5, <1>6, <1>7, <1>8, <1>9, <1>10

\* It ends them, and looks again or is done.
LEMMA SweepEndsKeeps ==
    ASSUME FilmStartInv, SweepEnds
    PROVE  FilmStartInv'
<1> USE FilmStartAssumption DEF FilmStartInv, startVars, playVars, playerVars, shownVars,
          workerVars, taskVars, restVars
<1>1. /\ sweep # None /\ sweep.phase = "Ending" /\ sessions' = sessions \ sweep.listed
      /\ \/ sweep.last /\ sweep' = None
         \/ sweep' # None /\ sweep' \in Sweeps /\ sweep'.phase = "Waiting" /\ sweep'.kind = sweep.kind
      /\ UNCHANGED <<startVars, playVars, playerVars, shownVars, late, taskVars, followers>>
  <2>1. sweep \in Sweeps /\ sweep # None /\ sweep.phase = "Ending"
    BY DEF SweepEnds, RecordTypeOK
  <2>2. \/ sweep.last /\ sweep' = None
        \/ sweep' \in Sweeps /\ sweep'.phase = "Waiting" /\ sweep'.kind = sweep.kind
    BY <2>1 DEF SweepEnds, Sweeps, Phases
  <2> QED
    BY <2>1, <2>2, SweepsAreSome DEF SweepEnds
<1>2. TasksTypeOK'
  BY <1>1 DEF TasksTypeOK, StartStages, AsideStages, OfHandoff
<1>3. RecordTypeOK' /\ FollowersTypeOK'
  BY <1>1 DEF RecordTypeOK, FollowersTypeOK
<1>4. Counters' /\ CountersLinked'
  BY <1>1 DEF Counters, S!StartsTypeOK, S!NoneAheadOfItself, CountersLinked
<1>5. WaysApart' /\ FilmOfAStart'
  BY <1>1, FilmTyped DEF WaysApart, Ours, OnKodi, FilmOfAStart
<1>6. SessionsAccounted'
  <2> SUFFICES ASSUME NEW n \in sessions, n \notin sweep.listed
               PROVE  at[n] \notin Early /\ Accounted(n)'
    BY <1>1 DEF SessionsAccounted
  <2>1. at[n] \notin Early /\ Accounted(n)
    BY DEF SessionsAccounted
  <2>2. SweptYet(n) => SweptYet(n)'
    BY <1>1 DEF SweptYet
  <2> QED
    BY <1>1, <2>1, <2>2 DEF Accounted
<1>7. LateSwept' /\ SweepKnows'
  <2>1. LateSwept'
    BY <1>1 DEF LateSwept
  <2>2. SweepKnows'
    BY <1>1 DEF SweepKnows
  <2> QED BY <2>1, <2>2
<1>8. UnitWatched'
  BY <1>1 DEF UnitWatched, LookedAt, StopPending, StopStages
<1>9. UnitOnRecord'
  BY <1>1 DEF UnitOnRecord, OnlyHere, OnRecord, S!CalledOff, StopPending, StopStages
<1>10. StoppedBefore'
  BY <1>1 DEF StoppedBefore
<1> QED
  BY <1>2, <1>3, <1>4, <1>5, <1>6, <1>7, <1>8, <1>9, <1>10

----------------------------------------------------------------------------
(* The invariant, and what follows from it.                                   *)

\* Nothing is under way at first.
LEMMA FilmStartInitInv == FilmStartInit => FilmStartInv
<1> SUFFICES ASSUME FilmStartInit PROVE FilmStartInv
  OBVIOUS
<1> USE FilmStartAssumption
<1>1. /\ begun = 0 /\ busy = 0 /\ calledOff = 0
      /\ numbered = {} /\ counted = {} /\ underway = {} /\ backs = {}
      /\ next = 0 /\ film = None /\ posted = {} /\ pnum = 0 /\ playing = None /\ unit = None
      /\ sessions = {} /\ late = {} /\ followers = {} /\ sweep = None
  BY DEF FilmStartInit, S!StartsInit, P!PlayInit
<1>2. /\ at \in [Tasks -> StartStages \cup AsideStages] /\ \A t \in Tasks : at[t] = "Idle"
      /\ kind \in [StartIds -> {"Here", "Kodi"}]
      /\ held \in [Tasks -> [film : Nat \cup {None}, session : StartIds \cup {None}]]
      /\ \A t \in Tasks : held[t].film = None
  BY DEF FilmStartInit, StartStages, AsideStages
<1>3. TasksTypeOK
  BY <1>1, <1>2 DEF TasksTypeOK, StartStages, AsideStages, OfHandoff, Tasks
<1>4. RecordTypeOK /\ FollowersTypeOK
  BY <1>1 DEF RecordTypeOK, FollowersTypeOK
<1>5. Counters
  BY <1>1, FS_EmptySet DEF Counters, S!StartsTypeOK, S!NoneAheadOfItself
<1>6. CountersLinked
  BY <1>1, <1>2 DEF CountersLinked, StartIds, Tasks
<1>7. WaysApart /\ FilmOfAStart
  BY <1>1, <1>2 DEF WaysApart, FilmOfAStart, Ours, OnKodi, Tasks
<1>8. SessionsAccounted /\ LateSwept /\ SweepKnows
  BY <1>1 DEF SessionsAccounted, LateSwept, SweepKnows
<1>9. UnitWatched /\ UnitOnRecord
  BY <1>1 DEF UnitWatched, UnitOnRecord
<1>10. StoppedBefore
  BY <1>1, <1>2 DEF StoppedBefore
<1> QED
  BY <1>3, <1>4, <1>5, <1>6, <1>7, <1>8, <1>9, <1>10 DEF FilmStartInv

\* A step that changes nothing keeps it.
LEMMA StutterKeeps == FilmStartInv /\ UNCHANGED vars => FilmStartInv'
<1> SUFFICES ASSUME FilmStartInv, UNCHANGED vars PROVE FilmStartInv'
  OBVIOUS
<1> USE DEF FilmStartInv, vars, startVars, playVars, playerVars, shownVars, workerVars, taskVars, restVars
<1>1. TasksTypeOK' /\ RecordTypeOK' /\ FollowersTypeOK'
  BY DEF TasksTypeOK, RecordTypeOK, FollowersTypeOK
<1>2. Counters' /\ CountersLinked' /\ WaysApart' /\ FilmOfAStart'
  BY DEF Counters, S!StartsTypeOK, S!NoneAheadOfItself, CountersLinked, WaysApart, FilmOfAStart
<1>3. SessionsAccounted' /\ LateSwept' /\ SweepKnows'
  BY DEF SessionsAccounted, Accounted, SweptYet, LateSwept, SweepKnows
<1>4. UnitWatched' /\ UnitOnRecord' /\ StoppedBefore'
  BY DEF UnitWatched, LookedAt, StopPending, UnitOnRecord, OnlyHere, OnRecord, S!CalledOff, StoppedBefore
<1> QED
  BY <1>1, <1>2, <1>3, <1>4

\* Every step keeps it.
LEMMA FilmStartNextInv == FilmStartInv /\ [FilmStartNext]_vars => FilmStartInv'
<1> SUFFICES ASSUME FilmStartInv, [FilmStartNext]_vars PROVE FilmStartInv'
  OBVIOUS
<1>1. ASSUME NEW n \in StartIds, StartStep(n) PROVE FilmStartInv'
  BY <1>1, CountInKeeps, CallOffOlderKeeps, WorkerOpensKeeps, GivesUpKeeps, OpenedKeeps, LaunchStopsKeeps,
     LaunchStoppedKeeps, LaunchUnitKeeps, LaunchedKeeps, CheckKeeps, GiveBackKeeps, EndStartKeeps,
     KodiResolvedKeeps
     DEF StartStep
<1>2. ASSUME NEW t \in Tasks, StopStep(t) PROVE FilmStartInv'
  BY <1>2, StopTakesKeeps, StopUnitKeeps, StopRecordKeeps, ListSessionsKeeps, EndListedKeeps DEF StopStep
<1>3. ASSUME NEW t \in Tasks, SwitchStep(t) PROVE FilmStartInv'
  BY <1>3, SwitchToKodiKeeps, SwitchFailsKeeps, KodiOpensKeeps, KodiRegisterKeeps, BackToUiKeeps,
     UndoTakeKeeps, UndoUnitKeeps
     DEF SwitchStep
<1>4. CASE FollowStep
  BY <1>4, FollowerHearsKeeps, FollowerTakesKeeps, FollowerStopsKeeps DEF FollowStep
<1>5. CASE SweepStep
  BY <1>5, SweepReadsKeeps, SweepListsKeeps, SweepDecidesKeeps, SweepEndsKeeps DEF SweepStep
<1> QED
  BY <1>1, <1>2, <1>3, <1>4, <1>5, ChooseKeeps, PressBackKeeps, BackCallsOffKeeps, LoseSourceKeeps,
     StandByKeeps, KodiStopsKeeps, HandOffKeeps, ReleaseSessionKeeps, KodiFollowsKeeps, StutterKeeps
     DEF FilmStartNext

\* FilmStartInv holds in every reachable state.
THEOREM FilmStartInvariance == FilmStartSpec => []FilmStartInv
  BY FilmStartInitInv, FilmStartNextInv, PTL DEF FilmStartSpec

\* Once every request is answered, the worker holds no session but the one of
\* the film playing, whatever failed, was called off or answered late
\* (play_here, stop_here, sweep_stray_sessions).
THEOREM NoSessionLeft == FilmStartSpec => []NoStraySession
<1>1. FilmStartInv => NoStraySession
  <2> SUFFICES ASSUME FilmStartInv, Quiet, NEW n \in sessions
               PROVE  film # None /\ film.session = n
    BY DEF NoStraySession
  <2>1. n \in Tasks /\ at[n] \in {"Idle", "Done"} /\ Accounted(n)
    BY DEF FilmStartInv, Quiet, SessionsAccounted, TasksTypeOK, Tasks
  <2>2. posted = {} /\ sweep = None
    BY DEF Quiet
  <2> QED
    BY <2>1, <2>2 DEF Accounted, SweptYet, Ours
<1> QED
  BY <1>1, FilmStartInvariance, PTL

\* Back has the last word: with every start called off and nothing under way,
\* no player is left playing, however Back crosses a player that comes up
\* (play_here, call_off_starts).
THEOREM BackIsLast == FilmStartSpec => []BackHasTheLastWord
<1>1. FilmStartInv => BackHasTheLastWord
  <2> SUFFICES ASSUME FilmStartInv, Quiet, calledOff = begun, unit # None PROVE FALSE
    BY DEF BackHasTheLastWord
  <2>1. LookedAt \/ StopPending
    BY DEF FilmStartInv, UnitWatched, Counters, S!StartsTypeOK
  <2> QED
    BY <2>1 DEF Quiet, LookedAt, StopPending, StopStages, Tasks
<1> QED
  BY <1>1, FilmStartInvariance, PTL

\* What plays is what the newest start put on, and it is on record, for any
\* number of starts here, Backs and a television that leaves (play_here,
\* begin_start, follow_mpv).
THEOREM NewestPlays == FilmStartSpec => []PlaysTheNewest
<1>1. FilmStartInv => PlaysTheNewest
  <2> SUFFICES ASSUME FilmStartInv, Quiet, unit # None, OnlyHere
               PROVE  ~S!CalledOff(unit) /\ film # None /\ film.session = unit
    BY DEF PlaysTheNewest
  <2>1. at[unit] \in {"Launched", "Check"} \/ StopPending \/ OnRecord(unit)
    BY DEF FilmStartInv, UnitOnRecord
  <2>2. unit \in Tasks
    BY DEF FilmStartInv, TasksTypeOK, Tasks
  <2> QED
    BY <2>1, <2>2 DEF Quiet, StopPending, StopStages, OnRecord
<1> QED
  BY <1>1, FilmStartInvariance, PTL

\* The sweep ends neither the session of the film playing nor one a start
\* under way has opened, however it and the starts interleave
\* (sweep_stray_sessions).
THEOREM SweepSpares == FilmStartSpec => []SweepSparesTheFilm
<1>1. FilmStartInv => SweepSparesTheFilm
  BY DEF FilmStartInv, SweepKnows, SweepSparesTheFilm
<1> QED
  BY <1>1, FilmStartInvariance, PTL

----------------------------------------------------------------------------
(* What FilmStart does to the counters and to the record is what Starts and   *)
(* Playback say the supervisor does.                                          *)

\* Every step is one atomic of begin_start or call_off_starts, or none.
LEMMA StartsStep == FilmStartNext => [S!StartsNext]_startVars
<1> SUFFICES ASSUME FilmStartNext PROVE S!StartsNext \/ UNCHANGED startVars
  OBVIOUS
<1>1. ASSUME NEW n \in StartIds, StartStep(n) PROVE S!StartsNext \/ UNCHANGED startVars
  BY <1>1 DEF StartStep, CountIn, CallOffOlder, EndStart, S!StartsNext, S!Count, S!CallOffOlder, S!EndStart,
     WorkerOpens, GivesUp, Opened, LaunchStops, LaunchStopped, LaunchUnit, Launched, Check, GiveBack,
     KodiResolved
<1>2. ASSUME NEW t \in Tasks, StopStep(t) \/ SwitchStep(t) PROVE UNCHANGED startVars
  BY <1>2 DEF StopStep, StopTakes, StopUnit, StopRecord, ListSessions, EndListed, SwitchStep, SwitchToKodi,
     SwitchFails, KodiOpens, KodiRegister, BackToUi, UndoTake, UndoUnit
<1>3. CASE \E k \in Kinds : Choose(k)
  BY <1>3 DEF Choose, S!StartsNext
<1>4. CASE PressBack \/ BackCallsOff
  BY <1>4 DEF PressBack, BackCallsOff, S!StartsNext
<1>5. CASE LoseSource \/ StandBy \/ KodiStops \/ HandOff \/ KodiFollows
  BY <1>5 DEF LoseSource, StandBy, KodiStops, HandOff, KodiFollows
<1>6. CASE FollowStep \/ ReleaseSession \/ SweepStep
  BY <1>6 DEF FollowStep, FollowerHears, FollowerTakes, FollowerStops, ReleaseSession, SweepStep, SweepReads,
     SweepLists, SweepDecides, SweepEnds
<1> QED
  BY <1>1, <1>2, <1>3, <1>4, <1>5, <1>6 DEF FilmStartNext

\* The starts of a television do what the supervisor's counters allow, so what
\* Starts says of them holds here (begin_start, call_off_starts).
THEOREM StartsKept == FilmStartSpec => S!StartsSpec
<1>1. FilmStartInit => S!StartsInit
  BY DEF FilmStartInit
<1>2. [FilmStartNext]_vars => [S!StartsNext]_(S!startVars)
  BY StartsStep DEF vars, startVars, S!startVars
<1> QED
  BY <1>1, <1>2, PTL DEF FilmStartSpec, S!StartsSpec

\* Films are numbered from one, and no more than a run has.
Numbered == next <= MaxStarts + 1 /\ (film # None => next >= 1)

\* Every step is one method of the supervisor, or none.
LEMMA PlayStep ==
    ASSUME FilmStartInv, Numbered, FilmStartNext
    PROVE  P!PlayNext \/ UNCHANGED playVars
<1> USE FilmStartAssumption
<1>1. \A n : P!Playing(n) => n \in P!Numbers
  <2>1. film # None => film.number \in P!Numbers
    BY FilmTyped DEF FilmStartInv, RecordTypeOK, Numbered, P!Numbers, P!Film
  <2> QED BY <2>1 DEF P!Playing
<1>2. ASSUME NEW n, NEW signal \in P!Signals, P!Finish(n, signal) PROVE P!PlayNext
  <2>1. n \in P!Numbers
    BY <1>1, <1>2 DEF P!Finish
  <2> QED BY <1>2, <2>1 DEF P!PlayNext
<1>3. ASSUME NEW n, NEW intent \in P!Intents, P!Intend(n, intent) PROVE P!PlayNext
  <2>1. n \in P!Numbers
    BY <1>1, <1>3 DEF P!Intend
  <2> QED BY <1>3, <2>1 DEF P!PlayNext
<1>4. ASSUME NEW player \in P!Players, NEW session \in StartIds \cup {None},
             P!Begin(player, FALSE, FALSE, session, FALSE, "Short")
      PROVE  P!PlayNext
  BY <1>4 DEF P!PlayNext
<1>5. "Here" \in P!Players /\ "Kodi" \in P!Players /\ {"EndOfFile", "Quit", "Gone"} \subseteq P!Signals
  BY DEF P!Players, P!Signals
<1>6. ASSUME NEW n \in StartIds, StartStep(n) PROVE P!PlayNext \/ UNCHANGED playVars
  <2>1. CASE Check(n)
    BY <1>4, <1>5, <2>1 DEF Check, Register
  <2> QED
    BY <1>6, <2>1 DEF StartStep, CountIn, CallOffOlder, EndStart, WorkerOpens, GivesUp, Opened, LaunchStops,
       LaunchStopped, LaunchUnit, Launched, GiveBack, KodiResolved
<1>7. ASSUME NEW t \in Tasks, StopStep(t) PROVE P!PlayNext \/ UNCHANGED playVars
  <2>1. CASE StopTakes(t)
    <3>1. StopIntent(t) \in P!Intents
      BY DEF StopIntent, P!Intents
    <3> QED BY <1>3, <2>1, <3>1 DEF StopTakes
  <2>2. CASE StopRecord(t)
    BY <1>2, <1>5, <2>2 DEF StopRecord
  <2> QED
    BY <1>7, <2>1, <2>2 DEF StopStep, StopUnit, ListSessions, EndListed
<1>8. ASSUME NEW t \in Tasks, SwitchStep(t) PROVE P!PlayNext \/ UNCHANGED playVars
  <2>1. CASE KodiRegister(t)
    <3>1. (IF t = Handoff THEN None ELSE held[t].session) \in StartIds \cup {None}
      BY DEF FilmStartInv, TasksTypeOK
    <3> QED BY <1>4, <1>5, <2>1, <3>1 DEF KodiRegister
  <2> QED
    BY <1>8, <2>1 DEF SwitchStep, SwitchToKodi, SwitchFails, KodiOpens, BackToUi, UndoTake, UndoUnit
<1>9. CASE FollowStep
  BY <1>2, <1>5, <1>9 DEF FollowStep, FollowerHears, FollowerTakes, FollowerStops
<1>10. CASE ReleaseSession
  BY <1>10 DEF ReleaseSession, P!PlayNext
<1>11. CASE KodiFollows
  BY <1>2, <1>5, <1>11 DEF KodiFollows
<1>12. CASE SweepStep \/ PressBack \/ BackCallsOff \/ LoseSource \/ StandBy \/ KodiStops \/ HandOff
            \/ \E k \in Kinds : Choose(k)
  BY <1>12 DEF SweepStep, SweepReads, SweepLists, SweepDecides, SweepEnds, PressBack, BackCallsOff, LoseSource,
     StandBy, KodiStops, HandOff, Choose
<1> QED
  BY <1>6, <1>7, <1>8, <1>9, <1>10, <1>11, <1>12 DEF FilmStartNext

\* The films on the television begin, are told to go and end as the supervisor
\* has them do, so what Playback says of them holds here (begin, intend, finish).
THEOREM SupervisorKept == FilmStartSpec => P!PlaySpec
<1>1. FilmStartInit => P!PlayInit /\ Numbered
  BY FilmStartAssumption DEF FilmStartInit, P!PlayInit, Numbered
<1>2. FilmStartInv /\ Numbered /\ [FilmStartNext]_vars => [P!PlayNext]_(P!playVars)
  BY PlayStep DEF vars, playVars, P!playVars
<1>3. FilmStartInv /\ Numbered /\ [P!PlayNext]_(P!playVars) => Numbered'
  <2> SUFFICES ASSUME next \in Nat, Numbered, P!PlayNext \/ UNCHANGED <<next, film>> PROVE Numbered'
    BY DEF FilmStartInv, RecordTypeOK, P!playVars
  <2>1. P!PlayNext => \/ next < MaxStarts + 1 /\ next' = next + 1
                      \/ next' = next /\ (film = None => film' = None)
    <3>1. ASSUME NEW player, NEW live, NEW watch, NEW session, NEW given, NEW place,
                 P!Begin(player, live, watch, session, given, place)
          PROVE  next < MaxStarts + 1 /\ next' = next + 1
      BY <3>1 DEF P!Begin
    <3>2. ASSUME NEW n, NEW x, P!Intend(n, x) \/ P!SourceEnded(n, x) \/ P!Finish(n, x)
          PROVE  next' = next /\ film # None
      BY <3>2 DEF P!Intend, P!SourceEnded, P!Finish, P!Playing
    <3>3. ASSUME NEW n, NEW place, NEW duration, NEW jump, NEW due, P!Observe(n, place, duration, jump, due)
          PROVE  next' = next /\ film # None
      BY <3>3 DEF P!Observe, P!Playing
    <3>4. ASSUME NEW effect, P!CarryOut(effect) PROVE next' = next /\ film' = film
      BY <3>4 DEF P!CarryOut
    <3> QED
      BY <3>1, <3>2, <3>3, <3>4 DEF P!PlayNext
  <2> QED
    BY <2>1, FilmStartAssumption DEF Numbered
<1> QED
  BY <1>1, <1>2, <1>3, FilmStartInvariance, PTL DEF FilmStartSpec, P!PlaySpec
=============================================================================
