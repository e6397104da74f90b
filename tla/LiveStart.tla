----------------------------- MODULE LiveStart -----------------------------
(* Live television put on the television: play_live and what follows it in    *)
(* mediaboxd-rs/src/daemon.rs, with the receiver's process (live.rs), the     *)
(* player (player.rs), the film's record (playback.rs) and the display        *)
(* matched to the channel (output.rs).  A start holds live_change from its    *)
(* lock to its end; Back and the followers of a film do not.  A task is the   *)
(* sequence of the steps it still has to take, each up to its next await.     *)
EXTENDS Integers, Sequences, FiniteSets

CONSTANTS MaxStarts,    \* bound on the channels asked for
          Channels,     \* services, all of satellite transponders
          Worlds,       \* what may happen, each way a run of its own (see `may`)
          None

ASSUME LiveStartAssumption ==
    /\ MaxStarts \in Nat
    /\ Worlds \subseteq [stop : BOOLEAN, match : BOOLEAN, fail : BOOLEAN]
    /\ None \notin Int \cup Channels

VARIABLES
    begun, busy, calledOff, numbered, counted, underway, backs,    \* Starts
    next, film, posted, account, verdicts,                         \* Playback
    shown,       \* the service of the film on record
    change,      \* live_change: the start that holds it, or None
    pnum,        \* PlayerManager.film
    playing,     \* PlayerManager.playing: the service, or None
    unit,        \* the player's unit: the FIFO it reads, or None
    life,        \* LiveManager's lifecycle; "Cleaned" is any of them without a token
    fifo, fifos, \* the FIFO the control plane takes the receiver to write
    select,      \* select.json: what the receiver has not read yet, or None
    receiver,    \* the receiver's unit, or None
    content,     \* the film the display is matched to, or None
    handover,    \* Output's handover: the match stays for the next channel
    svc,         \* svc[n]: the channel start n is for
    may,         \* whether Back may be pressed, once; whether the rate of a channel
                 \* can be known; whether player, receiver and systemd may fail
    todo,        \* the steps each task still has to take
    own,         \* own[t]: the film a task has taken note of, or None
    here         \* here[m]: the player's number for film m

startVars  == <<begun, busy, calledOff, numbered, counted, underway, backs>>
playVars   == <<next, film, posted, account, verdicts>>
playerVars == <<pnum, playing, unit>>
tunerVars  == <<life, fifo, fifos, select, receiver>>
matchVars  == <<content, handover>>
taskVars   == <<todo, own, here>>
given      == <<svc, may>>
vars == <<startVars, playVars, shown, change, playerVars, tunerVars, matchVars, given, taskVars>>

StartIds  == 1..MaxStarts
Back      == <<"Back", 0>>
Start(n)   == <<"Start", n>>
Mpv(m)     == <<"Mpv", m>>
Display(m) == <<"Display", m>>
Source(m)  == <<"Source", m>>
Rematch(n) == <<"Rematch", n>>
Tasks == {Back} \cup ({"Start", "Rematch", "Mpv", "Display", "Source"} \X StartIds)

S == INSTANCE Starts
P == INSTANCE Playback WITH Sessions <- {}, MaxFilms <- MaxStarts, MaxPosted <- MaxStarts

\* The next step of a task, what is left after it, and other steps instead.
Is(t, step)   == todo[t] # <<>> /\ Head(todo[t]) = step
Rest(t)       == Tail(todo[t])
Goes(t, steps) == todo' = [todo EXCEPT ![t] = steps]
Done(t)       == Goes(t, Rest(t))

StopPlayer   == <<"Take", "Quit">>
StopReceiver == <<"Stopping", "Gone", "Cleaned">>
ColdStart    == <<"StopHere">> \o StopReceiver \o <<"Receiver", "Up", "Opened", "Rate", "Match", "Matched">>

ReceiverUp == receiver # None /\ ~receiver.ended

\* No film, no channel asked of the receiver and no receiver is one of them.
ASSUME NoneAssumption ==
    /\ P!PlaybackAssumption /\ None \notin P!Film
    /\ None \notin [service : Channels, fifo : Int]
    /\ None \notin [service : Channels, fifo : Int, ended : BOOLEAN]

----------------------------------------------------------------------------
(* PlayerManager::stop, LiveManager::stop and stop_here, one await at a time. *)

LetsGo == playing' = None /\ pnum' = pnum + 1

Take(t) ==
    /\ Is(t, "Take")
    /\ LetsGo /\ Done(t)
    /\ UNCHANGED <<startVars, playVars, shown, change, unit, tunerVars, matchVars, given, own, here>>

Quit(t) ==
    /\ Is(t, "Quit")
    /\ unit' = None /\ Done(t)
    /\ UNCHANGED <<startVars, playVars, shown, change, pnum, playing, tunerVars, matchVars, given,
                   own, here>>

\* Nothing to stop: no token, and no unit.
Stopping(t) ==
    /\ Is(t, "Stopping")
    /\ IF life = "Cleaned" /\ receiver = None
       THEN UNCHANGED life /\ Goes(t, SubSeq(todo[t], 4, Len(todo[t])))
       ELSE life' = "Stopping" /\ Done(t)
    /\ UNCHANGED <<startVars, playVars, shown, change, playerVars, fifo, fifos, select, receiver,
                   matchVars, given, own, here>>

Gone(t) ==
    /\ Is(t, "Gone")
    /\ receiver' = None /\ Done(t)
    /\ UNCHANGED <<startVars, playVars, shown, change, playerVars, life, fifo, fifos, select,
                   matchVars, given, own, here>>

Cleaned(t) ==
    /\ Is(t, "Cleaned")
    /\ life' = "Cleaned" /\ Done(t)
    /\ UNCHANGED <<startVars, playVars, shown, change, playerVars, fifo, fifos, select, receiver,
                   matchVars, given, own, here>>

\* LiveManager::set, of a receiver this control plane has.
Lives(stage) == life' = IF life = "Cleaned" THEN life ELSE stage

LiveOn == film # None /\ film.live
Current == IF film = None THEN None ELSE film.number
Intended(t) == IF film = None THEN UNCHANGED playVars
               ELSE P!Intend(film.number, IF t = Back THEN "Stop" ELSE "Replace")

\* content_handover_failed, and content_end for the film the display is for.
HandoverFailed == /\ handover' = FALSE
                  /\ content' = IF handover THEN None ELSE content

\* The receiver goes with its player, unless it is kept for the next channel.
StopHere(t) ==
    /\ Is(t, "StopHere")
    /\ HandoverFailed
    /\ own' = [own EXCEPT ![t] = Current]
    /\ Intended(t) /\ LetsGo
    /\ Goes(t, <<"Quit">> \o (IF LiveOn \/ playing # None THEN StopReceiver ELSE <<>>)
               \o <<"Finish">> \o Rest(t))
    /\ UNCHANGED <<startVars, shown, change, unit, tunerVars, given, here>>

Finish(t) ==
    /\ Is(t, "Finish")
    /\ IF P!Playing(own[t]) THEN P!Finish(own[t], "Gone") ELSE UNCHANGED playVars
    /\ Done(t)
    /\ UNCHANGED <<startVars, shown, change, playerVars, tunerVars, matchVars, given, own, here>>

----------------------------------------------------------------------------
(* A channel is asked for.                                                    *)

Choose(c) ==
    /\ S!TakeNumber
    /\ svc' = [svc EXCEPT ![begun + 1] = c]
    /\ Goes(Start(begun + 1), <<"Count", "CallOff", "Lock">>)
    /\ UNCHANGED <<playVars, shown, change, playerVars, tunerVars, matchVars, may, own, here>>

CountIn(n) ==
    /\ Is(Start(n), "Count")
    /\ S!Count(n) /\ Done(Start(n))
    /\ UNCHANGED <<playVars, shown, change, playerVars, tunerVars, matchVars, given, own, here>>

CallOffOlder(n) ==
    /\ Is(Start(n), "CallOff")
    /\ S!CallOffOlder(n) /\ Done(Start(n))
    /\ UNCHANGED <<playVars, shown, change, playerVars, tunerVars, matchVars, given, own, here>>

Lock(n) ==
    /\ Is(Start(n), "Lock") /\ change = None
    /\ change' = n
    /\ Goes(Start(n), IF S!CalledOff(n) THEN <<"Over">> ELSE <<"Decide">>)
    /\ UNCHANGED <<startVars, playVars, shown, playerVars, tunerVars, matchVars, given, own, here>>

\* A receiver that is up may be in a state no channel can be had from at once.
CanReuse == IF life \in {"Starting", "Playing"} /\ ReceiverUp
            THEN {TRUE, ~may.fail} ELSE {FALSE}
Answers  == IF unit # None THEN {TRUE, ~may.fail} ELSE {FALSE}

SelectOldFifo(n) ==                      \* mutant: the name is not taken note of
    /\ fifos' = fifos + 1 /\ UNCHANGED fifo
    /\ select' = [service |-> svc[n], fifo |-> fifos + 1]
\* LiveManager::switch writes what it wants, for a FIFO of its own.
Select(n) ==
    /\ fifos' = fifos + 1 /\ fifo' = fifos + 1
    /\ select' = [service |-> svc[n], fifo |-> fifos + 1]

\* A new player on a receiver that stays, or everything anew.
WarmOrCold(t, reuse) ==
    IF reuse THEN /\ handover' = TRUE
                  /\ own' = [own EXCEPT ![t] = Current]
                  /\ Intended(t) /\ LetsGo
                  /\ Goes(t, <<"Quit", "Finish", "Ask", "HandSwitch", "Opened", "Rate", "Match",
                                "Matched">>)
                  /\ UNCHANGED content
             ELSE Goes(t, ColdStart) /\ UNCHANGED <<playVars, pnum, playing, matchVars, own>>

\* The channel that is on already; the same player; or another player.
Decide(n) ==
    /\ Is(Start(n), "Decide")
    /\ \E reuse \in CanReuse, answers \in Answers :
        IF reuse /\ answers /\ LiveOn
        THEN /\ IF shown = svc[n] THEN Goes(Start(n), <<"Over">>) /\ UNCHANGED <<tunerVars, own>>
                ELSE /\ Select(n) /\ UNCHANGED <<life, receiver>>
                     /\ own' = [own EXCEPT ![Start(n)] = Current]
                     /\ Goes(Start(n), <<"Switch", "Reload">>)
             /\ UNCHANGED <<playVars, pnum, playing, matchVars>>
        ELSE WarmOrCold(Start(n), reuse) /\ UNCHANGED tunerVars
    /\ UNCHANGED <<startVars, shown, change, unit, given, here>>

Retry(n) ==
    /\ Is(Start(n), "Retry")
    /\ \E reuse \in CanReuse : WarmOrCold(Start(n), reuse)
    /\ UNCHANGED <<startVars, shown, change, unit, tunerVars, given, here>>

Ask(n) ==
    /\ Is(Start(n), "Ask")
    /\ IF life = "Cleaned" THEN HandoverFailed /\ Goes(Start(n), ColdStart) /\ UNCHANGED tunerVars
       ELSE Select(n) /\ Done(Start(n)) /\ UNCHANGED <<life, receiver, matchVars>>
    /\ UNCHANGED <<startVars, playVars, shown, change, playerVars, given, own, here>>

\* The receiver streams it, or it is given up: for a newer start, or because
\* the receiver does not answer.
Switch(n) ==
    /\ Is(Start(n), "Switch") \/ Is(Start(n), "HandSwitch")
    /\ LET failed == IF Is(Start(n), "Switch") THEN <<"Retry">> ELSE ColdStart
       IN  \/ /\ S!CalledOff(n)
              /\ Goes(Start(n), <<"Over">>)
              /\ UNCHANGED <<life, matchVars>>
           \/ /\ ~S!CalledOff(n)
              /\ ReceiverUp /\ receiver.service = svc[n] /\ life # "Cleaned"
              /\ life' = "Starting" /\ Done(Start(n))
              /\ UNCHANGED matchVars
           \/ /\ ~S!CalledOff(n)
              /\ may.fail \/ ~ReceiverUp \/ life = "Cleaned"
              /\ IF Is(Start(n), "Switch") THEN UNCHANGED matchVars ELSE HandoverFailed
              /\ Goes(Start(n), failed)
              /\ UNCHANGED life
    /\ UNCHANGED <<startVars, playVars, shown, change, playerVars, fifo, fifos, select, receiver,
                   given, own, here>>

\* match_film for film `number`; refused while a setting is on trial; not
\* asked while no rate is known.
Matched(number) ==
    \/ may.match /\ content' \in {number, content} /\ handover' = FALSE
    \/ UNCHANGED matchVars

\* reload_live: the running player opens the new FIFO, and the display is
\* matched again beside it.
Reload(n) ==
    /\ Is(Start(n), "Reload")
    /\ \/ /\ unit # None
          /\ unit' = fifo
          /\ playing' = IF playing = None THEN None ELSE svc[n]
          /\ shown' = IF P!Playing(own[Start(n)]) THEN svc[n] ELSE shown
          /\ Lives("Playing")
          /\ own' = [own EXCEPT ![Rematch(n)] = pnum]
          /\ todo' = [todo EXCEPT ![Start(n)] = <<"Over">>, ![Rematch(n)] = <<"Match">>]
       \/ /\ unit = None \/ may.fail
          /\ Goes(Start(n), <<"Retry">>)
          /\ UNCHANGED <<unit, playing, shown, life, own>>
    /\ UNCHANGED <<startVars, playVars, change, pnum, fifo, fifos, select, receiver, matchVars, given,
                   here>>

\* LiveManager::start, once the receiver that ran before has gone.
Receiver(n) ==
    /\ Is(Start(n), "Receiver")
    /\ fifo' = 0 /\ select' = None
    /\ \/ /\ receiver = None
          /\ receiver' = [service |-> svc[n], fifo |-> 0, ended |-> FALSE]
          /\ life' = "Starting" /\ Done(Start(n))
       \/ /\ receiver # None \/ may.fail
          /\ life' = "Failed" /\ Goes(Start(n), <<"Over">>)
          /\ UNCHANGED receiver
    /\ UNCHANGED <<startVars, playVars, shown, change, playerVars, fifos, matchVars, given, own, here>>

GiveUp(n) == Goes(Start(n), StopReceiver \o <<"Over">>)

\* Its status says that it writes its FIFO; or its last one that it has failed;
\* or it says nothing, and is stopped.
Up(n) ==
    /\ Is(Start(n), "Up")
    /\ \/ ReceiverUp /\ life # "Cleaned" /\ Done(Start(n)) /\ UNCHANGED life
       \/ receiver # None /\ ~ReceiverUp /\ Lives("Failed") /\ Goes(Start(n), <<"Over">>)
       \/ /\ may.fail \/ receiver = None \/ life = "Cleaned"
          /\ GiveUp(n) /\ UNCHANGED life
    /\ UNCHANGED <<startVars, playVars, shown, change, playerVars, fifo, fifos, select, receiver,
                   matchVars, given, own, here>>

Opened(n) ==
    /\ Is(Start(n), "Opened")
    /\ IF S!CalledOff(n) THEN GiveUp(n) ELSE Done(Start(n))
    /\ UNCHANGED <<startVars, playVars, shown, change, playerVars, tunerVars, matchVars, given, own,
                   here>>

\* The display first, for the film the player is taken to have next.
Rate(n) ==
    /\ Is(Start(n), "Rate")
    /\ own' = [own EXCEPT ![Start(n)] = pnum + 1]
    /\ Done(Start(n))
    /\ UNCHANGED <<startVars, playVars, shown, change, playerVars, tunerVars, matchVars, given, here>>

Match(t) ==
    /\ Is(t, "Match")
    /\ Matched(own[t]) /\ Done(t)
    /\ UNCHANGED <<startVars, playVars, shown, change, playerVars, tunerVars, given, own, here>>

AfterMatchKeeps(n) ==                    \* mutant: the receiver is left running
    /\ Is(Start(n), "Matched")
    /\ Goes(Start(n), IF S!CalledOff(n) THEN <<"Over">>
                      ELSE StopPlayer \o <<"Launch", "Launched", "Begin">>)
    /\ UNCHANGED <<startVars, playVars, shown, change, playerVars, tunerVars, matchVars, given, own,
                   here>>
AfterMatch(n) ==
    /\ Is(Start(n), "Matched")
    /\ IF S!CalledOff(n) THEN GiveUp(n)
       ELSE Goes(Start(n), StopPlayer \o <<"Launch", "Launched", "Begin">>)
    /\ UNCHANGED <<startVars, playVars, shown, change, playerVars, tunerVars, matchVars, given, own,
                   here>>

Launch(n) ==
    /\ Is(Start(n), "Launch")
    /\ pnum' = pnum + 1
    /\ \/ unit = None /\ unit' = fifo /\ Done(Start(n))
       \/ (unit # None \/ may.fail) /\ UNCHANGED unit /\ GiveUp(n)
    /\ UNCHANGED <<startVars, playVars, shown, change, playing, tunerVars, matchVars, given, own, here>>

Launched(n) ==
    /\ Is(Start(n), "Launched")
    /\ playing' = svc[n] /\ Done(Start(n))
    /\ UNCHANGED <<startVars, playVars, shown, change, pnum, unit, tunerVars, matchVars, given, own,
                   here>>

\* The film is on record, and followed.
Record(n) ==
    /\ P!Begin("Here", TRUE, FALSE, None, FALSE, "Short")
    /\ shown' = svc[n] /\ Lives("Playing")
    /\ here' = [here EXCEPT ![next + 1] = pnum]
    /\ todo' = [todo EXCEPT ![Start(n)] = <<"Over">>, ![Mpv(next + 1)] = <<"Hear">>,
                            ![Display(next + 1)] = <<"Opening", "End">>,
                            ![Source(next + 1)] = <<"Watch">>]

BeginAnyway(n) ==                        \* mutant: not asked whether it is called off
    /\ Is(Start(n), "Begin") /\ Record(n)
    /\ UNCHANGED <<startVars, change, playerVars, fifo, fifos, select, receiver, matchVars, given, own>>
BeginLeavesPlayer(n) ==                  \* mutant: the player is not stopped
    /\ Is(Start(n), "Begin")
    /\ IF S!CalledOff(n) THEN GiveUp(n) /\ UNCHANGED <<playVars, shown, life, here>> ELSE Record(n)
    /\ UNCHANGED <<startVars, change, playerVars, fifo, fifos, select, receiver, matchVars, given, own>>
Begin(n) ==
    /\ Is(Start(n), "Begin")
    /\ IF S!CalledOff(n)
       THEN /\ Goes(Start(n), StopPlayer \o StopReceiver \o <<"Over">>)
            /\ UNCHANGED <<playVars, shown, life, here>>
       ELSE Record(n)
    /\ UNCHANGED <<startVars, change, playerVars, fifo, fifos, select, receiver, matchVars, given, own>>

OverKeepsLock(n) ==                      \* mutant: the lock outlives the start
    /\ Is(Start(n), "Over")
    /\ S!EndStart(n) /\ Done(Start(n))
    /\ own' = [own EXCEPT ![Start(n)] = None]
    /\ UNCHANGED <<playVars, shown, change, playerVars, tunerVars, matchVars, given, here>>
\* The guard and the lock are dropped.
Over(n) ==
    /\ Is(Start(n), "Over")
    /\ S!EndStart(n)
    /\ change' = None /\ Done(Start(n))
    /\ own' = [own EXCEPT ![Start(n)] = None]
    /\ UNCHANGED <<playVars, shown, playerVars, tunerVars, matchVars, given, here>>

----------------------------------------------------------------------------
(* Back (MediaStopHere), once.                                                *)

PressBack ==
    /\ may.stop
    /\ todo[Back] = <<"Idle">>
    /\ S!ReadBegun
    /\ Goes(Back, <<"CallOff", "StopHere">>)
    /\ UNCHANGED <<playVars, shown, change, playerVars, tunerVars, matchVars, given, own, here>>

BackCallsOff ==
    /\ Is(Back, "CallOff")
    /\ \E read \in backs : S!CallOffRead(read)
    /\ Done(Back)
    /\ UNCHANGED <<playVars, shown, change, playerVars, tunerVars, matchVars, given, own, here>>

----------------------------------------------------------------------------
(* The followers of film m.                                                   *)

\* follow_mpv: the player is gone.  If it was not stopped by the control plane
\* the follower stops what is left of it, and the receiver.
Hear(m) ==
    /\ Is(Mpv(m), "Hear")
    /\ unit = None \/ pnum # here[m]
    /\ IF P!Playing(m) THEN P!Finish(m, "Gone") ELSE UNCHANGED playVars
    /\ IF P!Playing(m) /\ pnum = here[m]
       THEN LetsGo /\ Goes(Mpv(m), <<"Quit">> \o StopReceiver)
       ELSE UNCHANGED <<playing, pnum>> /\ Goes(Mpv(m), <<>>)
    /\ UNCHANGED <<startVars, shown, change, unit, tunerVars, matchVars, given, own, here>>

\* follow_film: matched again to what the stream says, and taken back.  (What
\* is matched once more, its remembered rate wrong, is what was matched here.)
Opening(m) ==
    /\ Is(Display(m), "Opening")
    /\ \/ /\ pnum # here[m]
          /\ Goes(Display(m), <<>>) /\ UNCHANGED matchVars
       \/ Matched(here[m]) /\ Done(Display(m))
    /\ UNCHANGED <<startVars, playVars, shown, change, playerVars, tunerVars, given, own, here>>

ContentEndsAny(number) ==                \* mutant: not asked whose match it is
    content' = IF handover THEN content ELSE None
ContentEnds(number) == content' = IF content = number /\ ~handover THEN None ELSE content

\* The player is gone, or has another film, or has twice not answered.
End(m) ==
    /\ Is(Display(m), "End")
    /\ unit = None \/ pnum # here[m] \/ may.fail
    /\ ContentEnds(here[m]) /\ UNCHANGED handover
    /\ Done(Display(m))
    /\ UNCHANGED <<startVars, playVars, shown, change, playerVars, tunerVars, given, own, here>>

\* follow_live: the receiver has gone and the player has not noticed.
Watch(m) ==
    /\ Is(Source(m), "Watch")
    /\ \/ /\ pnum # here[m]
          /\ Goes(Source(m), <<>>) /\ UNCHANGED <<playVars, playing, pnum>>
       \/ /\ pnum = here[m] /\ ~ReceiverUp
          /\ IF P!Playing(m) THEN P!SourceEnded(m, "Broken") ELSE UNCHANGED playVars
          /\ LetsGo /\ Goes(Source(m), <<"Quit">>)
    /\ UNCHANGED <<startVars, shown, change, unit, tunerVars, matchVars, given, own, here>>

----------------------------------------------------------------------------
(* The receiver's process and the player's.                                   *)

ReceiverFollows ==
    /\ select # None /\ ReceiverUp
    /\ receiver' = [receiver EXCEPT !.service = select.service, !.fifo = select.fifo]
    /\ select' = None
    /\ UNCHANGED <<startVars, playVars, shown, change, playerVars, life, fifo, fifos, matchVars, given,
                   taskVars>>

ReceiverEnds ==
    /\ may.fail /\ ReceiverUp
    /\ receiver' = [receiver EXCEPT !.ended = TRUE]
    /\ UNCHANGED <<startVars, playVars, shown, change, playerVars, life, fifo, fifos, select,
                   matchVars, given, taskVars>>

PlayerDies ==
    /\ may.fail /\ unit # None
    /\ unit' = None
    /\ UNCHANGED <<startVars, playVars, shown, change, pnum, playing, tunerVars, matchVars, given,
                   taskVars>>

----------------------------------------------------------------------------
LiveStartInit ==
    /\ S!StartsInit /\ P!PlayInit
    /\ shown = None /\ change = None
    /\ pnum = 0 /\ playing = None /\ unit = None
    /\ life = "Cleaned" /\ fifo = 0 /\ fifos = 0 /\ select = None /\ receiver = None
    /\ content = None /\ handover = FALSE
    /\ svc = [n \in StartIds |-> None] /\ may \in Worlds
    /\ todo = [t \in Tasks |-> IF t = Back THEN <<"Idle">> ELSE <<>>]
    /\ own = [t \in Tasks |-> None] /\ here = [m \in StartIds |-> None]

StartStep(n) ==
    \/ CountIn(n) \/ CallOffOlder(n) \/ Lock(n) \/ Decide(n) \/ Retry(n) \/ Ask(n) \/ Switch(n)
    \/ Reload(n) \/ Receiver(n) \/ Up(n) \/ Opened(n) \/ Rate(n) \/ AfterMatch(n)
    \/ Launch(n) \/ Launched(n) \/ Begin(n) \/ Over(n)

StopStep(t) ==
    Take(t) \/ Quit(t) \/ Stopping(t) \/ Gone(t) \/ Cleaned(t) \/ StopHere(t) \/ Finish(t)
    \/ Match(t)

FollowStep(m) == Hear(m) \/ Opening(m) \/ End(m) \/ Watch(m)

LiveStartNext ==
    \/ \E c \in Channels : Choose(c)
    \/ \E n \in StartIds : StartStep(n) \/ FollowStep(n)
    \/ \E t \in Tasks : StopStep(t)
    \/ PressBack \/ BackCallsOff
    \/ ReceiverFollows \/ ReceiverEnds \/ PlayerDies

LiveStartSpec == LiveStartInit /\ [][LiveStartNext]_vars

----------------------------------------------------------------------------
(* Properties.                                                                *)

\* Nothing is under way: every request is answered, every task has come to
\* where it waits for the player or the receiver to end.
Quiet ==
    /\ \A n \in StartIds : todo[Start(n)] = <<>>
    /\ todo[Back] = <<>> \/ Is(Back, "Idle")
    /\ select = None \/ ~ReceiverUp
    /\ \A m \in StartIds :
        /\ todo[Rematch(m)] = <<>>
        /\ todo[Mpv(m)] = <<>> \/ (Is(Mpv(m), "Hear") /\ unit # None /\ pnum = here[m])
        /\ todo[Display(m)] = <<>> \/ (Is(Display(m), "End") /\ unit # None /\ pnum = here[m])
        /\ todo[Source(m)] = <<>> \/ (Is(Source(m), "Watch") /\ pnum = here[m] /\ ReceiverUp)

\* What is held is what the code can hold.
LiveStartTypeOK ==
    /\ S!StartsTypeOK
    /\ shown \in Channels \cup {None} /\ playing \in Channels \cup {None}
    /\ unit \in 0..fifos \cup {None} /\ fifo \in 0..fifos
    /\ receiver # None => receiver.service \in Channels /\ receiver.fifo \in 0..fifos
    /\ life \in {"Cleaned", "Starting", "Playing", "Failed", "Stopping"}
    /\ content \in 0..pnum + 1 \cup {None} /\ handover \in BOOLEAN
    /\ change # None => change \in underway

\* No player is left playing that is not on record, whatever called its start
\* off and when (play_live, stop_here, follow_mpv).
NoStrayPlayer == Quiet /\ unit # None => film # None

\* Back, once it has called every start off, has the last word over a channel
\* still opening: nothing plays (play_live, MediaStopHere).
BackStopsLive == Quiet /\ calledOff = begun => film = None /\ unit = None

\* What is on record is what the receiver streams, and to the FIFO the player
\* reads, whichever of the two was started again (play_live, LiveManager::
\* switch).  When a start returns to a channel after another it is not so:
\* playback.rs:355, begin_start, "the newest choice is the one that plays".
ChannelPlays ==
    Quiet /\ film # None => /\ receiver # None
                            /\ receiver.service = shown /\ receiver.fifo = unit

\* No receiver powers the LNB with nobody watching: daemon.rs:1760, stop_here,
\* "the receiver goes with its player" and "is not kept in standby".
ReceiverGoesWithPlayer == Quiet /\ film = None => ~ReceiverUp

\* The match of the film that plays is not taken back under it by anybody but its
\* own follower, which has found its player silent: not by the end of the film
\* before, whose follower may be late, and not by a hand-over that came to nothing
\* (content_end, content_handover_failed).
OwnFollowerEnds == /\ may.fail /\ Is(Display(film.number), "End")
                   /\ todo'[Display(film.number)] = <<>>
MatchStays ==
    [][ film # None /\ unit # None /\ pnum = here[film.number] /\ content = pnum
        => content' # None \/ OwnFollowerEnds ]_vars
=============================================================================
