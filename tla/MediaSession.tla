---------------------------- MODULE MediaSession ----------------------------
(* The media worker's sessions, media/proxy/session.py: one ffmpeg child for  *)
(* each transformed source, the readers of its pipe, who holds it, the reaper *)
(* and the stops.  Requests are threads; whatever a method does under         *)
(* SessionManager._lock is one step, and what it does between two takings of  *)
(* the lock (a child terminated and waited for) leaves room for the others.   *)
EXTENDS Integers, FiniteSets

CONSTANTS
    Sources,      \* addresses, each in the mode it is played in
    Direct,       \* those played as they are: no child
    Readers,      \* HTTP requests for a session's bytes
    MaxSessions,  \* bound on the sessions made
    MaxChildren,  \* bound on the children started
    MaxAsked,     \* bound on what the daemon asks: creates, releases, stops
    MaxLost,      \* bound on the answers whose client is gone before them
    None

ASSUME SessionAssumption ==
    /\ Direct \subseteq Sources /\ IsFiniteSet(Readers)
    /\ MaxSessions \in Nat /\ MaxChildren \in Nat /\ MaxAsked \in Nat /\ MaxLost \in Nat
    /\ None \notin Nat /\ None \notin Sources

VARIABLES
    session,      \* the records, by number; Unmade before and after
    bySource,     \* _by_source: the session to be had again for a source
    made,         \* how many sessions were made
    child,        \* the children: where each is in its life, and whose it is
    due,          \* children handed to _terminate, and not yet told to end
    started,      \* how many children were started
    reader,       \* where each reader's request is
    stops,        \* client stops under way, and the reaper's
    doomed,       \* what reap_once has decided to end and has not yet begun to
    asked,        \* how much the daemon has asked for
    lost          \* how many answers found their client gone

vars == <<session, bySource, made, child, due, started, reader, stops, doomed, asked, lost>>

SessionIds == 1..MaxSessions
ChildIds   == 1..MaxChildren
Reaper     == 0                          \* who stops: the reaper, or a request by number
Viewer     == "viewer"                   \* the owner a session is made for
Live       == {"Created", "Running"}
Unmade     == [source |-> None, state |-> "Unmade", owner |-> None, clients |-> 0,
               proc |-> None, served |-> FALSE, idle |-> FALSE]
Away       == [pc |-> "Away", of |-> None, proc |-> None]

Held(i)   == session[i].owner # None \/ session[i].clients > 0
Record(i, s) == session' = [session EXCEPT ![i] = s]
Seen(s)   == [s EXCEPT !.idle = FALSE]   \* last_seen = now

----------------------------------------------------------------------------
(* create() and release().                                                    *)

Existing(src) == bySource[src] # None /\ session[bySource[src]].state \in Live

Again(src, owner) ==
    /\ Existing(src)
    /\ LET i == bySource[src] IN
       Record(i, [Seen(session[i]) EXCEPT !.owner = IF owner = None THEN @ ELSE owner])
    /\ UNCHANGED <<bySource, made>>

Anew(src, owner) ==
    /\ ~Existing(src)
    /\ made < MaxSessions
    /\ made' = made + 1
    /\ Record(made + 1, [Unmade EXCEPT !.source = src, !.owner = owner,
                            !.state = IF src \in Direct THEN "Running" ELSE "Created"])
    /\ bySource' = [bySource EXCEPT ![src] = made + 1]

Asks == asked < MaxAsked /\ asked' = asked + 1

Create(src, owner) ==
    /\ Again(src, owner) \/ Anew(src, owner)
    /\ Asks
    /\ UNCHANGED <<child, due, started, reader, stops, doomed, lost>>

Release(i) ==
    /\ session[i].state # "Unmade"
    /\ Record(i, [Seen(session[i]) EXCEPT !.owner = None])
    /\ Asks
    /\ UNCHANGED <<bySource, made, child, due, started, reader, stops, doomed, lost>>

----------------------------------------------------------------------------
(* A reader: _serve_session, then attach() or read_direct(), then the stream. *)

Goes(r, pc)  == reader' = [reader EXCEPT ![r].pc = pc]
Leaves(r)    == reader' = [reader EXCEPT ![r] = Away]
OnlyReads    == UNCHANGED <<bySource, made, due, stops, doomed, asked>>

\* An address that has been let go is an error, not an end of file.
Ask(r, i) ==
    /\ reader[r].pc = "Away"
    /\ session[i].state \in Live
    /\ reader' = [reader EXCEPT ![r] =
                    [pc |-> IF session[i].source \in Direct THEN "Count" ELSE "Rewind",
                     of |-> i, proc |-> None]]
    /\ UNCHANGED <<session, child, started, lost>> /\ OnlyReads

\* _rewind_for_a_new_reader: a pipe has one position.
RewindsAnyway(s) == s.served /\ s.proc # None   \* mutant: another may be reading
NeedsRewind(s) == s.clients = 0 /\ s.served /\ s.proc # None

\* Under the lock the session only lets go of its child.
Rewind(r) ==
    /\ reader[r].pc = "Rewind"
    /\ LET i == reader[r].of
           s == session[i] IN
       IF NeedsRewind(s)
       THEN /\ Record(i, [s EXCEPT !.proc = None, !.served = FALSE, !.state = "Created"])
            /\ reader' = [reader EXCEPT ![r].pc = "Terminate", ![r].proc = s.proc]
            /\ due' = due \cup {s.proc}
       ELSE /\ Goes(r, "Start") /\ UNCHANGED <<session, due>>
    /\ UNCHANGED <<bySource, made, child, started, stops, doomed, asked, lost>>

\* _terminate returns once the child has been waited for.
Rewound(r) ==
    /\ reader[r].pc = "Terminate"
    /\ child[reader[r].proc].life = "Exited"
    /\ reader' = [reader EXCEPT ![r].pc = "Start", ![r].proc = None]
    /\ UNCHANGED <<session, child, started, lost>> /\ OnlyReads

\* _start: the child, if there is none; a failed Popen fails the session.
HasNoChildSeen(s) == FALSE               \* mutant: started without looking
HasChild(s) == s.proc # None
Start(r) ==
    /\ reader[r].pc = "Start"
    /\ LET i == reader[r].of
           s == session[i] IN
       \/ /\ HasChild(s)
          /\ Goes(r, "Count") /\ UNCHANGED <<session, child, started>>
       \/ /\ ~HasChild(s) /\ s.state \in {"Stopping", "Stopped"}
          /\ Leaves(r) /\ UNCHANGED <<session, child, started>>
       \/ /\ ~HasChild(s) /\ s.state \notin {"Stopping", "Stopped"} /\ started < MaxChildren
          /\ \/ /\ started' = started + 1
                /\ child' = [child EXCEPT ![started + 1] = [life |-> "Runs", of |-> i]]
                /\ Record(i, [s EXCEPT !.proc = started + 1, !.state = "Running"])
                /\ Goes(r, "Count")
             \/ /\ Record(i, [s EXCEPT !.state = "Failed"])
                /\ Leaves(r)
                /\ UNCHANGED <<started, child>>
    /\ UNCHANGED lost /\ OnlyReads

Counted(s) == [Seen(s) EXCEPT !.clients = @ + 1]
Count(r) ==
    /\ reader[r].pc = "Count"
    /\ Record(reader[r].of, Counted(session[reader[r].of]))
    /\ Goes(r, "Answer")
    /\ UNCHANGED <<child, started, lost>> /\ OnlyReads

\* _send_stream writes the header before the stream is looked at: a client gone
\* by then leaves it neither read nor closed, and its count as it was.
AnswerLost(r) ==
    /\ reader[r].pc = "Answer" /\ lost < MaxLost
    /\ lost' = lost + 1
    /\ Leaves(r)
    /\ UNCHANGED <<session, child, started>> /\ OnlyReads

\* The generator starts: the child it reads is the one there is now.  With none
\* (the session was stopped) it fails before its try, and detaches nothing.
Open(r) ==
    /\ reader[r].pc = "Answer"
    /\ LET s == session[reader[r].of] IN
       IF s.source \notin Direct /\ s.proc = None
       THEN Leaves(r)
       ELSE reader' = [reader EXCEPT ![r].pc = "Read", ![r].proc = s.proc]
    /\ UNCHANGED <<session, child, started, lost>> /\ OnlyReads

\* A block: nothing comes of a child that is being ended or is gone.
Flows(r) == reader[r].proc # None => child[reader[r].proc].life = "Runs"
Read(r) ==
    /\ reader[r].pc = "Read" /\ Flows(r)
    /\ LET i == reader[r].of IN
       Record(i, [Seen(session[i]) EXCEPT !.served = @ \/ session[i].source \notin Direct])
    /\ UNCHANGED <<reader, child, started, lost>> /\ OnlyReads

\* The end of the stream, or of the client: detach().
LessOne(n) == IF n = 0 THEN 0 ELSE n - 1
DetachedAll(s) ==                        \* mutant: as if there had been one reader
    IF s.state = "Unmade" THEN s ELSE [Seen(s) EXCEPT !.clients = 0]
Detached(s) == IF s.state = "Unmade" THEN s ELSE [Seen(s) EXCEPT !.clients = LessOne(@)]
Detach(r) ==
    /\ reader[r].pc = "Read"
    /\ Record(reader[r].of, Detached(session[reader[r].of]))
    /\ Leaves(r)
    /\ UNCHANGED <<child, started, lost>> /\ OnlyReads

----------------------------------------------------------------------------
(* stop(): two takings of the lock, and the child ended between them.  The    *)
(* reaper's stops are its thread's, one after the other.                      *)

BeginStop(i, by) ==
    /\ session[i].state \notin {"Unmade", "Stopped"}
    /\ LET s == session[i] IN
       /\ Record(i, [s EXCEPT !.state = "Stopping"])
       /\ bySource' = [bySource EXCEPT ![s.source] = None]
       /\ stops' = stops \cup {[of |-> i, by |-> by, proc |-> s.proc]}
       /\ due' = IF s.proc = None THEN due ELSE due \cup {s.proc}

Waited(stop) == stop.proc # None => child[stop.proc].life = "Exited"
\* Nothing of an ended session is looked at again but that it has ended.
Ended(s) == [Unmade EXCEPT !.state = "Stopped", !.source = s.source]
EndStop(stop) ==
    /\ Waited(stop)
    /\ Record(stop.of, IF session[stop.of].state = "Unmade" THEN Unmade
                       ELSE Ended(session[stop.of]))
    /\ stops' = stops \ {stop}
    /\ UNCHANGED <<bySource, made, child, due, started, reader, doomed, asked, lost>>

AskStop(i) ==
    /\ Asks
    /\ BeginStop(i, asked + 1)
    /\ UNCHANGED <<made, child, started, reader, doomed, lost>>

----------------------------------------------------------------------------
(* The reaper: reap_once and forget_stopped.                                  *)

DoomedWithChild(i) ==                    \* mutant: a direct session has nothing running
    LET s == session[i] IN
    /\ s.state \in Live /\ s.source \notin Direct
    /\ (~Held(i) /\ s.idle) \/ (s.proc # None /\ child[s.proc].life = "Exited")
Doomed(i) ==
    LET s == session[i] IN
    /\ s.state \in Live
    /\ \/ ~Held(i) /\ s.idle
       \/ s.source \notin Direct /\ s.proc # None /\ child[s.proc].life = "Exited"
ReaperRests == doomed = {} /\ \A stop \in stops : stop.by # Reaper
ReapOnce ==
    /\ ReaperRests
    /\ doomed' = {i \in SessionIds : Doomed(i)}
    /\ doomed' # {}
    /\ UNCHANGED <<session, bySource, made, child, due, started, reader, stops, asked, lost>>

\* stop() of one that has ended meanwhile does nothing.
ReapNext(i) ==
    /\ i \in doomed
    /\ \A stop \in stops : stop.by # Reaper
    /\ doomed' = doomed \ {i}
    /\ \/ BeginStop(i, Reaper)
       \/ /\ session[i].state \in {"Unmade", "Stopped"}
          /\ UNCHANGED <<session, bySource, stops, due>>
    /\ UNCHANGED <<made, child, started, reader, asked, lost>>

\* Five minutes on: no request is still on its way to the stream, but one may read.
Forget(i) ==
    /\ ReaperRests
    /\ session[i].state = "Stopped"
    /\ \A stop \in stops : stop.of # i
    /\ \A r \in Readers : reader[r].of = i => reader[r].pc = "Read"
    /\ Record(i, Unmade)
    /\ UNCHANGED <<bySource, made, child, due, started, reader, stops, doomed, asked, lost>>

----------------------------------------------------------------------------
(* Time, and the children: one told to end ends (SIGKILL), any may.           *)

\* _terminate's signal: outside the lock, by whoever let go of the child.  (Two
\* may have: the second's finds it told.)
Tell(c) ==
    /\ c \in due
    /\ due' = due \ {c}
    /\ child' = [child EXCEPT ![c].life = IF @ = "Runs" THEN "Terminating" ELSE @]
    /\ UNCHANGED <<session, bySource, made, started, reader, stops, doomed, asked, lost>>

\* The TTL has passed since last_seen (four times it for a direct session).
Idles(i) ==
    /\ session[i].state \in Live /\ ~session[i].idle
    /\ Record(i, [session[i] EXCEPT !.idle = TRUE])
    /\ UNCHANGED <<bySource, made, child, due, started, reader, stops, doomed, asked, lost>>

Exits(c) ==
    /\ child[c].life \in {"Runs", "Terminating"}
    /\ child' = [child EXCEPT ![c].life = "Exited"]
    /\ UNCHANGED <<session, bySource, made, due, started, reader, stops, doomed, asked, lost>>

----------------------------------------------------------------------------
SessionInit ==
    /\ session = [i \in SessionIds |-> Unmade]
    /\ bySource = [src \in Sources |-> None]
    /\ made = 0 /\ started = 0 /\ asked = 0 /\ lost = 0
    /\ child = [c \in ChildIds |-> [life |-> "None", of |-> None]]
    /\ reader = [r \in Readers |-> Away]
    /\ stops = {} /\ doomed = {} /\ due = {}

ReaderNext(r) ==
    \/ \E i \in SessionIds : Ask(r, i)
    \/ Rewind(r) \/ Rewound(r) \/ Start(r) \/ Count(r)
    \/ AnswerLost(r) \/ Open(r) \/ Read(r) \/ Detach(r)

SessionNext ==
    \/ \E src \in Sources, owner \in {Viewer, None} : Create(src, owner)
    \/ \E i \in SessionIds : Release(i) \/ AskStop(i) \/ ReapNext(i) \/ Forget(i) \/ Idles(i)
    \/ \E r \in Readers : ReaderNext(r)
    \/ \E stop \in stops : EndStop(stop)
    \/ ReapOnce
    \/ \E c \in ChildIds : Tell(c) \/ Exits(c)

SessionSpec == SessionInit /\ [][SessionNext]_vars

\* The reaper's thread runs on, time passes, and a child let go of is told to
\* end, and gone (SIGKILL).
SessionFairness ==
    /\ WF_vars(ReapOnce)
    /\ \A i \in SessionIds : WF_vars(ReapNext(i)) /\ WF_vars(Idles(i))
    /\ \A c \in ChildIds : WF_vars(Tell(c)) /\ WF_vars(child[c].life = "Terminating" /\ Exits(c))
    /\ WF_vars(\E stop \in stops : stop.by = Reaper /\ EndStop(stop))
FairSessions == SessionSpec /\ SessionFairness

----------------------------------------------------------------------------
(* Properties                                                                 *)

\* The records, children and requests are ones the manager can hold.
SessionRecord ==
    [source : Sources \cup {None}, owner : {Viewer, None}, clients : Nat,
     state : Live \cup {"Unmade", "Stopping", "Stopped", "Failed"},
     proc : ChildIds \cup {None}, served : BOOLEAN, idle : BOOLEAN]
Child  == [life : {"None", "Runs", "Terminating", "Exited"}, of : SessionIds \cup {None}]
Reader == [pc : {"Away", "Rewind", "Terminate", "Start", "Count", "Answer", "Read"},
           of : SessionIds \cup {None}, proc : ChildIds \cup {None}]
SessionTypeOK ==
    /\ session \in [SessionIds -> SessionRecord]
    /\ bySource \in [Sources -> SessionIds \cup {None}]
    /\ made \in 0..MaxSessions /\ started \in 0..MaxChildren
    /\ asked \in 0..MaxAsked /\ lost \in 0..MaxLost
    /\ child \in [ChildIds -> Child]
    /\ reader \in [Readers -> Reader]
    /\ doomed \subseteq SessionIds /\ due \subseteq ChildIds
    /\ stops \subseteq [of : SessionIds, by : Nat, proc : ChildIds \cup {None}]

ReadersOf(i) == {r \in Readers : reader[r].of = i /\ reader[r].pc \in {"Answer", "Read"}}

\* "One child per session": however requests, rewinds and stops interleave, a
\* session has no second encoder running beside one that nobody has in hand to
\* end.  The one a rewind or a stop has let go of does run on beside its
\* successor until that thread has come to its signal (_rewind_for_a_new_reader,
\* _start, _terminate).
Runs(c) == child[c].life = "Runs" /\ c \notin due
OneEncoderPerSession ==
    \A c, d \in ChildIds : Runs(c) /\ Runs(d) /\ child[c].of = child[d].of => c = d

\* A session that is to be had counts at least the readers it has: counting
\* fewer, it would be reaped or rewound under one of them.
ReadersAreCounted ==
    \A i \in SessionIds :
        session[i].state \in Live => Cardinality(ReadersOf(i)) <= session[i].clients

\* A reader of a session that is to be had reads the child the session has: no
\* rewind for a second reader has taken the stream from the first.
NotCutByARewind ==
    \A r \in Readers :
        reader[r].pc = "Read" /\ session[reader[r].of].state \in Live
            => reader[r].proc = session[reader[r].of].proc

\* What nobody holds and no reader is counted of is ended, whoever left it and
\* when (release, detach, reap_once).  The count is the session's word for its
\* readers, and it is above them once a client has gone before its answer.
AbandonedIsEnded ==
    \A i \in SessionIds :
        (session[i].state \in Live /\ ~Held(i)) ~> ~(session[i].state \in Live /\ ~Held(i))

\* What is promised is more, of readers and not of counts: "no reader for the TTL
\* -> stop" (media-session-proxy.md), "a session nobody holds and nobody is
\* reading" (session.py).  A client gone before its header is written leaves its
\* count for good (AnswerLost; the run that refutes this is media_unread).
Unread(i) ==
    /\ session[i].state \in Live /\ session[i].owner = None
    /\ \A r \in Readers : reader[r].of # i
UnreadIsEnded == \A i \in SessionIds : Unread(i) ~> ~Unread(i)

=============================================================================
