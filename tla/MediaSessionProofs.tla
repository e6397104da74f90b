------------------------- MODULE MediaSessionProofs -------------------------
(* What holds of the worker's sessions for any sources, readers and bounds.   *)
(* OneEncoderPerSession is not inductive: it needs that a child that runs,   *)
(* and that nobody has let go of, is the one its session has, unless that     *)
(* session is over (Attached), that a session that is over has none and is    *)
(* never begun again (Over), and that no request on its way to a stream finds *)
(* its session forgotten (Reached).                                           *)
EXTENDS MediaSession, FiniteSetTheorems, TLAPS

IsOver(i)  == session[i].state \in {"Stopped", "Unmade"}
OnItsWay   == {"Rewind", "Terminate", "Start", "Count", "Answer"}

\* A running child that nobody has let go of is its session's, or its session is
\* over.
Attached ==
    \A c \in ChildIds : Runs(c) =>
        /\ child[c].of \in SessionIds /\ child[c].of <= made
        /\ session[child[c].of].proc = c \/ IsOver(child[c].of)

\* What is over has no child to be rewound, and what is yet to come is unmade.
Over ==
    /\ \A i \in SessionIds : IsOver(i) => session[i].proc = None
    /\ \A i \in SessionIds : i > made => session[i].state = "Unmade"

\* A request is for a session, and it is there until the stream is.
Reached ==
    \A r \in Readers :
        /\ reader[r].pc # "Away" => reader[r].of \in SessionIds
        /\ reader[r].pc \in OnItsWay => session[reader[r].of].state # "Unmade"
        /\ reader[r].pc = "Terminate" => reader[r].proc \in ChildIds

\* Until a session is over it counts the requests that have its stream, and they
\* read the child it has; only what is transformed is rewound and started.
Known ==
    \A r \in Readers : reader[r].pc # "Away" => reader[r].of <= made
Told ==
    \A i \in SessionIds : ~IsOver(i) => Cardinality(ReadersOf(i)) <= session[i].clients
Drawn ==
    \A r \in Readers :
        /\ reader[r].pc = "Read" /\ ~IsOver(reader[r].of) =>
              /\ reader[r].proc = session[reader[r].of].proc
              /\ session[reader[r].of].source \notin Direct => reader[r].proc # None
        /\ reader[r].pc \in {"Rewind", "Terminate", "Start"} =>
              session[reader[r].of].source \notin Direct

SessionInv == SessionTypeOK /\ Attached /\ Over /\ Reached /\ OneEncoderPerSession
ReaderInv  == SessionInv /\ Known /\ Told /\ Drawn

\* What setting a record, a request or a child leaves.
LEMMA SetSession ==
    ASSUME SessionTypeOK, NEW i \in SessionIds, NEW s \in SessionRecord, Record(i, s)
    PROVE  /\ session' \in [SessionIds -> SessionRecord]
           /\ session'[i] = s /\ \A j \in SessionIds \ {i} : session'[j] = session[j]
  BY DEF SessionTypeOK, Record

\* A request that goes on keeps its session and its child.
LEMMA SetReader ==
    ASSUME SessionTypeOK, NEW r \in Readers, NEW x \in Reader,
           reader' = [reader EXCEPT ![r] = x]
    PROVE  /\ reader' \in [Readers -> Reader]
           /\ reader'[r] = x /\ \A q \in Readers \ {r} : reader'[q] = reader[q]
  BY DEF SessionTypeOK

LEMMA ReaderGoes ==
    ASSUME SessionTypeOK, NEW r \in Readers, NEW pc \in OnItsWay \cup {"Read"}, Goes(r, pc)
    PROVE  /\ reader' \in [Readers -> Reader]
           /\ reader'[r].pc = pc /\ reader'[r].of = reader[r].of
           /\ reader'[r].proc = reader[r].proc
           /\ \A q \in Readers \ {r} : reader'[q] = reader[q]
<1>1. reader[r] \in Reader
  BY DEF SessionTypeOK
<1>2. [reader[r] EXCEPT !.pc = pc] \in Reader
  BY <1>1 DEF Reader, OnItsWay
<1>3. reader' = [reader EXCEPT ![r] = [reader[r] EXCEPT !.pc = pc]]
  BY DEF Goes
<1>4. /\ [reader[r] EXCEPT !.pc = pc].pc = pc
      /\ [reader[r] EXCEPT !.pc = pc].of = reader[r].of
      /\ [reader[r] EXCEPT !.pc = pc].proc = reader[r].proc
  BY <1>1 DEF Reader
<1> QED BY <1>2, <1>3, <1>4, SetReader

\* A request that is over has no session.
LEMMA ReaderLeaves ==
    ASSUME SessionTypeOK, NEW r \in Readers, Leaves(r)
    PROVE  /\ reader' \in [Readers -> Reader] /\ reader'[r].pc = "Away"
           /\ \A q \in Readers \ {r} : reader'[q] = reader[q]
<1>1. Away \in Reader /\ Away.pc = "Away"
  BY DEF Away, Reader
<1> QED BY <1>1, SetReader DEF Leaves

\* A child asked to end, or that ends, is whose it was.
LEMMA SetChild ==
    ASSUME SessionTypeOK, NEW c \in ChildIds,
           NEW life \in {"Runs", "Terminating", "Exited"},
           child' = [child EXCEPT ![c].life = life]
    PROVE  /\ child' \in [ChildIds -> Child]
           /\ child'[c].life = life /\ child'[c].of = child[c].of
           /\ \A d \in ChildIds \ {c} : child'[d] = child[d]
<1>1. child[c] \in Child
  BY DEF SessionTypeOK
<1>2. [child[c] EXCEPT !.life = life] \in Child
  BY <1>1 DEF Child
<1>3. child' = [child EXCEPT ![c] = [child[c] EXCEPT !.life = life]]
  BY DEF SessionTypeOK
<1>4. [child[c] EXCEPT !.life = life].life = life
      /\ [child[c] EXCEPT !.life = life].of = child[c].of
  BY <1>1 DEF Child
<1> QED BY <1>2, <1>3, <1>4 DEF SessionTypeOK

\* A record that is edited stays a record.
LEMMA Edited ==
    ASSUME NEW s \in SessionRecord
    PROVE  /\ Seen(s) \in SessionRecord /\ Seen(s).proc = s.proc /\ Seen(s).state = s.state
           /\ Counted(s) \in SessionRecord /\ Counted(s).proc = s.proc
           /\ Counted(s).state = s.state
           /\ Detached(s) \in SessionRecord /\ Detached(s).proc = s.proc
           /\ Detached(s).state = s.state
           /\ Ended(s) \in SessionRecord /\ Ended(s).proc = None
           /\ Ended(s).state = "Stopped"
           /\ Unmade \in SessionRecord /\ Unmade.proc = None /\ Unmade.state = "Unmade"
<1> USE DEF SessionRecord, Live, Viewer
<1>1. Seen(s) \in SessionRecord /\ Seen(s).proc = s.proc /\ Seen(s).state = s.state
  BY DEF Seen
<1>2. Seen(s).clients = s.clients
  BY DEF Seen
<1>3. Counted(s) \in SessionRecord /\ Counted(s).proc = s.proc /\ Counted(s).state = s.state
  <2>1. Counted(s) = [Seen(s) EXCEPT !.clients = Seen(s).clients + 1]
    BY DEF Counted
  <2>2. Seen(s).clients + 1 \in Nat
    BY <1>1
  <2> HIDE DEF Live, Viewer
  <2> QED BY <1>1, <2>1, <2>2
<1>4. Unmade \in SessionRecord /\ Unmade.proc = None /\ Unmade.state = "Unmade"
  BY DEF Unmade
<1>5. Ended(s) \in SessionRecord /\ Ended(s).proc = None /\ Ended(s).state = "Stopped"
  BY <1>4 DEF Ended, Unmade
<1>6. Detached(s) \in SessionRecord /\ Detached(s).proc = s.proc
      /\ Detached(s).state = s.state
  <2>1. LessOne(Seen(s).clients) \in Nat
    BY <1>1 DEF LessOne
  <2>2. Detached(s) = s
        \/ Detached(s) = [Seen(s) EXCEPT !.clients = LessOne(Seen(s).clients)]
    BY DEF Detached
  <2> HIDE DEF Live, Viewer
  <2> QED BY <1>1, <2>1, <2>2
<1> QED BY <1>1, <1>3, <1>4, <1>5, <1>6

\* A record that keeps its child and is neither begun nor over by it, and
\* children that at most end, disturb nothing.
LEMMA Quieter ==
    ASSUME SessionInv, NEW i \in SessionIds, NEW s \in SessionRecord, Record(i, s),
           s.proc = session[i].proc, s.state \in {"Stopped", "Unmade"} <=> IsOver(i),
           s.state = "Unmade" <=> session[i].state = "Unmade",
           \A c \in ChildIds : /\ child'[c].of = child[c].of
                               /\ Runs(c)' => Runs(c),
           UNCHANGED <<made, started>>
    PROVE  /\ Attached' /\ Over' /\ OneEncoderPerSession'
           /\ reader' = reader => Reached'
<1>1. SessionTypeOK
  BY DEF SessionInv
<1>2. session'[i] = s /\ \A j \in SessionIds \ {i} : session'[j] = session[j]
  BY <1>1, SetSession
<1>3. \A j \in SessionIds : /\ session'[j].proc = session[j].proc
                            /\ IsOver(j)' <=> IsOver(j)
                            /\ session'[j].state = "Unmade" <=> session[j].state = "Unmade"
  BY <1>2 DEF IsOver
<1>4. Attached'
  BY <1>3 DEF SessionInv, Attached
<1>5. Over'
  BY <1>3 DEF SessionInv, Over
<1>6. OneEncoderPerSession'
  BY DEF SessionInv, OneEncoderPerSession, Runs
<1>7. reader' = reader => Reached'
  BY <1>3 DEF SessionInv, Reached, OnItsWay
<1> QED BY <1>4, <1>5, <1>6, <1>7

\* stop() begins: the session is not over yet, and lets go of its child.
LEMMA BeginStopKeeps ==
    ASSUME SessionInv, NEW i \in SessionIds, NEW by, BeginStop(i, by),
           UNCHANGED <<made, child, started, reader>>
    PROVE  Attached' /\ Over' /\ OneEncoderPerSession' /\ Reached'
<1> DEFINE s == [session[i] EXCEPT !.state = "Stopping"]
<1>1. SessionTypeOK /\ session[i] \in SessionRecord
  BY DEF SessionInv, SessionTypeOK
<1>2. Record(i, s) /\ session[i].state \notin {"Unmade", "Stopped"}
  BY DEF BeginStop
<1>3. s \in SessionRecord /\ s.proc = session[i].proc /\ s.state = "Stopping"
  BY <1>1 DEF SessionRecord
<1>4. \A c \in ChildIds : /\ child'[c].of = child[c].of
                          /\ Runs(c)' => Runs(c)
  BY DEF BeginStop, Runs
<1>5. ~IsOver(i) /\ session[i].state # "Unmade"
  BY <1>2 DEF IsOver
<1> HIDE DEF s
<1> QED BY <1>1, <1>2, <1>3, <1>4, <1>5, Quieter

\* create(): a session of before, or the next one, with no child.
LEMMA CreateKeeps ==
    ASSUME SessionInv, NEW src \in Sources, NEW owner \in {Viewer, None}, Create(src, owner)
    PROVE  Attached' /\ Over' /\ OneEncoderPerSession' /\ Reached'
<1>1. SessionTypeOK
  BY DEF SessionInv
<1>2. UNCHANGED <<child, due, started, reader>>
  BY DEF Create
<1>3. CASE Again(src, owner)
  <2> DEFINE i == bySource[src]
             s == [Seen(session[i]) EXCEPT !.owner = IF owner = None THEN @ ELSE owner]
  <2>1. i \in SessionIds /\ Record(i, s) /\ made' = made
    BY <1>1, <1>3 DEF Again, Existing, SessionTypeOK
  <2>2. session[i] \in SessionRecord
    BY <1>1, <2>1 DEF SessionTypeOK
  <2>3. Seen(session[i]) \in SessionRecord /\ Seen(session[i]).proc = session[i].proc
        /\ Seen(session[i]).state = session[i].state
    BY <2>2, Edited
  <2>4. s \in SessionRecord /\ s.proc = session[i].proc /\ s.state = session[i].state
    BY <2>3 DEF SessionRecord
  <2> HIDE DEF s
  <2> QED BY <1>2, <2>1, <2>4, Quieter DEF Runs, IsOver
<1>4. CASE Anew(src, owner)
  <2>0. PICK i \in SessionIds : i = made + 1
    BY <1>1, <1>4, SessionAssumption DEF Anew, SessionTypeOK, SessionIds
  <2> DEFINE s == [Unmade EXCEPT !.source = src, !.owner = owner,
                               !.state = IF src \in Direct THEN "Running" ELSE "Created"]
  <2>1. i \in SessionIds /\ Record(i, s) /\ made' = i /\ i > made /\ made \in Nat
    BY <1>1, <1>4, <2>0, SessionAssumption DEF Anew, SessionTypeOK, SessionIds
  <2>2. s \in SessionRecord /\ s.proc = None /\ s.state \in Live
    BY DEF SessionRecord, Unmade, Live, Viewer
  <2>3. session'[i] = s /\ \A j \in SessionIds \ {i} : session'[j] = session[j]
    BY <1>1, <2>1, <2>2, SetSession
  <2>4. session'[i].proc = None /\ ~IsOver(i)' /\ session'[i].state # "Unmade"
    BY <2>2, <2>3 DEF IsOver, Live
  <2>5. \A c \in ChildIds : Runs(c) => child[c].of # i
    BY <2>1 DEF SessionInv, Attached, SessionIds
  <2> HIDE DEF s
  <2>6. Attached'
    <3> SUFFICES ASSUME NEW c \in ChildIds, Runs(c)'
                 PROVE  /\ child'[c].of \in SessionIds /\ child'[c].of <= made'
                        /\ session'[child'[c].of].proc = c \/ IsOver(child[c].of)'
      BY DEF Attached
    <3>1. Runs(c) /\ child'[c].of = child[c].of
      BY <1>2 DEF Runs
    <3>2. child[c].of \in SessionIds /\ child[c].of <= made
          /\ (session[child[c].of].proc = c \/ IsOver(child[c].of))
      BY <3>1 DEF SessionInv, Attached
    <3>3. session'[child[c].of] = session[child[c].of]
      BY <2>3, <2>5, <3>1, <3>2
    <3>4. child[c].of <= made'
      BY <2>1, <3>2 DEF SessionIds
    <3> QED BY <3>1, <3>2, <3>3, <3>4 DEF IsOver
  <2>7. Over'
    <3>1. \A j \in SessionIds : IsOver(j)' => session'[j].proc = None
      BY <2>3, <2>4 DEF SessionInv, Over, IsOver
    <3>2. \A j \in SessionIds : j > made' => session'[j].state = "Unmade"
      <4> SUFFICES ASSUME NEW j \in SessionIds, j > made' PROVE session'[j].state = "Unmade"
        OBVIOUS
      <4>1. j # i /\ j > made
        BY <2>1 DEF SessionIds
      <4> QED BY <2>3, <4>1 DEF SessionInv, Over
    <3> QED BY <1>2, <3>1, <3>2 DEF SessionInv, Over
  <2>8. OneEncoderPerSession'
    BY <1>2 DEF SessionInv, OneEncoderPerSession, Runs
  <2>9. Reached'
    BY <1>2, <2>3, <2>4 DEF SessionInv, Reached, OnItsWay
  <2> QED BY <2>6, <2>7, <2>8, <2>9
<1> QED BY <1>3, <1>4 DEF Create

\* A rewind: the child is let go of, and the session is to have another.
LEMMA RewindKeeps ==
    ASSUME SessionInv, NEW r \in Readers, Rewind(r)
    PROVE  Attached' /\ Over' /\ OneEncoderPerSession' /\ Reached'
<1>0. PICK i \in SessionIds : i = reader[r].of
  BY DEF Rewind, SessionInv, Reached
<1>00. PICK c : c = session[i].proc
  OBVIOUS
<1> DEFINE s == [session[i] EXCEPT !.proc = None, !.served = FALSE, !.state = "Created"]
           x == [reader[r] EXCEPT !.pc = "Terminate", !.proc = c]
<1>1. SessionTypeOK /\ reader[r].pc = "Rewind" /\ UNCHANGED <<made, started>>
  BY DEF SessionInv, Rewind
<1>2. session[i].state # "Unmade"
  BY <1>0, <1>1 DEF SessionInv, Reached, OnItsWay
<1>3. session[i] \in SessionRecord /\ reader[r] \in Reader
  BY <1>1, <1>2 DEF SessionTypeOK
<1>4. CASE NeedsRewind(session[i])
  <2>1. c \in ChildIds /\ ~IsOver(i)
    BY <1>00, <1>2, <1>3, <1>4 DEF NeedsRewind, SessionRecord, SessionInv, Over
  <2>2. /\ Record(i, s) /\ reader' = [reader EXCEPT ![r].pc = "Terminate", ![r].proc = c]
        /\ due' = due \cup {c} /\ child' = child
    BY <1>0, <1>00, <1>4 DEF Rewind
  <2>3. s \in SessionRecord /\ s.proc = None /\ s.state = "Created"
    BY <1>3 DEF SessionRecord, Live
  <2>4. session'[i] = s /\ \A j \in SessionIds \ {i} : session'[j] = session[j]
    <3> HIDE DEF s
    <3> QED BY <1>1, <1>2, <2>2, <2>3, SetSession
  <2>5. x \in Reader /\ x.pc = "Terminate" /\ x.of = i /\ x.proc = c
    BY <1>0, <1>3, <2>1 DEF Reader
  <2>6. reader'[r] = x /\ \A q \in Readers \ {r} : reader'[q] = reader[q]
    <3>1. reader' = [reader EXCEPT ![r] = x]
      BY <1>1, <2>2 DEF SessionTypeOK
    <3> HIDE DEF x
    <3> QED BY <1>1, <2>5, <3>1, SetReader
  <2>7. /\ ~Runs(c)'
        /\ \A d \in ChildIds : /\ child'[d].of = child[d].of
                               /\ Runs(d)' => Runs(d) /\ d # c
                               /\ d # c => child'[d] = child[d]
    BY <2>2 DEF Runs
  <2>8. session'[i].proc = None /\ ~IsOver(i)' /\ session'[i].state # "Unmade"
    BY <2>3, <2>4 DEF IsOver
  <2>9. Attached'
    <3> SUFFICES ASSUME NEW d \in ChildIds, Runs(d)'
                 PROVE  /\ child'[d].of \in SessionIds /\ child'[d].of <= made'
                        /\ session'[child'[d].of].proc = d \/ IsOver(child[d].of)'
      BY DEF Attached
    <3>1. Runs(d) /\ d # c /\ child'[d].of = child[d].of
      BY <2>7
    <3>2. child[d].of \in SessionIds /\ child[d].of <= made
          /\ (session[child[d].of].proc = d \/ IsOver(child[d].of))
      BY <3>1 DEF SessionInv, Attached
    <3>3. child[d].of # i
      BY <1>00, <2>1, <3>1, <3>2
    <3> HIDE DEF s, x
    <3> QED BY <1>1, <2>4, <3>1, <3>2, <3>3 DEF IsOver
  <2> HIDE DEF s
  <2>10. Over'
    <3>1. \A j \in SessionIds : IsOver(j)' => session'[j].proc = None
      BY <2>4, <2>8 DEF SessionInv, Over, IsOver
    <3>2. \A j \in SessionIds : j > made' => session'[j].state = "Unmade"
      BY <1>1, <1>2, <2>4 DEF SessionInv, Over
    <3> QED BY <3>1, <3>2 DEF Over
  <2>11. OneEncoderPerSession'
    BY <2>7 DEF SessionInv, OneEncoderPerSession, Runs
  <2>12. Reached'
    <3> HIDE DEF x
    <3> QED BY <1>0, <1>1, <1>2, <2>1, <2>4, <2>5, <2>6, <2>8 DEF SessionInv, Reached,
        OnItsWay
  <2> QED BY <2>9, <2>10, <2>11, <2>12
<1>5. CASE ~NeedsRewind(session[i])
  <2>1. Goes(r, "Start") /\ UNCHANGED <<session, child, due>>
    BY <1>0, <1>5 DEF Rewind
  <2>2. /\ reader'[r].pc = "Start" /\ reader'[r].of = i
        /\ \A q \in Readers \ {r} : reader'[q] = reader[q]
    BY <1>0, <1>1, <2>1, ReaderGoes DEF OnItsWay
  <2>3. Attached' /\ Over' /\ OneEncoderPerSession'
    BY <1>1, <2>1 DEF SessionInv, Attached, Over, OneEncoderPerSession, Runs, IsOver
  <2>4. Reached'
    BY <1>1, <1>2, <2>1, <2>2 DEF SessionInv, Reached, OnItsWay
  <2> QED BY <2>3, <2>4
<1> QED BY <1>4, <1>5

\* _start: a child is made for a session that has none and is not over, so that
\* no other of its children runs.
LEMMA StartKeeps ==
    ASSUME SessionInv, NEW r \in Readers, Start(r)
    PROVE  SessionTypeOK' /\ Attached' /\ Over' /\ OneEncoderPerSession' /\ Reached'
<1>0. PICK i \in SessionIds : i = reader[r].of
  BY DEF Start, SessionInv, Reached
<1>1. /\ SessionTypeOK /\ reader[r].pc = "Start" /\ session[i] \in SessionRecord
      /\ UNCHANGED <<bySource, made, due, stops, doomed, asked, lost>>
  BY <1>0 DEF SessionInv, SessionTypeOK, Start, OnlyReads
<1>2. session[i].state # "Unmade"
  BY <1>0, <1>1 DEF SessionInv, Reached, OnItsWay
<1>3. CASE (Goes(r, "Count") \/ Leaves(r)) /\ UNCHANGED <<session, child, started>>
  <2>1. /\ reader' \in [Readers -> Reader]
        /\ reader'[r].pc = "Away" \/ (reader'[r].pc = "Count" /\ reader'[r].of = i)
        /\ \A q \in Readers \ {r} : reader'[q] = reader[q]
    BY <1>0, <1>1, <1>3, ReaderGoes, ReaderLeaves DEF OnItsWay
  <2>2. SessionTypeOK'
    BY <1>1, <1>3, <2>1 DEF SessionTypeOK
  <2>3. Attached' /\ Over' /\ OneEncoderPerSession'
    BY <1>1, <1>3 DEF SessionInv, Attached, Over, OneEncoderPerSession, Runs, IsOver
  <2>4. Reached'
    BY <1>1, <1>2, <1>3, <2>1 DEF SessionInv, Reached, OnItsWay
  <2> QED BY <2>2, <2>3, <2>4
<1>4. CASE /\ ~HasChild(session[i]) /\ session[i].state \notin {"Stopping", "Stopped"}
           /\ started < MaxChildren /\ started' = started + 1
           /\ child' = [child EXCEPT ![started + 1] = [life |-> "Runs", of |-> i]]
           /\ Record(i, [session[i] EXCEPT !.proc = started + 1, !.state = "Running"])
           /\ Goes(r, "Count")
  <2>1. PICK c \in ChildIds : c = started + 1
    BY <1>1, <1>4, SessionAssumption DEF SessionTypeOK, ChildIds
  <2> DEFINE s == [session[i] EXCEPT !.proc = c, !.state = "Running"]
  <2>2. s \in SessionRecord /\ s.proc = c /\ s.state = "Running"
    BY <1>1 DEF SessionRecord, Live
  <2>3. Record(i, s)
    BY <1>4, <2>1
  <2> HIDE DEF s
  <2>4. /\ session' \in [SessionIds -> SessionRecord]
        /\ session'[i] = s /\ \A j \in SessionIds \ {i} : session'[j] = session[j]
    BY <1>1, <2>2, <2>3, SetSession
  <2>5. /\ child' \in [ChildIds -> Child]
        /\ child'[c].life = "Runs" /\ child'[c].of = i
        /\ \A d \in ChildIds \ {c} : child'[d] = child[d]
    <3>1. [life |-> "Runs", of |-> i] \in Child
      BY DEF Child
    <3> QED BY <1>1, <1>4, <2>1, <3>1 DEF SessionTypeOK
  <2>6. /\ reader' \in [Readers -> Reader] /\ reader'[r].pc = "Count" /\ reader'[r].of = i
        /\ \A q \in Readers \ {r} : reader'[q] = reader[q]
    BY <1>0, <1>1, <1>4, ReaderGoes DEF OnItsWay
  <2>7. SessionTypeOK'
    BY <1>1, <1>4, <2>1, <2>4, <2>5, <2>6, SessionAssumption DEF SessionTypeOK, ChildIds
  <2>8. \A d \in ChildIds : Runs(d) => child[d].of # i
    BY <1>1, <1>2, <1>4, SessionAssumption
    DEF SessionInv, Attached, HasChild, IsOver, ChildIds
  <2>9. i <= made
    <3>1. ~(i > made)
      BY <1>2 DEF SessionInv, Over
    <3> QED BY <1>1, <3>1 DEF SessionIds, SessionTypeOK
  <2>10. Attached'
    <3> SUFFICES ASSUME NEW d \in ChildIds, Runs(d)'
                 PROVE  /\ child'[d].of \in SessionIds /\ child'[d].of <= made'
                        /\ session'[child'[d].of].proc = d \/ IsOver(child[d].of)'
      <4>1. child'[c].of \in SessionIds /\ child'[c].of <= made'
            /\ session'[child'[c].of].proc = c
        BY <1>1, <2>2, <2>4, <2>5, <2>9
      <4> QED BY <4>1 DEF Attached
    <3>1. CASE d = c
      BY <1>1, <2>2, <2>4, <2>5, <2>9, <3>1
    <3>2. CASE d # c
      <4>1. Runs(d) /\ child'[d] = child[d]
        BY <1>1, <2>5, <3>2 DEF Runs
      <4>2. child[d].of \in SessionIds /\ child[d].of <= made /\ child[d].of # i
            /\ (session[child[d].of].proc = d \/ IsOver(child[d].of))
        BY <2>8, <4>1 DEF SessionInv, Attached
      <4>3. session'[child[d].of] = session[child[d].of]
        BY <2>4, <4>2
      <4> QED BY <1>1, <4>1, <4>2, <4>3 DEF IsOver
    <3> QED BY <3>1, <3>2
  <2>11. Over'
    BY <1>1, <1>2, <2>2, <2>4 DEF SessionInv, Over, IsOver
  <2>12. OneEncoderPerSession'
    BY <1>1, <2>5, <2>8 DEF SessionInv, OneEncoderPerSession, Runs
  <2>13. Reached'
    BY <1>1, <1>2, <2>2, <2>4, <2>6 DEF SessionInv, Reached, OnItsWay
  <2> QED BY <2>7, <2>10, <2>11, <2>12, <2>13
<1>5. CASE /\ ~HasChild(session[i]) /\ session[i].state \notin {"Stopping", "Stopped"}
           /\ Record(i, [session[i] EXCEPT !.state = "Failed"])
           /\ Leaves(r) /\ UNCHANGED <<started, child>>
  <2> DEFINE s == [session[i] EXCEPT !.state = "Failed"]
  <2>1. s \in SessionRecord /\ s.proc = session[i].proc /\ s.state = "Failed"
    BY <1>1 DEF SessionRecord
  <2>2. Record(i, s)
    BY <1>5
  <2> HIDE DEF s
  <2>3. /\ session' \in [SessionIds -> SessionRecord]
        /\ session'[i] = s /\ \A j \in SessionIds \ {i} : session'[j] = session[j]
    BY <1>1, <2>1, <2>2, SetSession
  <2>4. /\ reader' \in [Readers -> Reader] /\ reader'[r].pc = "Away"
        /\ \A q \in Readers \ {r} : reader'[q] = reader[q]
    BY <1>1, <1>5, ReaderLeaves
  <2>5. SessionTypeOK'
    BY <1>1, <1>5, <2>3, <2>4 DEF SessionTypeOK
  <2>6. Attached' /\ Over' /\ OneEncoderPerSession'
    <3>1. ~IsOver(i)
      BY <1>2, <1>5 DEF IsOver
    <3> QED BY <1>1, <1>2, <1>5, <2>1, <2>2, <3>1, Quieter DEF Runs
  <2>7. Reached'
    BY <1>1, <2>1, <2>3, <2>4 DEF SessionInv, Reached, OnItsWay
  <2> QED BY <2>5, <2>6, <2>7
<1> QED BY <1>0, <1>3, <1>4, <1>5 DEF Start

\* stop() begins: what it leaves of each kind of record.
LEMMA BeginStopTyped ==
    ASSUME SessionTypeOK, NEW i \in SessionIds, NEW by \in Nat, BeginStop(i, by)
    PROVE  /\ session' \in [SessionIds -> SessionRecord] /\ due' \subseteq ChildIds
           /\ bySource' \in [Sources -> SessionIds \cup {None}]
           /\ stops' \subseteq [of : SessionIds, by : Nat, proc : ChildIds \cup {None}]
<1> DEFINE s == [session[i] EXCEPT !.state = "Stopping"]
<1>1. session[i] \in SessionRecord /\ session[i].proc \in ChildIds \cup {None}
  BY DEF SessionTypeOK, SessionRecord
<1>2. s \in SessionRecord /\ Record(i, s)
  BY <1>1 DEF SessionRecord, BeginStop
<1> HIDE DEF s
<1>3. session' \in [SessionIds -> SessionRecord]
  BY <1>2, SetSession
<1>4. due' \subseteq ChildIds
  BY <1>1 DEF BeginStop, SessionTypeOK
<1>5. bySource' \in [Sources -> SessionIds \cup {None}]
  BY DEF BeginStop, SessionTypeOK
<1>6. [of |-> i, by |-> by, proc |-> session[i].proc]
          \in [of : SessionIds, by : Nat, proc : ChildIds \cup {None}]
  BY <1>1
<1>7. stops' \subseteq [of : SessionIds, by : Nat, proc : ChildIds \cup {None}]
  BY <1>6 DEF BeginStop, SessionTypeOK
<1> QED BY <1>3, <1>4, <1>5, <1>7

----------------------------------------------------------------------------
(* The readers: counted, and reading the child there is.                      *)

\* create() of a session of before changes its owner alone.
LEMMA AgainKeeps ==
    ASSUME SessionTypeOK, NEW src \in Sources, NEW owner \in {Viewer, None},
           Again(src, owner)
    PROVE  \A j \in SessionIds :
              /\ session'[j].proc = session[j].proc
              /\ session'[j].source = session[j].source
              /\ session'[j].state = session[j].state
              /\ session'[j].clients = session[j].clients
<1>1. PICK i \in SessionIds : i = bySource[src]
  BY DEF Again, Existing, SessionTypeOK
<1> DEFINE s == [Seen(session[i]) EXCEPT !.owner = IF owner = None THEN @ ELSE owner]
<1>2. session[i] \in SessionRecord
  BY DEF SessionTypeOK
<1>3. Record(i, s)
  BY <1>1 DEF Again
<1>4. /\ s.proc = session[i].proc /\ s.source = session[i].source
      /\ s.state = session[i].state /\ s.clients = session[i].clients
  BY <1>2 DEF Seen, SessionRecord
<1> HIDE DEF s
<1>5. session'[i] = s /\ \A j \in SessionIds \ {i} : session'[j] = session[j]
  BY <1>3 DEF Record, SessionTypeOK
<1> QED BY <1>4, <1>5

\* Who has a session's stream, when nobody is counted.
LEMMA NobodyReads ==
    ASSUME SessionTypeOK, Told, NEW i \in SessionIds, ~IsOver(i), session[i].clients = 0
    PROVE  ReadersOf(i) = {}
<1>1. ReadersOf(i) \subseteq Readers /\ IsFiniteSet(Readers)
  BY SessionAssumption DEF ReadersOf
<1>2. IsFiniteSet(ReadersOf(i)) /\ Cardinality(ReadersOf(i)) \in Nat
  BY <1>1, FS_Subset, FS_CardinalityType
<1>3. Cardinality(ReadersOf(i)) <= 0
  BY DEF Told
<1>4. Cardinality(ReadersOf(i)) = 0
  BY <1>2, <1>3
<1> QED BY <1>2, <1>4, FS_EmptySet

\* A rewind takes the child from nobody: its session counted no reader.
LEMMA RewindDraws ==
    ASSUME ReaderInv, NEW r \in Readers, Rewind(r)
    PROVE  Drawn'
<1>0. PICK i \in SessionIds : i = reader[r].of
  BY DEF Rewind, ReaderInv, SessionInv, Reached
<1>1. SessionTypeOK /\ reader[r].pc = "Rewind" /\ session[i] \in SessionRecord
      /\ reader[r] \in Reader
  BY DEF ReaderInv, SessionInv, Rewind, SessionTypeOK
<1>2. session[i].source \notin Direct
  BY <1>0, <1>1 DEF ReaderInv, Drawn
<1>3. CASE NeedsRewind(session[i])
  <2> DEFINE s == [session[i] EXCEPT !.proc = None, !.served = FALSE, !.state = "Created"]
             x == [reader[r] EXCEPT !.pc = "Terminate", !.proc = session[i].proc]
  <2>1. /\ s.source = session[i].source /\ Record(i, s)
        /\ x.pc = "Terminate" /\ reader' = [reader EXCEPT ![r] = x]
    BY <1>0, <1>1, <1>3 DEF Rewind, SessionRecord, Reader, SessionTypeOK
  <2> HIDE DEF s, x
  <2>2. session'[i] = s /\ \A j \in SessionIds \ {i} : session'[j] = session[j]
    BY <1>1, <2>1 DEF Record, SessionTypeOK
  <2>3. reader'[r].pc = "Terminate" /\ reader'[r].of = i
        /\ \A q \in Readers \ {r} : reader'[q] = reader[q]
    <3>1. reader'[r] = x /\ \A q \in Readers \ {r} : reader'[q] = reader[q]
      BY <1>1, <2>1 DEF SessionTypeOK
    <3>2. x.of = i
      BY <1>0, <1>1 DEF x, Reader
    <3> QED BY <2>1, <3>1, <3>2
  <2>4. ~IsOver(i) /\ session[i].clients = 0
    BY <1>1, <1>3 DEF NeedsRewind, ReaderInv, SessionInv, Over
  <2>5. ReadersOf(i) = {}
    BY <1>1, <2>4, NobodyReads DEF ReaderInv
  <2>6. \A q \in Readers \ {r} : reader[q].pc = "Read" => reader[q].of # i
    BY <2>5 DEF ReadersOf
  <2>7. \A q \in Readers : reader[q].pc # "Away" => reader[q].of \in SessionIds
    BY DEF ReaderInv, SessionInv, Reached
  <2> SUFFICES ASSUME NEW q \in Readers
               PROVE  /\ reader'[q].pc = "Read" /\ ~IsOver(reader[q].of)' =>
                            /\ reader'[q].proc = session'[reader'[q].of].proc
                            /\ session'[reader'[q].of].source \notin Direct =>
                                reader'[q].proc # None
                      /\ reader'[q].pc \in {"Rewind", "Terminate", "Start"} =>
                            session'[reader'[q].of].source \notin Direct
    BY DEF Drawn
  <2>8. CASE q = r
    BY <1>2, <2>1, <2>2, <2>3, <2>8
  <2>9. CASE q # r
    <3>1. reader'[q] = reader[q]
      BY <2>3, <2>9
    <3>2. reader[q].pc # "Away" =>
              session'[reader[q].of].source = session[reader[q].of].source
      BY <2>1, <2>2, <2>7
    <3>3. reader[q].pc = "Read" => session'[reader[q].of] = session[reader[q].of]
      BY <2>2, <2>6, <2>7, <2>9
    <3> QED BY <3>1, <3>2, <3>3 DEF ReaderInv, Drawn, IsOver
  <2> QED BY <2>8, <2>9
<1>4. CASE ~NeedsRewind(session[i])
  <2>1. Goes(r, "Start") /\ UNCHANGED session
    BY <1>0, <1>4 DEF Rewind
  <2>2. reader'[r].pc = "Start" /\ reader'[r].of = i
        /\ \A q \in Readers \ {r} : reader'[q] = reader[q]
    BY <1>0, <1>1, <2>1, ReaderGoes DEF OnItsWay
  <2> QED BY <1>2, <2>1, <2>2 DEF ReaderInv, Drawn, IsOver
<1> QED BY <1>3, <1>4

\* A child is given only to a session that has none, so that none reads another.
LEMMA StartDraws ==
    ASSUME ReaderInv, NEW r \in Readers, Start(r)
    PROVE  Drawn'
<1>0. PICK i \in SessionIds : i = reader[r].of
  BY DEF Start, ReaderInv, SessionInv, Reached
<1>1. SessionTypeOK /\ reader[r].pc = "Start" /\ session[i] \in SessionRecord
  BY DEF ReaderInv, SessionInv, Start, SessionTypeOK
<1>2. session[i].source \notin Direct
  BY <1>0, <1>1 DEF ReaderInv, Drawn
<1>3. /\ reader'[r].pc \in {"Away", "Count"}
      /\ \A q \in Readers \ {r} : reader'[q] = reader[q]
  <2>1. Goes(r, "Count") \/ Leaves(r)
    BY <1>0 DEF Start
  <2> QED BY <1>1, <2>1, ReaderGoes, ReaderLeaves DEF OnItsWay
<1>4. \A q \in Readers : reader[q].pc # "Away" => reader[q].of \in SessionIds
  BY DEF ReaderInv, SessionInv, Reached
<1>5. CASE session' = session
  BY <1>3, <1>5 DEF ReaderInv, Drawn, IsOver
<1>6. CASE /\ session[i].proc = None /\ session[i].state \notin {"Stopping", "Stopped"}
           /\ \E s : /\ session' = [session EXCEPT ![i] = s] /\ s.source = session[i].source
  <2>1. session'[i].source = session[i].source
        /\ \A j \in SessionIds \ {i} : session'[j] = session[j]
    BY <1>1, <1>6 DEF SessionTypeOK
  <2>2. session[i].state # "Unmade"
    BY <1>0, <1>1 DEF ReaderInv, SessionInv, Reached, OnItsWay
  <2>3. \A q \in Readers : reader[q].pc = "Read" => reader[q].of # i
    BY <1>2, <1>6, <2>2 DEF ReaderInv, Drawn, IsOver
  <2> SUFFICES ASSUME NEW q \in Readers
               PROVE  /\ reader'[q].pc = "Read" /\ ~IsOver(reader[q].of)' =>
                            /\ reader'[q].proc = session'[reader'[q].of].proc
                            /\ session'[reader'[q].of].source \notin Direct =>
                                reader'[q].proc # None
                      /\ reader'[q].pc \in {"Rewind", "Terminate", "Start"} =>
                            session'[reader'[q].of].source \notin Direct
    BY DEF Drawn
  <2>4. CASE q = r
    BY <1>3, <2>4
  <2>5. CASE q # r
    <3>1. reader'[q] = reader[q]
      BY <1>3, <2>5
    <3>2. reader[q].pc # "Away" =>
              session'[reader[q].of].source = session[reader[q].of].source
      BY <1>4, <2>1
    <3>3. reader[q].pc = "Read" => session'[reader[q].of] = session[reader[q].of]
      BY <1>4, <2>1, <2>3
    <3> QED BY <3>1, <3>2, <3>3 DEF ReaderInv, Drawn, IsOver
  <2> QED BY <2>4, <2>5
<1>7. \/ session' = session
      \/ (/\ session[i].proc = None /\ session[i].state \notin {"Stopping", "Stopped"}
           /\ \E s : /\ session' = [session EXCEPT ![i] = s]
                     /\ s.source = session[i].source)
  <2>1. CASE Record(i, [session[i] EXCEPT !.proc = started + 1, !.state = "Running"])
             /\ session[i].proc = None /\ session[i].state \notin {"Stopping", "Stopped"}
    <3>1. session[i].source
            = [session[i] EXCEPT !.proc = started + 1, !.state = "Running"].source
      BY <1>1 DEF SessionRecord
    <3> QED BY <2>1, <3>1 DEF Record
  <2>2. CASE Record(i, [session[i] EXCEPT !.state = "Failed"])
             /\ session[i].proc = None /\ session[i].state \notin {"Stopping", "Stopped"}
    <3>1. [session[i] EXCEPT !.state = "Failed"].source = session[i].source
      BY <1>1 DEF SessionRecord
    <3> QED BY <2>2, <3>1 DEF Record
  <2> QED BY <1>0, <2>1, <2>2 DEF Start, HasChild
<1> QED BY <1>5, <1>6, <1>7

\* A stream that opens reads the child there is.
LEMMA OpenDraws ==
    ASSUME ReaderInv, NEW r \in Readers, Open(r)
    PROVE  Drawn'
<1>0. PICK i \in SessionIds : i = reader[r].of
  BY DEF Open, ReaderInv, SessionInv, Reached
<1>1. SessionTypeOK /\ reader[r] \in Reader /\ session' = session
  BY DEF ReaderInv, SessionInv, Open, SessionTypeOK
<1>2. CASE Leaves(r)
  BY <1>1, <1>2, ReaderLeaves DEF ReaderInv, Drawn, IsOver
<1>3. CASE /\ ~(session[i].source \notin Direct /\ session[i].proc = None)
           /\ reader' = [reader EXCEPT ![r].pc = "Read", ![r].proc = session[i].proc]
  <2>1. /\ reader'[r].pc = "Read" /\ reader'[r].of = i /\ reader'[r].proc = session[i].proc
        /\ \A q \in Readers \ {r} : reader'[q] = reader[q]
    BY <1>0, <1>1, <1>3 DEF SessionTypeOK, Reader
  <2> QED BY <1>1, <1>3, <2>1 DEF ReaderInv, Drawn, IsOver
<1> QED BY <1>0, <1>2, <1>3 DEF Open

\* Nobody new has a stream, and whoever is not over was counted as now.
LEMMA ToldUnless ==
    ASSUME ReaderInv,
           \A q \in Readers : reader'[q].pc \in {"Answer", "Read"} =>
              reader[q].pc \in {"Answer", "Read"} /\ reader'[q].of = reader[q].of,
           \A j \in SessionIds : ~IsOver(j)' =>
              ~IsOver(j) /\ session'[j].clients = session[j].clients
    PROVE  Told'
<1> SUFFICES ASSUME NEW j \in SessionIds, ~IsOver(j)'
             PROVE  Cardinality(ReadersOf(j)') <= session'[j].clients
  BY DEF Told
<1>1. ReadersOf(j)' \subseteq ReadersOf(j)
  BY DEF ReadersOf
<1>2. IsFiniteSet(ReadersOf(j))
  BY SessionAssumption, FS_Subset DEF ReadersOf
<1>3. /\ Cardinality(ReadersOf(j)') <= Cardinality(ReadersOf(j))
      /\ Cardinality(ReadersOf(j)') \in Nat /\ Cardinality(ReadersOf(j)) \in Nat
  BY <1>1, <1>2, FS_Subset, FS_CardinalityType
<1>4. Cardinality(ReadersOf(j)) <= session[j].clients
      /\ session'[j].clients = session[j].clients
  BY DEF ReaderInv, Told
<1>5. session[j].clients \in Nat
  BY DEF ReaderInv, SessionInv, SessionTypeOK, SessionRecord
<1> QED BY <1>3, <1>4, <1>5

\* create() makes a session nobody can have asked for.
LEMMA CreateTells ==
    ASSUME ReaderInv, NEW src \in Sources, NEW owner \in {Viewer, None}, Create(src, owner)
    PROVE  Told'
<1>1. SessionTypeOK /\ reader' = reader
  BY DEF ReaderInv, SessionInv, Create
<1>2. CASE Again(src, owner)
  <2>1. \A j \in SessionIds : /\ session'[j].clients = session[j].clients
                              /\ IsOver(j)' <=> IsOver(j)
    BY <1>1, <1>2, AgainKeeps DEF IsOver
  <2> QED BY <1>1, <2>1, ToldUnless
<1>3. CASE Anew(src, owner)
  <2>1. PICK i : i = made + 1
    OBVIOUS
  <2>2. \A j \in SessionIds \ {i} : session'[j] = session[j]
    BY <1>1, <1>3, <2>1 DEF Anew, Record, SessionTypeOK
  <2>4. \A r \in Readers : reader[r].pc # "Away" => reader[r].of # i
    BY <1>1, <2>1, SessionAssumption DEF ReaderInv, Known, SessionTypeOK
  <2> SUFFICES ASSUME NEW j \in SessionIds, ~IsOver(j)'
               PROVE  Cardinality(ReadersOf(j)') <= session'[j].clients
    BY DEF Told
  <2>5. ReadersOf(j)' = ReadersOf(j)
    BY <1>1 DEF ReadersOf
  <2>6. CASE j # i
    BY <2>2, <2>5, <2>6 DEF ReaderInv, Told, IsOver
  <2>7. CASE j = i
    <3>1. ReadersOf(j) = {}
      BY <2>4, <2>7 DEF ReadersOf
    <3>2. Cardinality(ReadersOf(j)') = 0
      BY <2>5, <3>1, FS_EmptySet
    <3>3. session'[j].clients = 0
      BY <1>1, <1>3, <2>1, <2>7 DEF Anew, Record, SessionTypeOK, Unmade
    <3> QED BY <3>2, <3>3
  <2> QED BY <2>6, <2>7
<1> QED BY <1>2, <1>3 DEF Create

\* attach() and read_direct(): one more has the stream, and one more is counted.
LEMMA CountTells ==
    ASSUME ReaderInv, NEW r \in Readers, Count(r)
    PROVE  Told'
<1>0. PICK i \in SessionIds : i = reader[r].of
  BY DEF Count, ReaderInv, SessionInv, Reached
<1>1. SessionTypeOK /\ reader[r].pc = "Count" /\ session[i] \in SessionRecord
  BY DEF ReaderInv, SessionInv, Count, SessionTypeOK
<1>2. /\ reader'[r].pc = "Answer" /\ reader'[r].of = i
      /\ \A q \in Readers \ {r} : reader'[q] = reader[q]
  BY <1>0, <1>1, ReaderGoes DEF Count, OnItsWay
<1>3. /\ session'[i] = Counted(session[i])
      /\ \A j \in SessionIds \ {i} : session'[j] = session[j]
  BY <1>0, <1>1 DEF Count, Record, SessionTypeOK
<1>4. /\ session'[i].clients = session[i].clients + 1
      /\ session'[i].state = session[i].state
      /\ session[i].clients \in Nat
  BY <1>1, <1>3 DEF Counted, Seen, SessionRecord
<1> SUFFICES ASSUME NEW j \in SessionIds, ~IsOver(j)'
             PROVE  Cardinality(ReadersOf(j)') <= session'[j].clients
  BY DEF Told
<1>5. CASE j # i
  <2>1. ReadersOf(j)' = ReadersOf(j)
    BY <1>0, <1>1, <1>2, <1>5 DEF ReadersOf
  <2> QED BY <1>3, <1>5, <2>1 DEF ReaderInv, Told, IsOver
<1>6. CASE j = i
  <2>1. ReadersOf(j)' = ReadersOf(j) \cup {r} /\ r \notin ReadersOf(j)
    BY <1>0, <1>1, <1>2, <1>6 DEF ReadersOf
  <2>2. IsFiniteSet(ReadersOf(j))
    BY SessionAssumption, FS_Subset DEF ReadersOf
  <2>3. Cardinality(ReadersOf(j)') = Cardinality(ReadersOf(j)) + 1
        /\ Cardinality(ReadersOf(j)) \in Nat
    BY <2>1, <2>2, FS_AddElement, FS_CardinalityType
  <2>4. Cardinality(ReadersOf(j)) <= session[j].clients
    BY <1>4, <1>6 DEF ReaderInv, Told, IsOver
  <2> QED BY <1>4, <1>6, <2>3, <2>4
<1> QED BY <1>5, <1>6

\* detach(): one fewer has the stream, and there was one to take off.
LEMMA DetachTells ==
    ASSUME ReaderInv, NEW r \in Readers, Detach(r)
    PROVE  Told'
<1>0. PICK i \in SessionIds : i = reader[r].of
  BY DEF Detach, ReaderInv, SessionInv, Reached
<1>1. SessionTypeOK /\ reader[r].pc = "Read" /\ session[i] \in SessionRecord
  BY DEF ReaderInv, SessionInv, Detach, SessionTypeOK
<1>2. reader'[r].pc = "Away" /\ \A q \in Readers \ {r} : reader'[q] = reader[q]
  BY <1>1, ReaderLeaves DEF Detach
<1>3. /\ session'[i] = Detached(session[i])
      /\ \A j \in SessionIds \ {i} : session'[j] = session[j]
  BY <1>0, <1>1 DEF Detach, Record, SessionTypeOK
<1> SUFFICES ASSUME NEW j \in SessionIds, ~IsOver(j)'
             PROVE  Cardinality(ReadersOf(j)') <= session'[j].clients
  BY DEF Told
<1>4. CASE j # i
  <2>1. ReadersOf(j)' = ReadersOf(j)
    BY <1>0, <1>1, <1>2, <1>4 DEF ReadersOf
  <2> QED BY <1>3, <1>4, <2>1 DEF ReaderInv, Told, IsOver
<1>5. CASE j = i
  <2>1. ReadersOf(j)' = ReadersOf(j) \ {r} /\ r \in ReadersOf(j)
    BY <1>0, <1>1, <1>2, <1>5 DEF ReadersOf
  <2>2. IsFiniteSet(ReadersOf(j))
    BY SessionAssumption, FS_Subset DEF ReadersOf
  <2>3. /\ Cardinality(ReadersOf(j)') = Cardinality(ReadersOf(j)) - 1
        /\ Cardinality(ReadersOf(j)) \in Nat /\ Cardinality(ReadersOf(j)') \in Nat
    <3>1. Cardinality(ReadersOf(j)') = Cardinality(ReadersOf(j)) - 1
      BY <2>1, <2>2, FS_RemoveElement
    <3>2. IsFiniteSet(ReadersOf(j)')
      BY <2>1, <2>2, FS_Subset
    <3> QED BY <2>2, <3>1, <3>2, FS_CardinalityType
  <2>4. /\ session[j].state # "Unmade" /\ session'[j].state = session[j].state
        /\ session'[j].clients = LessOne(session[j].clients) /\ session[j].clients \in Nat
    <3>1. session'[j].state # "Unmade"
      BY DEF IsOver
    <3>2. session[j].state # "Unmade"
      BY <1>3, <1>5, <3>1 DEF Detached
    <3> QED BY <1>1, <1>3, <1>5, <3>2 DEF Detached, Seen, SessionRecord
  <2>5. Cardinality(ReadersOf(j)) <= session[j].clients
    BY <2>4 DEF ReaderInv, Told, IsOver
  <2> QED BY <2>3, <2>4, <2>5 DEF LessOne
<1> QED BY <1>4, <1>5

\* The records stay records.
LEMMA TypeStays ==
    ASSUME SessionInv, SessionTypeOK, Reached, SessionNext
    PROVE  SessionTypeOK'
<1>1. ASSUME NEW src \in Sources, NEW owner \in {Viewer, None}, Create(src, owner)
      PROVE  SessionTypeOK'
  <2>1. UNCHANGED <<child, due, started, reader, stops, doomed, lost>> /\ asked' \in 0..MaxAsked
    BY <1>1, SessionAssumption DEF Create, Asks, SessionTypeOK
  <2>2. CASE Again(src, owner)
    <3>1. PICK i \in SessionIds : i = bySource[src]
      BY <2>2 DEF Again, Existing, SessionTypeOK
    <3> DEFINE s == [Seen(session[i]) EXCEPT !.owner = IF owner = None THEN @ ELSE owner]
    <3>2. Seen(session[i]) \in SessionRecord
      BY Edited DEF SessionTypeOK
    <3>3. s \in SessionRecord /\ Record(i, s) /\ UNCHANGED <<bySource, made>>
      BY <2>2, <3>1, <3>2 DEF Again, SessionRecord
    <3> HIDE DEF s
    <3>4. session' \in [SessionIds -> SessionRecord]
      BY <3>3, SetSession
    <3> QED BY <2>1, <3>3, <3>4 DEF SessionTypeOK
  <2>3. CASE Anew(src, owner)
    <3>1. PICK i \in SessionIds : i = made + 1
      BY <2>3, SessionAssumption DEF Anew, SessionTypeOK, SessionIds
    <3> DEFINE s == [Unmade EXCEPT !.source = src, !.owner = owner,
                               !.state = IF src \in Direct THEN "Running" ELSE "Created"]
    <3>2. s \in SessionRecord
      BY DEF SessionRecord, Unmade, Live, Viewer
    <3>3. Record(i, s) /\ made' = i /\ bySource' = [bySource EXCEPT ![src] = i]
      BY <2>3, <3>1 DEF Anew
    <3>4. made' \in 0..MaxSessions
      BY <3>3, SessionAssumption DEF SessionIds
    <3> HIDE DEF s
    <3>5. session' \in [SessionIds -> SessionRecord]
      BY <3>2, <3>3, SetSession
    <3>6. bySource' \in [Sources -> SessionIds \cup {None}]
      BY <3>3 DEF SessionTypeOK
    <3> QED BY <2>1, <3>4, <3>5, <3>6 DEF SessionTypeOK
  <2> QED BY <1>1, <2>2, <2>3 DEF Create
<1>2. ASSUME NEW i \in SessionIds, Release(i)
      PROVE  SessionTypeOK'
  <2> DEFINE s == [Seen(session[i]) EXCEPT !.owner = None]
  <2>1. Seen(session[i]) \in SessionRecord
    BY Edited DEF SessionTypeOK
  <2>2. s \in SessionRecord /\ Record(i, s)
    BY <1>2, <2>1 DEF Release, SessionRecord
  <2> HIDE DEF s
  <2>3. session' \in [SessionIds -> SessionRecord]
    BY <2>2, SetSession
  <2> QED BY <1>2, <2>3, SessionAssumption DEF Release, Asks, SessionTypeOK
<1>3. ASSUME NEW i \in SessionIds, AskStop(i)
      PROVE  SessionTypeOK'
  <2>1. asked + 1 \in Nat
    BY DEF SessionTypeOK
  <2> QED BY <1>3, <2>1, BeginStopTyped, SessionAssumption DEF AskStop, Asks, SessionTypeOK
<1>4. ASSUME NEW i \in SessionIds, ReapNext(i)
      PROVE  SessionTypeOK'
  <2>1. CASE BeginStop(i, Reaper)
    BY <1>4, <2>1, BeginStopTyped DEF ReapNext, Reaper, SessionTypeOK
  <2>2. CASE UNCHANGED <<session, bySource, stops, due>>
    BY <1>4, <2>2 DEF ReapNext, SessionTypeOK
  <2> QED BY <1>4, <2>1, <2>2 DEF ReapNext
<1>5. ASSUME NEW i \in SessionIds, Forget(i)
      PROVE  SessionTypeOK'
  <2>1. session[i] \in SessionRecord
    BY DEF SessionTypeOK
  <2>2. session' \in [SessionIds -> SessionRecord]
    BY <1>5, <2>1, Edited, SetSession DEF Forget
  <2> QED BY <1>5, <2>2 DEF Forget, SessionTypeOK
<1>6. ASSUME NEW i \in SessionIds, Idles(i)
      PROVE  SessionTypeOK'
  <2> DEFINE s == [session[i] EXCEPT !.idle = TRUE]
  <2>1. session[i] \in SessionRecord
    BY DEF SessionTypeOK
  <2>2. s \in SessionRecord /\ Record(i, s)
    BY <1>6, <2>1 DEF Idles, SessionRecord
  <2> HIDE DEF s
  <2>3. session' \in [SessionIds -> SessionRecord]
    BY <2>2, SetSession
  <2> QED BY <1>6, <2>3 DEF Idles, SessionTypeOK
<1>7. ASSUME NEW r \in Readers, NEW i \in SessionIds, Ask(r, i)
      PROVE  SessionTypeOK'
  <2>1. \E pc \in {"Count", "Rewind"} :
          reader' = [reader EXCEPT ![r] = [pc |-> pc, of |-> i, proc |-> None]]
    BY <1>7 DEF Ask
  <2>2. \A pc \in {"Count", "Rewind"} : [pc |-> pc, of |-> i, proc |-> None] \in Reader
    BY DEF Reader
  <2>3. reader' \in [Readers -> Reader]
    BY <2>1, <2>2, SetReader
  <2> QED BY <1>7, <2>3 DEF Ask, OnlyReads, SessionTypeOK
<1>8. ASSUME NEW r \in Readers, Rewind(r)
      PROVE  SessionTypeOK'
  <2>0. PICK i \in SessionIds : i = reader[r].of
    BY <1>8 DEF Rewind, Reached
  <2>1. session[i] \in SessionRecord /\ reader[r] \in Reader
    BY DEF SessionTypeOK
  <2>2. CASE NeedsRewind(session[i])
    <3> DEFINE s == [session[i] EXCEPT !.proc = None, !.served = FALSE, !.state = "Created"]
               x == [reader[r] EXCEPT !.pc = "Terminate", !.proc = session[i].proc]
    <3>1. session[i].proc \in ChildIds
      BY <2>1, <2>2 DEF NeedsRewind, SessionRecord
    <3>2. s \in SessionRecord /\ x \in Reader
      BY <2>1, <3>1 DEF SessionRecord, Reader, Live
    <3>3. Record(i, s) /\ reader' = [reader EXCEPT ![r] = x]
      BY <1>8, <2>0, <2>2 DEF Rewind, SessionTypeOK
    <3> HIDE DEF s, x
    <3>4. session' \in [SessionIds -> SessionRecord] /\ reader' \in [Readers -> Reader]
      BY <3>2, <3>3, SetSession, SetReader
    <3>5. due' \subseteq ChildIds
      BY <1>8, <2>0, <2>2, <3>1 DEF Rewind, SessionTypeOK
    <3> QED BY <1>8, <3>4, <3>5 DEF Rewind, SessionTypeOK
  <2>3. CASE ~NeedsRewind(session[i])
    <3>1. Goes(r, "Start") /\ UNCHANGED <<session, due>>
      BY <1>8, <2>0, <2>3 DEF Rewind
    <3>2. reader' \in [Readers -> Reader]
      BY <3>1, ReaderGoes DEF OnItsWay
    <3> QED BY <1>8, <3>1, <3>2 DEF Rewind, SessionTypeOK
  <2> QED BY <2>2, <2>3
<1>9. ASSUME NEW r \in Readers, Rewound(r)
      PROVE  SessionTypeOK'
  <2> DEFINE x == [reader[r] EXCEPT !.pc = "Start", !.proc = None]
  <2>1. reader[r] \in Reader
    BY DEF SessionTypeOK
  <2>2. x \in Reader
    BY <2>1 DEF Reader
  <2>3. reader' = [reader EXCEPT ![r] = x]
    BY <1>9 DEF Rewound, SessionTypeOK
  <2> HIDE DEF x
  <2>4. reader' \in [Readers -> Reader]
    BY <2>2, <2>3, SetReader
  <2> QED BY <1>9, <2>4 DEF Rewound, OnlyReads, SessionTypeOK
<1>10. ASSUME NEW r \in Readers, Start(r)
      PROVE  SessionTypeOK'
  BY <1>10, StartKeeps
<1>11. ASSUME NEW r \in Readers, Count(r)
      PROVE  SessionTypeOK'
  <2>0. PICK i \in SessionIds : i = reader[r].of
    BY <1>11 DEF Count, Reached
  <2>1. session[i] \in SessionRecord
    BY DEF SessionTypeOK
  <2>2. session' \in [SessionIds -> SessionRecord]
    BY <1>11, <2>0, <2>1, Edited, SetSession DEF Count
  <2>3. reader' \in [Readers -> Reader]
    BY <1>11, ReaderGoes DEF Count, OnItsWay
  <2> QED BY <1>11, <2>2, <2>3 DEF Count, OnlyReads, SessionTypeOK
<1>12. ASSUME NEW r \in Readers, AnswerLost(r)
      PROVE  SessionTypeOK'
  <2>1. reader' \in [Readers -> Reader]
    BY <1>12, ReaderLeaves DEF AnswerLost
  <2> QED BY <1>12, <2>1, SessionAssumption DEF AnswerLost, OnlyReads, SessionTypeOK
<1>13. ASSUME NEW r \in Readers, Open(r)
      PROVE  SessionTypeOK'
  <2>0. PICK i \in SessionIds : i = reader[r].of
    BY <1>13 DEF Open, Reached
  <2>1. session[i].proc \in ChildIds \cup {None} /\ reader[r] \in Reader
    BY DEF SessionTypeOK, SessionRecord
  <2> DEFINE x == [reader[r] EXCEPT !.pc = "Read", !.proc = session[i].proc]
  <2>2. x \in Reader
    BY <2>1 DEF Reader
  <2>3. Leaves(r) \/ reader' = [reader EXCEPT ![r] = x]
    BY <1>13, <2>0 DEF Open, SessionTypeOK
  <2> HIDE DEF x
  <2>4. reader' \in [Readers -> Reader]
    BY <2>2, <2>3, SetReader, ReaderLeaves
  <2> QED BY <1>13, <2>4 DEF Open, OnlyReads, SessionTypeOK
<1>14. ASSUME NEW r \in Readers, Read(r)
      PROVE  SessionTypeOK'
  <2>0. PICK i \in SessionIds : i = reader[r].of
    BY <1>14 DEF Read, Reached
  <2> DEFINE s == [Seen(session[i]) EXCEPT !.served = @ \/ session[i].source \notin Direct]
  <2>1. Seen(session[i]) \in SessionRecord
    BY Edited DEF SessionTypeOK
  <2>2. s \in SessionRecord
    <3>1. \A b \in BOOLEAN : [Seen(session[i]) EXCEPT !.served = b] \in SessionRecord
      BY <2>1 DEF SessionRecord
    <3>2. (Seen(session[i]).served \/ session[i].source \notin Direct) \in BOOLEAN
      OBVIOUS
    <3> QED BY <3>1, <3>2
  <2>3. Record(i, s)
    BY <1>14, <2>0 DEF Read
  <2> HIDE DEF s
  <2>4. session' \in [SessionIds -> SessionRecord]
    BY <2>2, <2>3, SetSession
  <2> QED BY <1>14, <2>4 DEF Read, OnlyReads, SessionTypeOK
<1>15. ASSUME NEW r \in Readers, Detach(r)
      PROVE  SessionTypeOK'
  <2>0. PICK i \in SessionIds : i = reader[r].of
    BY <1>15 DEF Detach, Reached
  <2>1. session[i] \in SessionRecord
    BY DEF SessionTypeOK
  <2>2. session' \in [SessionIds -> SessionRecord]
    BY <1>15, <2>0, <2>1, Edited, SetSession DEF Detach
  <2>3. reader' \in [Readers -> Reader]
    BY <1>15, ReaderLeaves DEF Detach
  <2> QED BY <1>15, <2>2, <2>3 DEF Detach, OnlyReads, SessionTypeOK
<1>16. ASSUME NEW stop \in stops, EndStop(stop)
      PROVE  SessionTypeOK'
  <2>1. PICK i \in SessionIds : i = stop.of
    BY DEF SessionTypeOK
  <2>2. session[i] \in SessionRecord
    BY DEF SessionTypeOK
  <2>3. Record(i, Unmade) \/ Record(i, Ended(session[i]))
    BY <1>16, <2>1 DEF EndStop
  <2>4. session' \in [SessionIds -> SessionRecord]
    BY <2>2, <2>3, Edited, SetSession
  <2> QED BY <1>16, <2>4 DEF EndStop, SessionTypeOK
<1>17. CASE ReapOnce
  BY <1>17 DEF ReapOnce, SessionTypeOK
<1>18. ASSUME NEW c \in ChildIds, Exits(c)
      PROVE  SessionTypeOK'
  <2>1. child' \in [ChildIds -> Child]
    BY <1>18, SetChild DEF Exits
  <2> QED BY <1>18, <2>1 DEF Exits, SessionTypeOK
<1>19. ASSUME NEW c \in ChildIds, Tell(c)
      PROVE  SessionTypeOK'
  <2>1. PICK life \in {"None", "Runs", "Terminating", "Exited"} :
            child' = [child EXCEPT ![c].life = life]
    <3>1. child[c].life \in {"None", "Runs", "Terminating", "Exited"}
      BY DEF SessionTypeOK, Child
    <3> QED BY <1>19, <3>1 DEF Tell
  <2>2. child' \in [ChildIds -> Child]
    BY <2>1 DEF SessionTypeOK, Child
  <2> QED BY <1>19, <2>2 DEF Tell, SessionTypeOK
<1> QED BY <1>1, <1>2, <1>3, <1>4, <1>5, <1>6, <1>7, <1>8, <1>9, <1>10, <1>11, <1>12,
    <1>13, <1>14, <1>15, <1>16, <1>17, <1>18, <1>19 DEF SessionNext, ReaderNext

\* Only Start makes a child run, for a session that has none and is not over.
LEMMA AttachedStays ==
    ASSUME SessionInv, SessionNext
    PROVE  Attached'
<1> USE SessionAssumption DEF SessionTypeOK, SessionRecord, Child, Reader, Live,
    SessionIds, ChildIds, Viewer, SessionInv, Attached, Over, Reached, OnItsWay, Runs,
    IsOver, OneEncoderPerSession
<1>1. ASSUME NEW src \in Sources, NEW owner \in {Viewer, None}, Create(src, owner)
      PROVE  Attached'
  <2> HIDE DEF SessionTypeOK, SessionRecord, Child, Reader, Live, SessionIds, ChildIds,
               Viewer, SessionInv, Attached, Over, Reached, OnItsWay, Runs, IsOver,
               OneEncoderPerSession
  <2> QED BY <1>1, CreateKeeps
<1>2. ASSUME NEW i \in SessionIds, Release(i)
      PROVE  Attached'
  BY <1>2 DEF Release, Seen, Record, Asks
<1>3. ASSUME NEW i \in SessionIds, AskStop(i)
      PROVE  Attached'
  <2> HIDE DEF SessionTypeOK, SessionRecord, Child, Reader, Live, SessionIds, ChildIds,
               Viewer, SessionInv, Attached, Over, Reached, OnItsWay, Runs, IsOver,
               OneEncoderPerSession
  <2> QED BY <1>3, BeginStopKeeps DEF AskStop
<1>4. ASSUME NEW i \in SessionIds, ReapNext(i)
      PROVE  Attached'
  <2>1. CASE UNCHANGED session /\ UNCHANGED <<child, due>>
    BY <1>4, <2>1 DEF ReapNext
  <2>2. CASE BeginStop(i, Reaper)
    BY <1>4, <2>2, BeginStopKeeps DEF ReapNext
  <2> QED BY <1>4, <2>1, <2>2 DEF ReapNext
<1>5. ASSUME NEW i \in SessionIds, Forget(i)
      PROVE  Attached'
  BY <1>5 DEF Forget, Record, Unmade
<1>6. ASSUME NEW i \in SessionIds, Idles(i)
      PROVE  Attached'
  BY <1>6 DEF Idles, Record
<1>7. ASSUME NEW r \in Readers, NEW i \in SessionIds, Ask(r, i)
      PROVE  Attached'
  BY <1>7 DEF Ask, OnlyReads
<1>8. ASSUME NEW r \in Readers, Rewind(r)
      PROVE  Attached'
  <2> HIDE DEF SessionTypeOK, SessionRecord, Child, Reader, Live, SessionIds, ChildIds,
               Viewer, SessionInv, Attached, Over, Reached, OnItsWay, Runs, IsOver,
               OneEncoderPerSession
  <2> QED BY <1>8, RewindKeeps
<1>9. ASSUME NEW r \in Readers, Rewound(r)
      PROVE  Attached'
  BY <1>9 DEF Rewound, OnlyReads
<1>10. ASSUME NEW r \in Readers, Start(r)
      PROVE  Attached'
  <2> HIDE DEF SessionTypeOK, SessionRecord, Child, Reader, Live, SessionIds, ChildIds,
               Viewer, SessionInv, Attached, Over, Reached, OnItsWay, Runs, IsOver,
               OneEncoderPerSession
  <2> QED BY <1>10, StartKeeps
<1>11. ASSUME NEW r \in Readers, Count(r)
      PROVE  Attached'
  BY <1>11 DEF Count, OnlyReads, Goes, Record, Counted, Seen
<1>12. ASSUME NEW r \in Readers, AnswerLost(r)
      PROVE  Attached'
  BY <1>12 DEF AnswerLost, OnlyReads, Leaves, Away
<1>13. ASSUME NEW r \in Readers, Open(r)
      PROVE  Attached'
  BY <1>13 DEF Open, OnlyReads, Leaves, Away
<1>14. ASSUME NEW r \in Readers, Read(r)
      PROVE  Attached'
  BY <1>14 DEF Read, OnlyReads, Record, Seen
<1>15. ASSUME NEW r \in Readers, Detach(r)
      PROVE  Attached'
  BY <1>15 DEF Detach, OnlyReads, Leaves, Away, Record, Detached, Seen, LessOne
<1>16. ASSUME NEW stop \in stops, EndStop(stop)
      PROVE  Attached'
  BY <1>16 DEF EndStop, Record, Ended, Unmade
<1>17. CASE ReapOnce
  BY <1>17 DEF ReapOnce
<1>18. ASSUME NEW c \in ChildIds, Exits(c)
      PROVE  Attached'
  BY <1>18 DEF Exits
<1>19. ASSUME NEW c \in ChildIds, Tell(c)
      PROVE  Attached'
  BY <1>19 DEF Tell
<1> HIDE DEF SessionTypeOK, SessionRecord, Child, Reader, Live, SessionIds, ChildIds,
    Viewer, SessionInv, Attached, Over, Reached, OnItsWay, Runs, IsOver,
    OneEncoderPerSession
<1> QED BY <1>1, <1>2, <1>3, <1>4, <1>5, <1>6, <1>7, <1>8, <1>9, <1>10, <1>11, <1>12,
    <1>13, <1>14, <1>15, <1>16, <1>17, <1>18, <1>19 DEF SessionNext, ReaderNext

\* Stops and rewinds alone take a child from its session, and sessions are made in turn.
LEMMA OverStays ==
    ASSUME SessionInv, SessionNext
    PROVE  Over'
<1> USE SessionAssumption DEF SessionTypeOK, SessionRecord, Child, Reader, Live,
    SessionIds, ChildIds, Viewer, SessionInv, Attached, Over, Reached, OnItsWay, Runs,
    IsOver, OneEncoderPerSession
<1>1. ASSUME NEW src \in Sources, NEW owner \in {Viewer, None}, Create(src, owner)
      PROVE  Over'
  <2> HIDE DEF SessionTypeOK, SessionRecord, Child, Reader, Live, SessionIds, ChildIds,
               Viewer, SessionInv, Attached, Over, Reached, OnItsWay, Runs, IsOver,
               OneEncoderPerSession
  <2> QED BY <1>1, CreateKeeps
<1>2. ASSUME NEW i \in SessionIds, Release(i)
      PROVE  Over'
  BY <1>2 DEF Release, Seen, Record, Asks
<1>3. ASSUME NEW i \in SessionIds, AskStop(i)
      PROVE  Over'
  <2> HIDE DEF SessionTypeOK, SessionRecord, Child, Reader, Live, SessionIds, ChildIds,
               Viewer, SessionInv, Attached, Over, Reached, OnItsWay, Runs, IsOver,
               OneEncoderPerSession
  <2> QED BY <1>3, BeginStopKeeps DEF AskStop
<1>4. ASSUME NEW i \in SessionIds, ReapNext(i)
      PROVE  Over'
  <2>1. CASE UNCHANGED session /\ UNCHANGED <<child, due>>
    BY <1>4, <2>1 DEF ReapNext
  <2>2. CASE BeginStop(i, Reaper)
    BY <1>4, <2>2, BeginStopKeeps DEF ReapNext
  <2> QED BY <1>4, <2>1, <2>2 DEF ReapNext
<1>5. ASSUME NEW i \in SessionIds, Forget(i)
      PROVE  Over'
  BY <1>5 DEF Forget, Record, Unmade
<1>6. ASSUME NEW i \in SessionIds, Idles(i)
      PROVE  Over'
  BY <1>6 DEF Idles, Record
<1>7. ASSUME NEW r \in Readers, NEW i \in SessionIds, Ask(r, i)
      PROVE  Over'
  BY <1>7 DEF Ask, OnlyReads
<1>8. ASSUME NEW r \in Readers, Rewind(r)
      PROVE  Over'
  <2> HIDE DEF SessionTypeOK, SessionRecord, Child, Reader, Live, SessionIds, ChildIds,
               Viewer, SessionInv, Attached, Over, Reached, OnItsWay, Runs, IsOver,
               OneEncoderPerSession
  <2> QED BY <1>8, RewindKeeps
<1>9. ASSUME NEW r \in Readers, Rewound(r)
      PROVE  Over'
  BY <1>9 DEF Rewound, OnlyReads
<1>10. ASSUME NEW r \in Readers, Start(r)
      PROVE  Over'
  <2> HIDE DEF SessionTypeOK, SessionRecord, Child, Reader, Live, SessionIds, ChildIds,
               Viewer, SessionInv, Attached, Over, Reached, OnItsWay, Runs, IsOver,
               OneEncoderPerSession
  <2> QED BY <1>10, StartKeeps
<1>11. ASSUME NEW r \in Readers, Count(r)
      PROVE  Over'
  BY <1>11 DEF Count, OnlyReads, Goes, Record, Counted, Seen
<1>12. ASSUME NEW r \in Readers, AnswerLost(r)
      PROVE  Over'
  BY <1>12 DEF AnswerLost, OnlyReads, Leaves, Away
<1>13. ASSUME NEW r \in Readers, Open(r)
      PROVE  Over'
  BY <1>13 DEF Open, OnlyReads, Leaves, Away
<1>14. ASSUME NEW r \in Readers, Read(r)
      PROVE  Over'
  BY <1>14 DEF Read, OnlyReads, Record, Seen
<1>15. ASSUME NEW r \in Readers, Detach(r)
      PROVE  Over'
  BY <1>15 DEF Detach, OnlyReads, Leaves, Away, Record, Detached, Seen, LessOne
<1>16. ASSUME NEW stop \in stops, EndStop(stop)
      PROVE  Over'
  BY <1>16 DEF EndStop, Record, Ended, Unmade
<1>17. CASE ReapOnce
  BY <1>17 DEF ReapOnce
<1>18. ASSUME NEW c \in ChildIds, Exits(c)
      PROVE  Over'
  BY <1>18 DEF Exits
<1>19. ASSUME NEW c \in ChildIds, Tell(c)
      PROVE  Over'
  BY <1>19 DEF Tell
<1> HIDE DEF SessionTypeOK, SessionRecord, Child, Reader, Live, SessionIds, ChildIds,
    Viewer, SessionInv, Attached, Over, Reached, OnItsWay, Runs, IsOver,
    OneEncoderPerSession
<1> QED BY <1>1, <1>2, <1>3, <1>4, <1>5, <1>6, <1>7, <1>8, <1>9, <1>10, <1>11, <1>12,
    <1>13, <1>14, <1>15, <1>16, <1>17, <1>18, <1>19 DEF SessionNext, ReaderNext

\* Forget waits for the requests on their way.
LEMMA ReachedStays ==
    ASSUME SessionInv, SessionNext
    PROVE  Reached'
<1> USE SessionAssumption DEF SessionTypeOK, SessionRecord, Child, Reader, Live,
    SessionIds, ChildIds, Viewer, SessionInv, Attached, Over, Reached, OnItsWay, Runs,
    IsOver, OneEncoderPerSession
<1>1. ASSUME NEW src \in Sources, NEW owner \in {Viewer, None}, Create(src, owner)
      PROVE  Reached'
  <2> HIDE DEF SessionTypeOK, SessionRecord, Child, Reader, Live, SessionIds, ChildIds,
               Viewer, SessionInv, Attached, Over, Reached, OnItsWay, Runs, IsOver,
               OneEncoderPerSession
  <2> QED BY <1>1, CreateKeeps
<1>2. ASSUME NEW i \in SessionIds, Release(i)
      PROVE  Reached'
  BY <1>2 DEF Release, Seen, Record, Asks
<1>3. ASSUME NEW i \in SessionIds, AskStop(i)
      PROVE  Reached'
  <2> HIDE DEF SessionTypeOK, SessionRecord, Child, Reader, Live, SessionIds, ChildIds,
               Viewer, SessionInv, Attached, Over, Reached, OnItsWay, Runs, IsOver,
               OneEncoderPerSession
  <2> QED BY <1>3, BeginStopKeeps DEF AskStop
<1>4. ASSUME NEW i \in SessionIds, ReapNext(i)
      PROVE  Reached'
  <2>1. CASE UNCHANGED session /\ UNCHANGED <<child, due>>
    BY <1>4, <2>1 DEF ReapNext
  <2>2. CASE BeginStop(i, Reaper)
    BY <1>4, <2>2, BeginStopKeeps DEF ReapNext
  <2> QED BY <1>4, <2>1, <2>2 DEF ReapNext
<1>5. ASSUME NEW i \in SessionIds, Forget(i)
      PROVE  Reached'
  BY <1>5 DEF Forget, Record, Unmade
<1>6. ASSUME NEW i \in SessionIds, Idles(i)
      PROVE  Reached'
  BY <1>6 DEF Idles, Record
<1>7. ASSUME NEW r \in Readers, NEW i \in SessionIds, Ask(r, i)
      PROVE  Reached'
  BY <1>7 DEF Ask, OnlyReads
<1>8. ASSUME NEW r \in Readers, Rewind(r)
      PROVE  Reached'
  <2> HIDE DEF SessionTypeOK, SessionRecord, Child, Reader, Live, SessionIds, ChildIds,
               Viewer, SessionInv, Attached, Over, Reached, OnItsWay, Runs, IsOver,
               OneEncoderPerSession
  <2> QED BY <1>8, RewindKeeps
<1>9. ASSUME NEW r \in Readers, Rewound(r)
      PROVE  Reached'
  BY <1>9 DEF Rewound, OnlyReads
<1>10. ASSUME NEW r \in Readers, Start(r)
      PROVE  Reached'
  <2> HIDE DEF SessionTypeOK, SessionRecord, Child, Reader, Live, SessionIds, ChildIds,
               Viewer, SessionInv, Attached, Over, Reached, OnItsWay, Runs, IsOver,
               OneEncoderPerSession
  <2> QED BY <1>10, StartKeeps
<1>11. ASSUME NEW r \in Readers, Count(r)
      PROVE  Reached'
  BY <1>11 DEF Count, OnlyReads, Goes, Record, Counted, Seen
<1>12. ASSUME NEW r \in Readers, AnswerLost(r)
      PROVE  Reached'
  BY <1>12 DEF AnswerLost, OnlyReads, Leaves, Away
<1>13. ASSUME NEW r \in Readers, Open(r)
      PROVE  Reached'
  <2>1. UNCHANGED <<session, made, started, child>>
    BY <1>13 DEF Open, OnlyReads
  <2>2. \A q \in Readers \ {r} : reader'[q] = reader[q]
    BY <1>13 DEF Open, Leaves
  <2>3. reader'[r].pc = "Away" \/ (reader'[r].pc = "Read" /\ reader'[r].of = reader[r].of)
    <3>1. reader[r] \in Reader /\ reader \in [Readers -> Reader]
      OBVIOUS
    <3>2. CASE Leaves(r)
      BY <3>1, <3>2 DEF Leaves, Away
    <3>3. CASE reader' = [reader EXCEPT ![r].pc = "Read",
                                       ![r].proc = session[reader[r].of].proc]
      BY <3>1, <3>3
    <3> QED BY <1>13, <3>2, <3>3 DEF Open
  <2>4. reader[r].pc = "Answer"
    BY <1>13 DEF Open
  <2> HIDE DEF SessionTypeOK, SessionRecord, Child, Reader, Live, SessionIds, ChildIds,
               Viewer, Attached, Over, Runs, IsOver, OneEncoderPerSession
  <2> QED BY <2>1, <2>2, <2>3, <2>4
<1>14. ASSUME NEW r \in Readers, Read(r)
      PROVE  Reached'
  BY <1>14 DEF Read, OnlyReads, Record, Seen
<1>15. ASSUME NEW r \in Readers, Detach(r)
      PROVE  Reached'
  BY <1>15 DEF Detach, OnlyReads, Leaves, Away, Record, Detached, Seen, LessOne
<1>16. ASSUME NEW stop \in stops, EndStop(stop)
      PROVE  Reached'
  BY <1>16 DEF EndStop, Record, Ended, Unmade
<1>17. CASE ReapOnce
  BY <1>17 DEF ReapOnce
<1>18. ASSUME NEW c \in ChildIds, Exits(c)
      PROVE  Reached'
  BY <1>18 DEF Exits
<1>19. ASSUME NEW c \in ChildIds, Tell(c)
      PROVE  Reached'
  BY <1>19 DEF Tell
<1> HIDE DEF SessionTypeOK, SessionRecord, Child, Reader, Live, SessionIds, ChildIds,
    Viewer, SessionInv, Attached, Over, Reached, OnItsWay, Runs, IsOver,
    OneEncoderPerSession
<1> QED BY <1>1, <1>2, <1>3, <1>4, <1>5, <1>6, <1>7, <1>8, <1>9, <1>10, <1>11, <1>12,
    <1>13, <1>14, <1>15, <1>16, <1>17, <1>18, <1>19 DEF SessionNext, ReaderNext

\* Start finds no other child of its session running: it would be attached.
LEMMA OneEncoderPerSessionStays ==
    ASSUME SessionInv, SessionNext
    PROVE  OneEncoderPerSession'
<1> USE SessionAssumption DEF SessionTypeOK, SessionRecord, Child, Reader, Live,
    SessionIds, ChildIds, Viewer, SessionInv, Attached, Over, Reached, OnItsWay, Runs,
    IsOver, OneEncoderPerSession
<1>1. ASSUME NEW src \in Sources, NEW owner \in {Viewer, None}, Create(src, owner)
      PROVE  OneEncoderPerSession'
  <2> HIDE DEF SessionTypeOK, SessionRecord, Child, Reader, Live, SessionIds, ChildIds,
               Viewer, SessionInv, Attached, Over, Reached, OnItsWay, Runs, IsOver,
               OneEncoderPerSession
  <2> QED BY <1>1, CreateKeeps
<1>2. ASSUME NEW i \in SessionIds, Release(i)
      PROVE  OneEncoderPerSession'
  BY <1>2 DEF Release, Seen, Record, Asks
<1>3. ASSUME NEW i \in SessionIds, AskStop(i)
      PROVE  OneEncoderPerSession'
  <2> HIDE DEF SessionTypeOK, SessionRecord, Child, Reader, Live, SessionIds, ChildIds,
               Viewer, SessionInv, Attached, Over, Reached, OnItsWay, Runs, IsOver,
               OneEncoderPerSession
  <2> QED BY <1>3, BeginStopKeeps DEF AskStop
<1>4. ASSUME NEW i \in SessionIds, ReapNext(i)
      PROVE  OneEncoderPerSession'
  <2>1. CASE UNCHANGED session /\ UNCHANGED <<child, due>>
    BY <1>4, <2>1 DEF ReapNext
  <2>2. CASE BeginStop(i, Reaper)
    BY <1>4, <2>2, BeginStopKeeps DEF ReapNext
  <2> QED BY <1>4, <2>1, <2>2 DEF ReapNext
<1>5. ASSUME NEW i \in SessionIds, Forget(i)
      PROVE  OneEncoderPerSession'
  BY <1>5 DEF Forget, Record, Unmade
<1>6. ASSUME NEW i \in SessionIds, Idles(i)
      PROVE  OneEncoderPerSession'
  BY <1>6 DEF Idles, Record
<1>7. ASSUME NEW r \in Readers, NEW i \in SessionIds, Ask(r, i)
      PROVE  OneEncoderPerSession'
  BY <1>7 DEF Ask, OnlyReads
<1>8. ASSUME NEW r \in Readers, Rewind(r)
      PROVE  OneEncoderPerSession'
  <2> HIDE DEF SessionTypeOK, SessionRecord, Child, Reader, Live, SessionIds, ChildIds,
               Viewer, SessionInv, Attached, Over, Reached, OnItsWay, Runs, IsOver,
               OneEncoderPerSession
  <2> QED BY <1>8, RewindKeeps
<1>9. ASSUME NEW r \in Readers, Rewound(r)
      PROVE  OneEncoderPerSession'
  BY <1>9 DEF Rewound, OnlyReads
<1>10. ASSUME NEW r \in Readers, Start(r)
      PROVE  OneEncoderPerSession'
  <2> HIDE DEF SessionTypeOK, SessionRecord, Child, Reader, Live, SessionIds, ChildIds,
               Viewer, SessionInv, Attached, Over, Reached, OnItsWay, Runs, IsOver,
               OneEncoderPerSession
  <2> QED BY <1>10, StartKeeps
<1>11. ASSUME NEW r \in Readers, Count(r)
      PROVE  OneEncoderPerSession'
  BY <1>11 DEF Count, OnlyReads, Goes, Record, Counted, Seen
<1>12. ASSUME NEW r \in Readers, AnswerLost(r)
      PROVE  OneEncoderPerSession'
  BY <1>12 DEF AnswerLost, OnlyReads, Leaves, Away
<1>13. ASSUME NEW r \in Readers, Open(r)
      PROVE  OneEncoderPerSession'
  BY <1>13 DEF Open, OnlyReads, Leaves, Away
<1>14. ASSUME NEW r \in Readers, Read(r)
      PROVE  OneEncoderPerSession'
  BY <1>14 DEF Read, OnlyReads, Record, Seen
<1>15. ASSUME NEW r \in Readers, Detach(r)
      PROVE  OneEncoderPerSession'
  BY <1>15 DEF Detach, OnlyReads, Leaves, Away, Record, Detached, Seen, LessOne
<1>16. ASSUME NEW stop \in stops, EndStop(stop)
      PROVE  OneEncoderPerSession'
  BY <1>16 DEF EndStop, Record, Ended, Unmade
<1>17. CASE ReapOnce
  BY <1>17 DEF ReapOnce
<1>18. ASSUME NEW c \in ChildIds, Exits(c)
      PROVE  OneEncoderPerSession'
  BY <1>18 DEF Exits
<1>19. ASSUME NEW c \in ChildIds, Tell(c)
      PROVE  OneEncoderPerSession'
  BY <1>19 DEF Tell
<1> HIDE DEF SessionTypeOK, SessionRecord, Child, Reader, Live, SessionIds, ChildIds,
    Viewer, SessionInv, Attached, Over, Reached, OnItsWay, Runs, IsOver,
    OneEncoderPerSession
<1> QED BY <1>1, <1>2, <1>3, <1>4, <1>5, <1>6, <1>7, <1>8, <1>9, <1>10, <1>11, <1>12,
    <1>13, <1>14, <1>15, <1>16, <1>17, <1>18, <1>19 DEF SessionNext, ReaderNext

\* A request is for a session that was made.
LEMMA KnownStays ==
    ASSUME ReaderInv, SessionNext
    PROVE  Known'
<1> USE SessionAssumption DEF SessionTypeOK, SessionRecord, Child, Reader, Live,
    SessionIds, ChildIds, Viewer, ReaderInv, SessionInv, Over, Reached, OnItsWay, IsOver,
    Known
<1>1. ASSUME NEW src \in Sources, NEW owner \in {Viewer, None}, Create(src, owner)
      PROVE  Known'
  BY <1>1 DEF Create, Again, Anew, Existing, Seen, Record, Unmade, Asks
<1>2. ASSUME NEW i \in SessionIds, Release(i)
      PROVE  Known'
  BY <1>2 DEF Release, Seen, Record, Asks
<1>3. ASSUME NEW i \in SessionIds, AskStop(i)
      PROVE  Known'
  BY <1>3 DEF AskStop, BeginStop, Record, Asks
<1>4. ASSUME NEW i \in SessionIds, ReapNext(i)
      PROVE  Known'
  BY <1>4 DEF ReapNext, BeginStop, Record
<1>5. ASSUME NEW i \in SessionIds, Forget(i)
      PROVE  Known'
  BY <1>5 DEF Forget, Record, Unmade
<1>6. ASSUME NEW i \in SessionIds, Idles(i)
      PROVE  Known'
  BY <1>6 DEF Idles, Record
<1>7. ASSUME NEW r \in Readers, NEW i \in SessionIds, Ask(r, i)
      PROVE  Known'
  BY <1>7 DEF Ask, OnlyReads
<1>8. ASSUME NEW r \in Readers, Rewind(r)
      PROVE  Known'
  <2>1. /\ made' = made /\ reader'[r].of = reader[r].of
        /\ \A q \in Readers \ {r} : reader'[q] = reader[q]
    <3>1. CASE Goes(r, "Start")
      BY <1>8, <3>1, ReaderGoes DEF Rewind, OnlyReads
    <3>2. CASE reader' = [reader EXCEPT ![r].pc = "Terminate",
                                       ![r].proc = session[reader[r].of].proc]
      BY <1>8, <3>2 DEF Rewind, OnlyReads
    <3> QED BY <1>8, <3>1, <3>2 DEF Rewind
  <2>2. reader[r].pc = "Rewind"
    BY <1>8 DEF Rewind
  <2> QED BY <2>1, <2>2
<1>9. ASSUME NEW r \in Readers, Rewound(r)
      PROVE  Known'
  BY <1>9 DEF Rewound, OnlyReads
<1>10. ASSUME NEW r \in Readers, Start(r)
      PROVE  Known'
  <2>1. /\ made' = made /\ (reader'[r].pc = "Away" \/ reader'[r].of = reader[r].of)
        /\ \A q \in Readers \ {r} : reader'[q] = reader[q]
    <3>1. Goes(r, "Count") \/ Leaves(r)
      BY <1>10 DEF Start
    <3> QED BY <1>10, <3>1, ReaderGoes, ReaderLeaves DEF Start, OnlyReads
  <2>2. reader[r].pc = "Start"
    BY <1>10 DEF Start
  <2> QED BY <2>1, <2>2
<1>11. ASSUME NEW r \in Readers, Count(r)
      PROVE  Known'
  BY <1>11 DEF Count, OnlyReads, Goes, Record, Counted, Seen
<1>12. ASSUME NEW r \in Readers, AnswerLost(r)
      PROVE  Known'
  BY <1>12 DEF AnswerLost, OnlyReads, Leaves, Away
<1>13. ASSUME NEW r \in Readers, Open(r)
      PROVE  Known'
  <2>1. /\ made' = made /\ (reader'[r].pc = "Away" \/ reader'[r].of = reader[r].of)
        /\ \A q \in Readers \ {r} : reader'[q] = reader[q]
    <3>1. CASE Leaves(r)
      BY <1>13, <3>1, ReaderLeaves DEF Open, OnlyReads
    <3>2. CASE reader' = [reader EXCEPT ![r].pc = "Read",
                                       ![r].proc = session[reader[r].of].proc]
      BY <1>13, <3>2 DEF Open, OnlyReads
    <3> QED BY <1>13, <3>1, <3>2 DEF Open
  <2>2. reader[r].pc = "Answer"
    BY <1>13 DEF Open
  <2> QED BY <2>1, <2>2
<1>14. ASSUME NEW r \in Readers, Read(r)
      PROVE  Known'
  BY <1>14 DEF Read, OnlyReads, Record, Seen
<1>15. ASSUME NEW r \in Readers, Detach(r)
      PROVE  Known'
  BY <1>15 DEF Detach, OnlyReads, Leaves, Away, Record, Detached, Seen, LessOne
<1>16. ASSUME NEW stop \in stops, EndStop(stop)
      PROVE  Known'
  BY <1>16 DEF EndStop, Record, Ended, Unmade
<1>17. CASE ReapOnce
  BY <1>17 DEF ReapOnce
<1>18. ASSUME NEW c \in ChildIds, Exits(c)
      PROVE  Known'
  BY <1>18 DEF Exits
<1>19. ASSUME NEW c \in ChildIds, Tell(c)
      PROVE  Known'
  BY <1>19 DEF Tell
<1> HIDE DEF SessionTypeOK, SessionRecord, Child, Reader, Live, SessionIds, ChildIds,
    Viewer, ReaderInv, SessionInv, Over, Reached, OnItsWay, IsOver, Known
<1> QED BY <1>1, <1>2, <1>3, <1>4, <1>5, <1>6, <1>7, <1>8, <1>9, <1>10, <1>11, <1>12,
    <1>13, <1>14, <1>15, <1>16, <1>17, <1>18, <1>19 DEF SessionNext, ReaderNext

\* Whoever gets a stream is counted in the same step, and each is taken off once.
LEMMA ToldStays ==
    ASSUME ReaderInv, SessionNext
    PROVE  Told'
<1> USE SessionAssumption DEF SessionTypeOK, SessionRecord, Child, Reader, Live,
    SessionIds, ChildIds, Viewer, ReaderInv, SessionInv, Over, Reached, OnItsWay, IsOver,
    Known, Told
<1>1. ASSUME NEW src \in Sources, NEW owner \in {Viewer, None}, Create(src, owner)
      PROVE  Told'
  BY <1>1, CreateTells
<1>2. ASSUME NEW i \in SessionIds, Release(i)
      PROVE  Told'
  <2>1. reader' = reader /\ \A j \in SessionIds : /\ session'[j].state = session[j].state
                                                 /\ session'[j].clients = session[j].clients
    BY <1>2 DEF Release, Seen, Record
  <2> QED BY <2>1, ToldUnless
<1>3. ASSUME NEW i \in SessionIds, AskStop(i)
      PROVE  Told'
  <2>1. BeginStop(i, asked + 1) /\ reader' = reader
    BY <1>3 DEF AskStop
  <2>2. /\ session'[i].clients = session[i].clients /\ ~IsOver(i)
        /\ \A j \in SessionIds \ {i} : session'[j] = session[j]
    BY <2>1 DEF BeginStop, Record
  <2> QED BY <2>1, <2>2, ToldUnless
<1>4. ASSUME NEW i \in SessionIds, ReapNext(i)
      PROVE  Told'
  <2>1. reader' = reader
    BY <1>4 DEF ReapNext
  <2>2. CASE session' = session
    BY <2>1, <2>2, ToldUnless
  <2>3. CASE BeginStop(i, Reaper)
    <3>1. /\ session'[i].clients = session[i].clients /\ ~IsOver(i)
          /\ \A j \in SessionIds \ {i} : session'[j] = session[j]
      BY <2>3 DEF BeginStop, Record
    <3> QED BY <2>1, <3>1, ToldUnless
  <2> QED BY <1>4, <2>2, <2>3 DEF ReapNext
<1>5. ASSUME NEW i \in SessionIds, Forget(i)
      PROVE  Told'
  BY <1>5, ToldUnless DEF Forget, Record, Unmade
<1>6. ASSUME NEW i \in SessionIds, Idles(i)
      PROVE  Told'
  <2>1. /\ session'[i].clients = session[i].clients /\ session'[i].state = session[i].state
        /\ \A j \in SessionIds \ {i} : session'[j] = session[j]
    BY <1>6 DEF Idles, Record
  <2> QED BY <1>6, <2>1, ToldUnless DEF Idles
<1>7. ASSUME NEW r \in Readers, NEW i \in SessionIds, Ask(r, i)
      PROVE  Told'
  BY <1>7, ToldUnless DEF Ask, OnlyReads
<1>8. ASSUME NEW r \in Readers, Rewind(r)
      PROVE  Told'
  <2>0. PICK i \in SessionIds : i = reader[r].of
    BY <1>8 DEF Rewind
  <2>1. /\ reader'[r].pc \in {"Start", "Terminate"}
        /\ \A q \in Readers \ {r} : reader'[q] = reader[q]
    <3>1. CASE Goes(r, "Start")
      BY <3>1, ReaderGoes
    <3>2. CASE reader' = [reader EXCEPT ![r].pc = "Terminate",
                                       ![r].proc = session[reader[r].of].proc]
      BY <3>2
    <3> QED BY <1>8, <3>1, <3>2 DEF Rewind
  <2>2. /\ session'[i].clients = session[i].clients
        /\ \A j \in SessionIds \ {i} : session'[j] = session[j]
        /\ session' = session \/ ~IsOver(i)
    <3>1. CASE session' = session
      BY <3>1
    <3>2. CASE /\ NeedsRewind(session[i])
               /\ Record(i, [session[i] EXCEPT !.proc = None, !.served = FALSE,
                                               !.state = "Created"])
      BY <3>2 DEF Record, NeedsRewind
    <3> QED BY <1>8, <2>0, <3>1, <3>2 DEF Rewind
  <2> QED BY <2>1, <2>2, ToldUnless
<1>9. ASSUME NEW r \in Readers, Rewound(r)
      PROVE  Told'
  BY <1>9, ToldUnless DEF Rewound, OnlyReads
<1>10. ASSUME NEW r \in Readers, Start(r)
      PROVE  Told'
  <2>0. PICK i \in SessionIds : i = reader[r].of
    BY <1>10 DEF Start
  <2>1. /\ reader'[r].pc \in {"Away", "Count"}
        /\ \A q \in Readers \ {r} : reader'[q] = reader[q]
    <3>1. Goes(r, "Count") \/ Leaves(r)
      BY <1>10 DEF Start
    <3> QED BY <1>10, <3>1, ReaderGoes, ReaderLeaves
  <2>2. /\ session'[i].clients = session[i].clients
        /\ \A j \in SessionIds \ {i} : session'[j] = session[j]
        /\ session' = session \/ ~IsOver(i)
    <3>1. session[i].state # "Unmade"
      BY <1>10, <2>0 DEF Start
    <3>2. CASE session' = session
      BY <3>2
    <3>3. CASE /\ Record(i, [session[i] EXCEPT !.proc = started + 1, !.state = "Running"])
               /\ session[i].state # "Stopped"
      BY <3>1, <3>3 DEF Record
    <3>4. CASE /\ Record(i, [session[i] EXCEPT !.state = "Failed"])
               /\ session[i].state # "Stopped"
      BY <3>1, <3>4 DEF Record
    <3> QED BY <1>10, <2>0, <3>2, <3>3, <3>4 DEF Start
  <2> QED BY <2>1, <2>2, ToldUnless
<1>11. ASSUME NEW r \in Readers, Count(r)
      PROVE  Told'
  BY <1>11, CountTells
<1>12. ASSUME NEW r \in Readers, AnswerLost(r)
      PROVE  Told'
  BY <1>12, ToldUnless DEF AnswerLost, OnlyReads, Leaves, Away
<1>13. ASSUME NEW r \in Readers, Open(r)
      PROVE  Told'
  <2>1. session' = session /\ \A q \in Readers \ {r} : reader'[q] = reader[q]
    BY <1>13 DEF Open, Leaves
  <2>2. reader[r].pc = "Answer" /\ (reader'[r].pc = "Away" \/ reader'[r].of = reader[r].of)
    <3>1. CASE Leaves(r)
      BY <1>13, <3>1, ReaderLeaves DEF Open
    <3>2. CASE reader' = [reader EXCEPT ![r].pc = "Read",
                                       ![r].proc = session[reader[r].of].proc]
      BY <1>13, <3>2 DEF Open
    <3> QED BY <1>13, <3>1, <3>2 DEF Open
  <2> QED BY <2>1, <2>2, ToldUnless
<1>14. ASSUME NEW r \in Readers, Read(r)
      PROVE  Told'
  <2>1. reader' = reader /\ \A j \in SessionIds : /\ session'[j].state = session[j].state
                                                 /\ session'[j].clients = session[j].clients
    BY <1>14 DEF Read, OnlyReads, Record, Seen
  <2> QED BY <2>1, ToldUnless
<1>15. ASSUME NEW r \in Readers, Detach(r)
      PROVE  Told'
  BY <1>15, DetachTells
<1>16. ASSUME NEW stop \in stops, EndStop(stop)
      PROVE  Told'
  BY <1>16, ToldUnless DEF EndStop, Record, Ended, Unmade
<1>17. CASE ReapOnce
  BY <1>17, ToldUnless DEF ReapOnce
<1>18. ASSUME NEW c \in ChildIds, Exits(c)
      PROVE  Told'
  BY <1>18, ToldUnless DEF Exits
<1>19. ASSUME NEW c \in ChildIds, Tell(c)
      PROVE  Told'
  BY <1>19, ToldUnless DEF Tell
<1> HIDE DEF SessionTypeOK, SessionRecord, Child, Reader, Live, SessionIds, ChildIds,
    Viewer, ReaderInv, SessionInv, Over, Reached, OnItsWay, IsOver, Known, Told
<1> QED BY <1>1, <1>2, <1>3, <1>4, <1>5, <1>6, <1>7, <1>8, <1>9, <1>10, <1>11, <1>12,
    <1>13, <1>14, <1>15, <1>16, <1>17, <1>18, <1>19 DEF SessionNext, ReaderNext

\* A child is taken from its session when no request has it, or the session is over.
LEMMA DrawnStays ==
    ASSUME ReaderInv, SessionNext
    PROVE  Drawn'
<1> USE SessionAssumption DEF SessionTypeOK, SessionRecord, Child, Reader, Live,
    SessionIds, ChildIds, Viewer, ReaderInv, SessionInv, Over, Reached, OnItsWay, IsOver,
    Known, Drawn
<1>1. ASSUME NEW src \in Sources, NEW owner \in {Viewer, None}, Create(src, owner)
      PROVE  Drawn'
  <2>1. UNCHANGED <<reader, child>> /\ made \in Nat
    BY <1>1 DEF Create
  <2>2. CASE Again(src, owner)
    BY <1>1, <2>1, <2>2, AgainKeeps
  <2>3. CASE Anew(src, owner)
    <3>1. \A r \in Readers : reader[r].pc # "Away" => reader[r].of # made + 1
      BY <2>1
    <3>2. \A j \in SessionIds \ {made + 1} : session'[j] = session[j]
      BY <2>3 DEF Anew, Record
    <3>3. \A r \in Readers : reader[r].pc # "Away" =>
              session'[reader[r].of] = session[reader[r].of]
      BY <3>1, <3>2
    <3> QED BY <2>1, <3>3
  <2> QED BY <1>1, <2>2, <2>3 DEF Create
<1>2. ASSUME NEW i \in SessionIds, Release(i)
      PROVE  Drawn'
  BY <1>2 DEF Release, Seen, Record, Asks
<1>3. ASSUME NEW i \in SessionIds, AskStop(i)
      PROVE  Drawn'
  BY <1>3 DEF AskStop, BeginStop, Record, Asks
<1>4. ASSUME NEW i \in SessionIds, ReapNext(i)
      PROVE  Drawn'
  <2>1. reader' = reader
    BY <1>4 DEF ReapNext
  <2>2. CASE session' = session
    BY <2>1, <2>2
  <2>3. CASE BeginStop(i, Reaper)
    BY <2>1, <2>3 DEF BeginStop, Record
  <2> QED BY <1>4, <2>2, <2>3 DEF ReapNext
<1>5. ASSUME NEW i \in SessionIds, Forget(i)
      PROVE  Drawn'
  BY <1>5 DEF Forget, Record, Unmade
<1>6. ASSUME NEW i \in SessionIds, Idles(i)
      PROVE  Drawn'
  BY <1>6 DEF Idles, Record
<1>7. ASSUME NEW r \in Readers, NEW i \in SessionIds, Ask(r, i)
      PROVE  Drawn'
  BY <1>7 DEF Ask, OnlyReads
<1>8. ASSUME NEW r \in Readers, Rewind(r)
      PROVE  Drawn'
  BY <1>8, RewindDraws
<1>9. ASSUME NEW r \in Readers, Rewound(r)
      PROVE  Drawn'
  BY <1>9 DEF Rewound, OnlyReads
<1>10. ASSUME NEW r \in Readers, Start(r)
      PROVE  Drawn'
  BY <1>10, StartDraws
<1>11. ASSUME NEW r \in Readers, Count(r)
      PROVE  Drawn'
  BY <1>11 DEF Count, OnlyReads, Goes, Record, Counted, Seen
<1>12. ASSUME NEW r \in Readers, AnswerLost(r)
      PROVE  Drawn'
  BY <1>12 DEF AnswerLost, OnlyReads, Leaves, Away
<1>13. ASSUME NEW r \in Readers, Open(r)
      PROVE  Drawn'
  BY <1>13, OpenDraws
<1>14. ASSUME NEW r \in Readers, Read(r)
      PROVE  Drawn'
  BY <1>14 DEF Read, OnlyReads, Record, Seen
<1>15. ASSUME NEW r \in Readers, Detach(r)
      PROVE  Drawn'
  BY <1>15 DEF Detach, OnlyReads, Leaves, Away, Record, Detached, Seen, LessOne
<1>16. ASSUME NEW stop \in stops, EndStop(stop)
      PROVE  Drawn'
  BY <1>16 DEF EndStop, Record, Ended, Unmade
<1>17. CASE ReapOnce
  BY <1>17 DEF ReapOnce
<1>18. ASSUME NEW c \in ChildIds, Exits(c)
      PROVE  Drawn'
  BY <1>18 DEF Exits
<1>19. ASSUME NEW c \in ChildIds, Tell(c)
      PROVE  Drawn'
  BY <1>19 DEF Tell
<1> HIDE DEF SessionTypeOK, SessionRecord, Child, Reader, Live, SessionIds, ChildIds,
    Viewer, ReaderInv, SessionInv, Over, Reached, OnItsWay, IsOver, Known, Drawn
<1> QED BY <1>1, <1>2, <1>3, <1>4, <1>5, <1>6, <1>7, <1>8, <1>9, <1>10, <1>11, <1>12,
    <1>13, <1>14, <1>15, <1>16, <1>17, <1>18, <1>19 DEF SessionNext, ReaderNext

----------------------------------------------------------------------------
(* The invariant, and what follows from it.                                   *)

\* The manager starts with nothing.
LEMMA InitInv == SessionInit => ReaderInv
<1> SUFFICES ASSUME SessionInit PROVE ReaderInv
  OBVIOUS
<1>1. Unmade \in SessionRecord /\ Unmade.proc = None /\ Unmade.state = "Unmade"
  BY DEF Unmade, SessionRecord, Live, Viewer
<1>2. Away \in Reader /\ Away.pc = "Away"
  BY DEF Away, Reader
<1>3. [life |-> "None", of |-> None] \in Child
  BY DEF Child
<1>4. SessionTypeOK
  BY <1>1, <1>2, <1>3, SessionAssumption DEF SessionTypeOK, SessionInit
<1>5. \A c \in ChildIds : child[c].life = "None"
  BY DEF SessionInit
<1>6. Attached /\ OneEncoderPerSession
  BY <1>5 DEF Attached, OneEncoderPerSession, Runs
<1>7. Over
  BY <1>1 DEF Over, SessionInit
<1>8. Reached /\ Known /\ Drawn
  BY <1>2 DEF Reached, Known, Drawn, OnItsWay, SessionInit
<1>9. Told
  BY <1>1 DEF Told, IsOver, SessionInit
<1> QED BY <1>4, <1>6, <1>7, <1>8, <1>9 DEF ReaderInv, SessionInv

\* Every step of a request, of the daemon, of the reaper or of a child keeps it.
LEMMA StepInv == ReaderInv /\ [SessionNext]_vars => ReaderInv'
<1> SUFFICES ASSUME ReaderInv, [SessionNext]_vars PROVE ReaderInv'
  OBVIOUS
<1>1. CASE SessionNext
  <2>1. SessionTypeOK' /\ Attached' /\ Over' /\ Reached' /\ OneEncoderPerSession'
    BY <1>1, TypeStays, AttachedStays, OverStays, ReachedStays, OneEncoderPerSessionStays
       DEF ReaderInv, SessionInv
  <2>2. Known' /\ Told' /\ Drawn'
    BY <1>1, KnownStays, ToldStays, DrawnStays
  <2> QED BY <2>1, <2>2 DEF ReaderInv, SessionInv
<1>2. CASE UNCHANGED vars
  BY <1>2 DEF vars, ReaderInv, SessionInv, SessionTypeOK, Attached, Over, Reached, Known,
      Told,
              Drawn, OneEncoderPerSession, Runs, IsOver, ReadersOf
<1> QED BY <1>1, <1>2

\* It holds in every state the manager reaches.
LEMMA Invariance == SessionSpec => []ReaderInv
  BY InitInv, StepInv, PTL DEF SessionSpec

\* For any sources and readers, the manager's records, children and requests are
\* ones it can hold.
THEOREM SessionTypeCorrect == SessionSpec => []SessionTypeOK
<1>1. ReaderInv => SessionTypeOK
  BY DEF ReaderInv, SessionInv
<1> QED BY <1>1, Invariance, PTL

\* However many requests, rewinds and stops are under way, of the encoders of a
\* session that run at most one is not in the hands of a rewind or a stop about to
\* tell it to end: _start never adds one beside an encoder that is to go on.
THEOREM OneEncoder == SessionSpec => []OneEncoderPerSession
<1>1. ReaderInv => OneEncoderPerSession
  BY DEF ReaderInv, SessionInv
<1> QED BY <1>1, Invariance, PTL

\* However many read a session, and however they come and go, it counts them all
\* until it is stopped: neither the reaper nor a rewind finds it unread before.
THEOREM AllCounted == SessionSpec => []ReadersAreCounted
<1>1. ReaderInv => ReadersAreCounted
  BY DEF ReaderInv, Told, ReadersAreCounted, IsOver, Live
<1> QED BY <1>1, Invariance, PTL

\* However many read a session, none of them has its stream rewound under it.
THEOREM NotCut == SessionSpec => []NotCutByARewind
<1>1. ReaderInv => NotCutByARewind
  BY DEF ReaderInv, Drawn, NotCutByARewind, IsOver, Live
<1> QED BY <1>1, Invariance, PTL

=============================================================================
