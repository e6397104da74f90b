--------------------------- MODULE HandoverProofs ---------------------------
(* What holds of the handovers for any requests and worlds.  KodiUiApart is   *)
(* not inductive: it needs the gate, which is the mutex and the file together *)
(* (GateHeld), that whoever is inside has stopped, or will stop, all that is  *)
(* in its way (InOrder), and that a unit that is ending is being waited for   *)
(* by one who is inside (Awaited).                                            *)
EXTENDS Handover, TLAPS

Two           == {"Ui", "Kodi"}
Inside(t)     == task[t].pc \in {"Stops", "Stopping", "Start", "Held"}
ToStop(t, x)  == \E i \in 1..Len(task[t].stops) : task[t].stops[i] = x
Awaits(t, x)  == task[t].pc = "Stopping" /\ Head(task[t].stops) = x

\* How a task's place and the steps left to it agree.
Placed(t) ==
    /\ At(t, "Free") => task[t].kind = None /\ task[t].to = None
    /\ At(t, "Stopping") => task[t].stops # <<>>
    /\ At(t, "Start") => task[t].stops = <<>> /\ task[t].to \in MediaBox
    /\ At(t, "Held") => task[t].stops = <<>>
    /\ At(t, "Restarts") => task[t].kind = "Restart"
    /\ At(t, "Bridge") => task[t].to = "Bridge"
    /\ t \notin Requests => task[t].kind # "Restart" /\ task[t].to # "Bridge"
InStep == (\A t \in Tasks : Placed(t)) /\ left["returns"] \in {0, 1}

\* The mutex.
Mutex == \A t \in Tasks : Inside(t) \/ At(t, "Claim") => inside = {t}

\* The file.
GateHeld ==
    /\ \A t \in Tasks : Inside(t) => lock = "Daemon"
    /\ changed.pc \in {"Look", "Stop"} => lock = "Changed"

\* Whoever is inside has stopped, or has yet to stop, all that is in its way.
Ordered(t) ==
    /\ Inside(t) => \A x \in Two \ {task[t].to} : ToStop(t, x) \/ ~Holds(x)
    /\ \A x \in Two : Awaits(t, x) => unit[x] # "On"
    /\ At(t, "Held") /\ task[t].to \in MediaBox =>
          unit[task[t].to] = "On" \/ (task[t].to = "Kodi" /\ ~Holds("Kodi"))
ChangedOrdered ==
    changed.pc = "Stop" =>
        /\ changed.owner \in Two
        /\ unit[changed.owner] # "On"
        /\ \A x \in Two \ {changed.owner} : ~Holds(x)
InOrder == (\A t \in Tasks : Ordered(t)) /\ ChangedOrdered

\* A unit that is ending is waited for.
Awaited ==
    \A x \in Two : unit[x] \in {"Ending", "Stopped"} =>
        \/ \E t \in Tasks : Awaits(t, x)
        \/ changed.pc = "Stop" /\ changed.owner = x

Apart == ~(Holds("Kodi") /\ Holds("Ui"))
Gated == GateHeld /\ InOrder /\ Awaited /\ Apart

HandoverInv == HandoverTypeOK /\ InStep /\ Mutex /\ (PastTheGate \/ Gated)

\* A task with nothing to stop.
LEMMA EmptySeq == <<>> \in Seq(MediaBox)
  OBVIOUS

\* StopsFor names all that is in the way of what was asked for.
LEMMA StopsForAll ==
    ASSUME TaskTypeOK, NEW t \in Tasks
    PROVE  /\ StopsFor(t) \in Seq(MediaBox)
           /\ \A x \in Two \ {task[t].to} :
                 \E i \in 1..Len(StopsFor(t)) : StopsFor(t)[i] = x
<1>1. <<"Kodi">> \in Seq(MediaBox) /\ <<"Ui">> \in Seq(MediaBox)
  BY DEF MediaBox
<1>2. <<"Kodi", "Browser">> \in Seq(MediaBox) /\ <<"Ui", "Browser">> \in Seq(MediaBox)
  BY DEF MediaBox
<1>3. <<"Ui", "Kodi">> \in Seq(MediaBox) /\ <<"Kodi", "Ui">> \in Seq(MediaBox)
  BY DEF MediaBox
<1>4. Table \in Seq(MediaBox)
  BY DEF Table, MediaBox
<1>5. StopsFor(t) \in Seq(MediaBox)
  BY <1>1, <1>2, <1>3, <1>4 DEF StopsFor
<1>6. ASSUME NEW x \in Two \ {task[t].to}
      PROVE  \E i \in 1..Len(StopsFor(t)) : StopsFor(t)[i] = x
  <2>1. CASE task[t].to = "Ui"
    BY <2>1 DEF StopsFor, Two
  <2>2. CASE task[t].to = "Kodi"
    BY <2>2 DEF StopsFor, Two
  <2>3. CASE task[t].to = "Browser"
    BY <2>3 DEF StopsFor, Two
  <2>4. CASE task[t].to \notin MediaBox
    BY <2>4 DEF StopsFor, Two, Table, MediaBox
  <2> QED BY <2>1, <2>2, <2>3, <2>4 DEF MediaBox
<1> QED BY <1>5, <1>6

\* What is left when the first is done.
LEMMA TailKeeps ==
    ASSUME NEW s \in Seq(MediaBox), s # <<>>
    PROVE  /\ Head(s) \in MediaBox /\ Tail(s) \in Seq(MediaBox)
           /\ \A i \in 1..Len(s) : s[i] # Head(s) => \E j \in 1..Len(Tail(s)) : Tail(s)[j] = s[i]
<1>1. Tail(s) \in Seq(MediaBox) /\ Len(Tail(s)) = Len(s) - 1 /\ Len(s) \in Nat \ {0}
  OBVIOUS
<1>2. Head(s) = s[1] /\ \A j \in 1..Len(Tail(s)) : Tail(s)[j] = s[j + 1]
  OBVIOUS
<1>3. ASSUME NEW i \in 1..Len(s),
    s[i] # Head(s) PROVE \E j \in 1..Len(Tail(s)) : Tail(s)[j] = s[i]
  <2>1. i - 1 \in 1..Len(Tail(s)) /\ (i - 1) + 1 = i
    BY <1>1, <1>2, <1>3
  <2> QED BY <2>1, <1>2
<1> QED BY <1>1, <1>2, <1>3

\* A task is set to a task.
LEMMA TaskIs ==
    ASSUME TaskTypeOK, NEW t \in Tasks, NEW r \in Task, task' = [task EXCEPT ![t] = r]
    PROVE  TaskTypeOK'
  BY DEF TaskTypeOK

\* A task that goes on keeps the rest.
LEMMA TaskGoes ==
    ASSUME TaskTypeOK, NEW t \in Tasks, NEW pc \in Steps, Goes(t, pc)
    PROVE  TaskTypeOK'
<1>1. task[t] \in Task
  BY DEF TaskTypeOK
<1>2. [task[t] EXCEPT !.pc = pc] \in Task
  BY <1>1 DEF Task
<1>3. task' = [task EXCEPT ![t] = [task[t] EXCEPT !.pc = pc]]
  BY DEF Goes
<1> QED BY <1>2, <1>3, TaskIs

\* A task that has stopped one thing has one less to stop.
LEMMA TaskStopsNext ==
    ASSUME TaskTypeOK, NEW t \in Tasks, task[t].stops # <<>>, NEW pc \in Steps,
           task' = [task EXCEPT ![t] = [task[t] EXCEPT !.pc = pc, !.stops = Tail(@)]]
    PROVE  TaskTypeOK'
<1>1. task[t] \in Task
  BY DEF TaskTypeOK
<1>2. Tail(task[t].stops) \in Seq(MediaBox)
  BY <1>1, TailKeeps DEF Task
<1>3. [task[t] EXCEPT !.pc = pc, !.stops = Tail(@)] \in Task
  BY <1>1, <1>2 DEF Task
<1> QED BY <1>3, TaskIs

\* A task that is over is none.
LEMMA TaskFree ==
    ASSUME TaskTypeOK, NEW t \in Tasks, task' = [task EXCEPT ![t] = NoTask]
    PROVE  TaskTypeOK'
<1>1. NoTask \in Task
  BY EmptySeq DEF NoTask, Task, Steps
<1> QED BY <1>1, TaskIs

\* What is still to be stopped when the first is done.
LEMMA NextHas ==
    ASSUME TaskTypeOK, NEW t \in Tasks, task[t].stops # <<>>, NEW x, ToStop(t, x),
           Head(task[t].stops) # x
    PROVE  \E j \in 1..Len(Tail(task[t].stops)) : Tail(task[t].stops)[j] = x
<1>1. task[t].stops \in Seq(MediaBox)
  BY DEF TaskTypeOK, Task
<1>2. PICK i \in 1..Len(task[t].stops) : task[t].stops[i] = x
  BY DEF ToStop
<1> QED BY <1>1, <1>2, TailKeeps

----------------------------------------------------------------------------
(* Each part of the invariant, over each action.                              *)

\* systemd has a state for every unit after every step.
LEMMA UnitTypeOKStays ==
    ASSUME HandoverTypeOK, InStep, Mutex, HandoverNext
    PROVE  UnitTypeOK'
<1> USE HandoverAssumption, NoneAssumption DEF HandoverTypeOK, UnitTypeOK, TaskTypeOK,
    Task, Steps, GateTypeOK, RestTypeOK, InStep, Placed, Tasks, At, Shows, MediaBox,
    Budgets, Posting, NoTask
<1>1. ASSUME NEW t \in Tasks, Begin(t)
      PROVE  UnitTypeOK'
  BY <1>1 DEF Begin, Goes
<1>2. ASSUME NEW t \in Tasks, Claim(t)
      PROVE  UnitTypeOK'
  BY <1>2 DEF Claim, StopsFor
<1>3. ASSUME NEW t \in Tasks, Refused(t)
      PROVE  UnitTypeOK'
  BY <1>3 DEF Refused, Spend, Goes
<1>4. ASSUME NEW t \in Tasks, Stop(t)
      PROVE  UnitTypeOK'
  BY <1>4 DEF Stop, Goes
<1>5. ASSUME NEW t \in Tasks, Stopped(t)
      PROVE  UnitTypeOK'
  BY <1>5 DEF Stopped
<1>6. ASSUME NEW t \in Tasks, AllStopped(t)
      PROVE  UnitTypeOK'
  BY <1>6 DEF AllStopped, Goes
<1>7. ASSUME NEW t \in Tasks, Start(t)
      PROVE  UnitTypeOK'
  BY <1>7 DEF Start, Goes, Starts, MayStart, InTheWay, Started, MakesWay, Told
<1>8. ASSUME NEW t \in Tasks, End(t)
      PROVE  UnitTypeOK'
  BY <1>8 DEF End, Goes
<1>9. ASSUME NEW t \in Tasks, After(t)
      PROVE  UnitTypeOK'
  BY <1>9 DEF After, Goes
<1>10. ASSUME NEW t \in Tasks, StartBridge(t)
      PROVE  UnitTypeOK'
  BY <1>10 DEF StartBridge, Goes, Starts, MayStart, InTheWay, Started, MakesWay, Told
<1>11. ASSUME NEW r \in Requests, AskRestart(r)
      PROVE  UnitTypeOK'
  BY <1>11 DEF AskRestart, Spend, Told
<1>12. ASSUME NEW r \in Requests, Restarted(r)
      PROVE  UnitTypeOK'
  BY <1>12 DEF Restarted, Goes, Starts, MayStart, InTheWay, Started, MakesWay, Told
<1>13. ASSUME NEW r \in Requests, NEW kind \in {"Switch", "Launch", "Open", "Owner"},
      NEW to \in Targets(kind), Ask(r, kind, to)
      PROVE  UnitTypeOK'
  BY <1>13 DEF Ask, Spend, Targets
<1>14. ASSUME NEW x \in Shows, Gone(x)
      PROVE  UnitTypeOK'
  BY <1>14 DEF Gone
<1>15. CASE KodiEnds
  BY <1>15 DEF KodiEnds, Spend
<1>16. CASE KodiReturns
  BY <1>16 DEF KodiReturns, Spend, MayStart, InTheWay, Started, Told
<1>17. CASE Guard
  BY <1>17 DEF Guard, InTransition
<1>18. CASE Recover
  BY <1>18 DEF Recover, InTransition
<1>19. CASE Replug
  BY <1>19 DEF Replug, Spend
<1>20. CASE ChangedLocks
  BY <1>20 DEF ChangedLocks
<1>21. CASE ChangedLooks
  BY <1>21 DEF ChangedLooks, Leaves
<1>22. CASE ChangedStarts
  BY <1>22 DEF ChangedStarts, Leaves, Starts, MayStart, InTheWay, Started, MakesWay, Told
<1>23. CASE Observe
  BY <1>23 DEF Observe
<1>24. CASE Observed
  BY <1>24 DEF Observed
<1>25. CASE DaemonDies
  BY <1>25 DEF DaemonDies, Spend
<1>26. CASE DaemonStarts
  BY <1>26 DEF DaemonStarts
<1> HIDE DEF HandoverTypeOK, UnitTypeOK, TaskTypeOK, Task, Steps, GateTypeOK, RestTypeOK,
    InStep, Placed, Tasks, At, Shows, MediaBox, Budgets, Posting, NoTask
<1> QED BY <1>1, <1>2, <1>3, <1>4, <1>5, <1>6, <1>7, <1>8, <1>9, <1>10, <1>11, <1>12,
    <1>13, <1>14, <1>15, <1>16, <1>17, <1>18, <1>19, <1>20, <1>21, <1>22, <1>23, <1>24,
    <1>25, <1>26 DEF HandoverNext, Step

\* Every task is somewhere in its handover, with units of MediaBox left to stop.
LEMMA TaskTypeOKStays ==
    ASSUME HandoverTypeOK, InStep, Mutex, HandoverNext
    PROVE  TaskTypeOK'
<1> USE HandoverAssumption, NoneAssumption DEF HandoverTypeOK, TaskTypeOK, InStep, Placed,
    Tasks, At, Shows, MediaBox, Budgets, Posting, NoTask
<1>1. ASSUME NEW t \in Tasks, Begin(t)
      PROVE  TaskTypeOK'
  <2>1. task' = task \/ Goes(t, "Claim")
    BY <1>1 DEF Begin
  <2>2. CASE task' = task
    BY <2>2 DEF TaskTypeOK
  <2>3. CASE Goes(t, "Claim")
    BY <2>3, TaskGoes DEF Steps
  <2> QED BY <2>1, <2>2, <2>3
<1>2. ASSUME NEW t \in Tasks, Claim(t)
      PROVE  TaskTypeOK'
  <2>1. task[t] \in Task
    OBVIOUS
  <2>2. [task[t] EXCEPT !.pc = "Stops", !.stops = StopsFor(t)] \in Task
    BY <2>1, StopsForAll DEF Task, Steps
  <2>3. task' = [task EXCEPT ![t] = [task[t] EXCEPT !.pc = "Stops", !.stops = StopsFor(t)]]
    BY <1>2 DEF Claim
  <2> QED BY <2>2, <2>3, TaskIs
<1>3. ASSUME NEW t \in Tasks, Refused(t)
      PROVE  TaskTypeOK'
  <2>1. task' = task \/ Goes(t, "Refused") \/ task' = [task EXCEPT ![t] = NoTask]
    BY <1>3 DEF Refused
  <2>2. CASE task' = task
    BY <2>2 DEF TaskTypeOK
  <2>3. CASE Goes(t, "Refused")
    BY <2>3, TaskGoes DEF Steps
  <2>4. CASE task' = [task EXCEPT ![t] = NoTask]
    BY <2>4, TaskFree
  <2> QED BY <2>1, <2>2, <2>3, <2>4
<1>4. ASSUME NEW t \in Tasks, Stop(t)
      PROVE  TaskTypeOK'
  <2>1. task[t].stops # <<>> /\ task \in [Tasks -> Task] /\ task[t] \in Task
    BY <1>4 DEF Stop
  <2>2. CASE Goes(t, "Stopping")
    BY <2>2, TaskGoes DEF Steps
  <2>3. CASE task' = [task EXCEPT ![t].stops = Tail(@)]
    <3>1. task[t].pc = "Stops"
      BY <1>4 DEF Stop
    <3>2. [task[t] EXCEPT !.pc = "Stops",
        !.stops = Tail(@)] = [task[t] EXCEPT !.stops = Tail(@)]
      BY <2>1, <3>1 DEF Task
    <3>3. task' = [task EXCEPT ![t] = [task[t] EXCEPT !.pc = "Stops", !.stops = Tail(@)]]
      BY <2>3, <3>2
    <3> QED BY <2>1, <3>3, TaskStopsNext DEF Steps
  <2> QED BY <1>4, <2>2, <2>3 DEF Stop
<1>5. ASSUME NEW t \in Tasks, Stopped(t)
      PROVE  TaskTypeOK'
  <2>1. task[t].stops # <<>> /\ task \in [Tasks -> Task] /\ task[t] \in Task
    BY <1>5 DEF Stopped
  <2>2. task' = [task EXCEPT ![t] = [task[t] EXCEPT !.pc = "Stops", !.stops = Tail(@)]]
    BY <1>5, <2>1 DEF Stopped, Task
  <2> QED BY <2>1, <2>2, TaskStopsNext DEF Steps
<1>6. ASSUME NEW t \in Tasks, AllStopped(t)
      PROVE  TaskTypeOK'
  <2>1. task' = task \/ Goes(t, "Start") \/ Goes(t, "Held")
    BY <1>6 DEF AllStopped
  <2>2. CASE task' = task
    BY <2>2 DEF TaskTypeOK
  <2>3. CASE Goes(t, "Start")
    BY <2>3, TaskGoes DEF Steps
  <2>4. CASE Goes(t, "Held")
    BY <2>4, TaskGoes DEF Steps
  <2> QED BY <2>1, <2>2, <2>3, <2>4
<1>7. ASSUME NEW t \in Tasks, Start(t)
      PROVE  TaskTypeOK'
  <2>1. task' = task \/ Goes(t, "Held")
    BY <1>7 DEF Start
  <2>2. CASE task' = task
    BY <2>2 DEF TaskTypeOK
  <2>3. CASE Goes(t, "Held")
    BY <2>3, TaskGoes DEF Steps
  <2> QED BY <2>1, <2>2, <2>3
<1>8. ASSUME NEW t \in Tasks, End(t)
      PROVE  TaskTypeOK'
  <2>1. task' = task \/ Goes(t, "Done") \/ Goes(t, "Bridge") \/ Goes(t, "After")
    BY <1>8 DEF End
  <2>2. CASE task' = task
    BY <2>2 DEF TaskTypeOK
  <2>3. CASE Goes(t, "Done")
    BY <2>3, TaskGoes DEF Steps
  <2>4. CASE Goes(t, "Bridge")
    BY <2>4, TaskGoes DEF Steps
  <2>5. CASE Goes(t, "After")
    BY <2>5, TaskGoes DEF Steps
  <2> QED BY <2>1, <2>2, <2>3, <2>4, <2>5
<1>9. ASSUME NEW t \in Tasks, After(t)
      PROVE  TaskTypeOK'
  <2>1. task' = task \/ Goes(t, "Done") \/ task' = [task EXCEPT ![t] = NoTask]
    BY <1>9 DEF After
  <2>2. CASE task' = task
    BY <2>2 DEF TaskTypeOK
  <2>3. CASE Goes(t, "Done")
    BY <2>3, TaskGoes DEF Steps
  <2>4. CASE task' = [task EXCEPT ![t] = NoTask]
    BY <2>4, TaskFree
  <2> QED BY <2>1, <2>2, <2>3, <2>4
<1>10. ASSUME NEW t \in Tasks, StartBridge(t)
      PROVE  TaskTypeOK'
  <2>1. task' = task \/ Goes(t, "Done")
    BY <1>10 DEF StartBridge
  <2>2. CASE task' = task
    BY <2>2 DEF TaskTypeOK
  <2>3. CASE Goes(t, "Done")
    BY <2>3, TaskGoes DEF Steps
  <2> QED BY <2>1, <2>2, <2>3
<1>11. ASSUME NEW r \in Requests, AskRestart(r)
      PROVE  TaskTypeOK'
  <2>1. [NoTask EXCEPT !.kind = "Restart", !.pc = "Restarts"] \in Task
    BY EmptySeq DEF Task, Steps
  <2> QED BY <1>11, <2>1, TaskIs DEF AskRestart
<1>12. ASSUME NEW r \in Requests, Restarted(r)
      PROVE  TaskTypeOK'
  <2>1. task' = task \/ Goes(r, "Done")
    BY <1>12 DEF Restarted
  <2>2. CASE task' = task
    BY <2>2 DEF TaskTypeOK
  <2>3. CASE Goes(r, "Done")
    BY <2>3, TaskGoes DEF Steps
  <2> QED BY <2>1, <2>2, <2>3
<1>13. ASSUME NEW r \in Requests, NEW kind \in {"Switch", "Launch", "Open", "Owner"},
      NEW to \in Targets(kind), Ask(r, kind, to)
      PROVE  TaskTypeOK'
  <2>1. [kind |-> kind, to |-> to, pc |-> "Wait", stops |-> <<>>] \in Task
    BY <1>13, EmptySeq DEF Task, Targets, Steps
  <2> QED BY <1>13, <2>1, TaskIs DEF Ask
<1>14. ASSUME NEW x \in Shows, Gone(x)
      PROVE  TaskTypeOK'
  BY <1>14 DEF Gone
<1>15. CASE KodiEnds
  BY <1>15 DEF KodiEnds, Spend
<1>16. CASE KodiReturns
  BY <1>16 DEF KodiReturns, Spend, MayStart, InTheWay, Started, Told
<1>17. CASE Guard
  BY <1>17 DEF Guard, InTransition
<1>18. CASE Recover
  <2>1. [kind |-> "Switch", to |-> "Ui", pc |-> "Wait", stops |-> <<>>] \in Task
    BY EmptySeq DEF Task, Steps
  <2> QED BY <1>18, <2>1 DEF Recover
<1>19. CASE Replug
  BY <1>19 DEF Replug, Spend
<1>20. CASE ChangedLocks
  BY <1>20 DEF ChangedLocks
<1>21. CASE ChangedLooks
  BY <1>21 DEF ChangedLooks, Leaves
<1>22. CASE ChangedStarts
  BY <1>22 DEF ChangedStarts, Leaves, Starts, MayStart, InTheWay, Started, MakesWay, Told
<1>23. CASE Observe
  BY <1>23 DEF Observe
<1>24. CASE Observed
  BY <1>24 DEF Observed
<1>25. CASE DaemonDies
  <2>1. NoTask \in Task
    BY EmptySeq DEF Task, Steps
  <2>2. ASSUME NEW s \in Tasks PROVE [task[s] EXCEPT !.pc = "Refused"] \in Task
    <3>1. task[s] \in Task
      OBVIOUS
    <3> QED BY <3>1 DEF Task, Steps
  <2> HIDE DEF NoTask
  <2> QED BY <1>25, <2>1, <2>2 DEF DaemonDies
<1>26. CASE DaemonStarts
  <2>1. [kind |-> "Switch", to |-> "Ui", pc |-> "Wait", stops |-> <<>>] \in Task
    BY EmptySeq DEF Task, Steps
  <2> QED BY <1>26, <2>1 DEF DaemonStarts
<1> HIDE DEF HandoverTypeOK, TaskTypeOK, InStep, Placed, Tasks, At, Shows, MediaBox,
    Budgets, Posting, NoTask
<1> QED BY <1>1, <1>2, <1>3, <1>4, <1>5, <1>6, <1>7, <1>8, <1>9, <1>10, <1>11, <1>12,
    <1>13, <1>14, <1>15, <1>16, <1>17, <1>18, <1>19, <1>20, <1>21, <1>22, <1>23, <1>24,
    <1>25, <1>26 DEF HandoverNext, Step

\* One task at most has the mutex, and the daemon's lock is never left without one.
LEMMA GateTypeOKStays ==
    ASSUME HandoverTypeOK, InStep, Mutex, HandoverNext
    PROVE  GateTypeOK'
<1> USE HandoverAssumption, NoneAssumption DEF HandoverTypeOK, UnitTypeOK, TaskTypeOK,
    Task, Steps, GateTypeOK, RestTypeOK, Mutex, InStep, Placed, Inside, Tasks, At, Shows,
    MediaBox, Budgets, Posting, NoTask
<1>1. ASSUME NEW t \in Tasks, Begin(t)
      PROVE  GateTypeOK'
  BY <1>1 DEF Begin, Goes
<1>2. ASSUME NEW t \in Tasks, Claim(t)
      PROVE  GateTypeOK'
  <2>1. inside = {t}
    BY <1>2 DEF Claim
  <2> QED BY <1>2, <2>1 DEF Claim
<1>3. ASSUME NEW t \in Tasks, Refused(t)
      PROVE  GateTypeOK'
  BY <1>3 DEF Refused, Spend, Goes
<1>4. ASSUME NEW t \in Tasks, Stop(t)
      PROVE  GateTypeOK'
  BY <1>4 DEF Stop, Goes
<1>5. ASSUME NEW t \in Tasks, Stopped(t)
      PROVE  GateTypeOK'
  BY <1>5 DEF Stopped
<1>6. ASSUME NEW t \in Tasks, AllStopped(t)
      PROVE  GateTypeOK'
  BY <1>6 DEF AllStopped, Goes
<1>7. ASSUME NEW t \in Tasks, Start(t)
      PROVE  GateTypeOK'
  BY <1>7 DEF Start, Goes, Starts, MayStart, InTheWay, Started, MakesWay, Told
<1>8. ASSUME NEW t \in Tasks, End(t)
      PROVE  GateTypeOK'
  BY <1>8 DEF End, Goes
<1>9. ASSUME NEW t \in Tasks, After(t)
      PROVE  GateTypeOK'
  BY <1>9 DEF After, Goes
<1>10. ASSUME NEW t \in Tasks, StartBridge(t)
      PROVE  GateTypeOK'
  BY <1>10 DEF StartBridge, Goes, Starts, MayStart, InTheWay, Started, MakesWay, Told
<1>11. ASSUME NEW r \in Requests, AskRestart(r)
      PROVE  GateTypeOK'
  BY <1>11 DEF AskRestart, Spend, Told
<1>12. ASSUME NEW r \in Requests, Restarted(r)
      PROVE  GateTypeOK'
  BY <1>12 DEF Restarted, Goes, Starts, MayStart, InTheWay, Started, MakesWay, Told
<1>13. ASSUME NEW r \in Requests, NEW kind \in {"Switch", "Launch", "Open", "Owner"},
      NEW to \in Targets(kind), Ask(r, kind, to)
      PROVE  GateTypeOK'
  BY <1>13 DEF Ask, Spend, Targets
<1>14. ASSUME NEW x \in Shows, Gone(x)
      PROVE  GateTypeOK'
  BY <1>14 DEF Gone
<1>15. CASE KodiEnds
  BY <1>15 DEF KodiEnds, Spend
<1>16. CASE KodiReturns
  BY <1>16 DEF KodiReturns, Spend, MayStart, InTheWay, Started, Told
<1>17. CASE Guard
  BY <1>17 DEF Guard, InTransition
<1>18. CASE Recover
  BY <1>18 DEF Recover, InTransition
<1>19. CASE Replug
  BY <1>19 DEF Replug, Spend
<1>20. CASE ChangedLocks
  BY <1>20 DEF ChangedLocks
<1>21. CASE ChangedLooks
  BY <1>21 DEF ChangedLooks, Leaves
<1>22. CASE ChangedStarts
  BY <1>22 DEF ChangedStarts, Leaves, Starts, MayStart, InTheWay, Started, MakesWay, Told
<1>23. CASE Observe
  BY <1>23 DEF Observe
<1>24. CASE Observed
  BY <1>24 DEF Observed
<1>25. CASE DaemonDies
  BY <1>25 DEF DaemonDies, Spend
<1>26. CASE DaemonStarts
  BY <1>26 DEF DaemonStarts
<1> HIDE DEF HandoverTypeOK, UnitTypeOK, TaskTypeOK, Task, Steps, GateTypeOK, RestTypeOK,
    Mutex, InStep, Placed, Inside, Tasks, At, Shows, MediaBox, Budgets, Posting, NoTask
<1> QED BY <1>1, <1>2, <1>3, <1>4, <1>5, <1>6, <1>7, <1>8, <1>9, <1>10, <1>11, <1>12,
    <1>13, <1>14, <1>15, <1>16, <1>17, <1>18, <1>19, <1>20, <1>21, <1>22, <1>23, <1>24,
    <1>25, <1>26 DEF HandoverNext, Step

\* The scripts, the record, the input's mode and the budgets.
LEMMA RestTypeOKStays ==
    ASSUME HandoverTypeOK, InStep, Mutex, HandoverNext
    PROVE  RestTypeOK'
<1> USE HandoverAssumption, NoneAssumption DEF HandoverTypeOK, UnitTypeOK, TaskTypeOK,
    Task, Steps, GateTypeOK, RestTypeOK, InStep, Placed, Tasks, At, Shows, MediaBox,
    Budgets, Posting, NoTask
<1>1. ASSUME NEW t \in Tasks, Begin(t)
      PROVE  RestTypeOK'
  BY <1>1 DEF Begin, Goes
<1>2. ASSUME NEW t \in Tasks, Claim(t)
      PROVE  RestTypeOK'
  BY <1>2 DEF Claim, StopsFor
<1>3. ASSUME NEW t \in Tasks, Refused(t)
      PROVE  RestTypeOK'
  BY <1>3 DEF Refused, Spend, Goes
<1>4. ASSUME NEW t \in Tasks, Stop(t)
      PROVE  RestTypeOK'
  BY <1>4 DEF Stop, Goes
<1>5. ASSUME NEW t \in Tasks, Stopped(t)
      PROVE  RestTypeOK'
  BY <1>5 DEF Stopped
<1>6. ASSUME NEW t \in Tasks, AllStopped(t)
      PROVE  RestTypeOK'
  BY <1>6 DEF AllStopped, Goes
<1>7. ASSUME NEW t \in Tasks, Start(t)
      PROVE  RestTypeOK'
  BY <1>7 DEF Start, Goes, Starts, MayStart, InTheWay, Started, MakesWay, Told
<1>8. ASSUME NEW t \in Tasks, End(t)
      PROVE  RestTypeOK'
  BY <1>8 DEF End, Goes
<1>9. ASSUME NEW t \in Tasks, After(t)
      PROVE  RestTypeOK'
  BY <1>9 DEF After, Goes
<1>10. ASSUME NEW t \in Tasks, StartBridge(t)
      PROVE  RestTypeOK'
  BY <1>10 DEF StartBridge, Goes, Starts, MayStart, InTheWay, Started, MakesWay, Told
<1>11. ASSUME NEW r \in Requests, AskRestart(r)
      PROVE  RestTypeOK'
  BY <1>11 DEF AskRestart, Spend, Told
<1>12. ASSUME NEW r \in Requests, Restarted(r)
      PROVE  RestTypeOK'
  BY <1>12 DEF Restarted, Goes, Starts, MayStart, InTheWay, Started, MakesWay, Told
<1>13. ASSUME NEW r \in Requests, NEW kind \in {"Switch", "Launch", "Open", "Owner"},
      NEW to \in Targets(kind), Ask(r, kind, to)
      PROVE  RestTypeOK'
  BY <1>13 DEF Ask, Spend, Targets
<1>14. ASSUME NEW x \in Shows, Gone(x)
      PROVE  RestTypeOK'
  BY <1>14 DEF Gone
<1>15. CASE KodiEnds
  BY <1>15 DEF KodiEnds, Spend
<1>16. CASE KodiReturns
  BY <1>16 DEF KodiReturns, Spend, MayStart, InTheWay, Started, Told
<1>17. CASE Guard
  BY <1>17 DEF Guard, InTransition
<1>18. CASE Recover
  BY <1>18 DEF Recover, InTransition
<1>19. CASE Replug
  BY <1>19 DEF Replug, Spend
<1>20. CASE ChangedLocks
  BY <1>20 DEF ChangedLocks
<1>21. CASE ChangedLooks
  BY <1>21 DEF ChangedLooks, Leaves
<1>22. CASE ChangedStarts
  BY <1>22 DEF ChangedStarts, Leaves, Starts, MayStart, InTheWay, Started, MakesWay, Told
<1>23. CASE Observe
  BY <1>23 DEF Observe
<1>24. CASE Observed
  BY <1>24 DEF Observed
<1>25. CASE DaemonDies
  BY <1>25 DEF DaemonDies, Spend
<1>26. CASE DaemonStarts
  BY <1>26 DEF DaemonStarts
<1> HIDE DEF HandoverTypeOK, UnitTypeOK, TaskTypeOK, Task, Steps, GateTypeOK, RestTypeOK,
    InStep, Placed, Tasks, At, Shows, MediaBox, Budgets, Posting, NoTask
<1> QED BY <1>1, <1>2, <1>3, <1>4, <1>5, <1>6, <1>7, <1>8, <1>9, <1>10, <1>11, <1>12,
    <1>13, <1>14, <1>15, <1>16, <1>17, <1>18, <1>19, <1>20, <1>21, <1>22, <1>23, <1>24,
    <1>25, <1>26 DEF HandoverNext, Step

\* A task's place and the units it has left to stop agree after every step.
LEMMA InStepStays ==
    ASSUME HandoverTypeOK, InStep, Mutex, HandoverNext
    PROVE  InStep'
<1> USE HandoverAssumption, NoneAssumption DEF HandoverTypeOK, UnitTypeOK, TaskTypeOK,
    Task, Steps, GateTypeOK, RestTypeOK, InStep, Placed, Tasks, At, Shows, MediaBox,
    Budgets, Posting, NoTask
<1>1. ASSUME NEW t \in Tasks, Begin(t)
      PROVE  InStep'
  BY <1>1 DEF Begin, Goes
<1>2. ASSUME NEW t \in Tasks, Claim(t)
      PROVE  InStep'
  <2>1. At(t, "Claim") /\ left' = left
    BY <1>2 DEF Claim
  <2>2. task'[t].pc = "Stops" /\ task'[t].kind = task[t].kind /\ task'[t].to = task[t].to
    BY <1>2 DEF Claim
  <2>3. \A s \in Tasks \ {t} : task'[s] = task[s]
    BY <1>2 DEF Claim
  <2>4. Placed(t)'
    BY <2>1, <2>2
  <2>5. ASSUME NEW s \in Tasks \ {t} PROVE Placed(s)'
    BY <2>3
  <2> QED BY <2>1, <2>4, <2>5
<1>3. ASSUME NEW t \in Tasks, Refused(t)
      PROVE  InStep'
  <2>1. left'["returns"] = left["returns"]
    BY <1>3 DEF Refused, Spend
  <2>2. CASE task' = task
    BY <2>1, <2>2
  <2>3. CASE Goes(t, "Refused")
    BY <2>1, <2>3 DEF Goes
  <2>4. CASE task' = [task EXCEPT ![t] = NoTask]
    BY <2>1, <2>4
  <2> QED BY <1>3, <2>2, <2>3, <2>4 DEF Refused
<1>4. ASSUME NEW t \in Tasks, Stop(t)
      PROVE  InStep'
  <2>1. At(t, "Stops") /\ task[t].stops # <<>> /\ left' = left
    BY <1>4 DEF Stop
  <2>2. CASE task' = task
    BY <2>1, <2>2
  <2>3. CASE Goes(t, "Stopping")
    BY <2>1, <2>3 DEF Goes
  <2>4. CASE task' = [task EXCEPT ![t].stops = Tail(@)]
    BY <2>1, <2>4
  <2> QED BY <1>4, <2>2, <2>3, <2>4 DEF Stop
<1>5. ASSUME NEW t \in Tasks, Stopped(t)
      PROVE  InStep'
  BY <1>5 DEF Stopped
<1>6. ASSUME NEW t \in Tasks, AllStopped(t)
      PROVE  InStep'
  BY <1>6 DEF AllStopped, Goes
<1>7. ASSUME NEW t \in Tasks, Start(t)
      PROVE  InStep'
  <2>1. At(t, "Start") /\ left' = left
    BY <1>7 DEF Start
  <2>2. CASE task' = task
    BY <2>1, <2>2
  <2>3. CASE Goes(t, "Held")
    BY <2>1, <2>3 DEF Goes
  <2> QED BY <1>7, <2>2, <2>3 DEF Start
<1>8. ASSUME NEW t \in Tasks, End(t)
      PROVE  InStep'
  BY <1>8 DEF End, Goes
<1>9. ASSUME NEW t \in Tasks, After(t)
      PROVE  InStep'
  <2>1. left' = left
    BY <1>9 DEF After
  <2>2. CASE task' = task
    BY <2>1, <2>2
  <2>3. CASE Goes(t, "Done")
    BY <2>1, <2>3 DEF Goes
  <2>4. CASE task' = [task EXCEPT ![t] = NoTask]
    BY <2>1, <2>4
  <2> QED BY <1>9, <2>2, <2>3, <2>4 DEF After
<1>10. ASSUME NEW t \in Tasks, StartBridge(t)
      PROVE  InStep'
  <2>1. At(t, "Bridge") /\ left' = left
    BY <1>10 DEF StartBridge
  <2>2. CASE task' = task
    BY <2>1, <2>2
  <2>3. CASE Goes(t, "Done")
    BY <2>1, <2>3 DEF Goes
  <2> QED BY <1>10, <2>2, <2>3 DEF StartBridge
<1>11. ASSUME NEW r \in Requests, AskRestart(r)
      PROVE  InStep'
  BY <1>11 DEF AskRestart, Spend, Told
<1>12. ASSUME NEW r \in Requests, Restarted(r)
      PROVE  InStep'
  <2>1. At(r, "Restarts") /\ left' = left
    BY <1>12 DEF Restarted
  <2>2. CASE task' = task
    BY <2>1, <2>2
  <2>3. CASE Goes(r, "Done")
    BY <2>1, <2>3 DEF Goes
  <2> QED BY <1>12, <2>2, <2>3 DEF Restarted
<1>13. ASSUME NEW r \in Requests, NEW kind \in {"Switch", "Launch", "Open", "Owner"},
      NEW to \in Targets(kind), Ask(r, kind, to)
      PROVE  InStep'
  BY <1>13 DEF Ask, Spend, Targets
<1>14. ASSUME NEW x \in Shows, Gone(x)
      PROVE  InStep'
  BY <1>14 DEF Gone
<1>15. CASE KodiEnds
  BY <1>15 DEF KodiEnds, Spend
<1>16. CASE KodiReturns
  BY <1>16 DEF KodiReturns, Spend, MayStart, InTheWay, Started, Told
<1>17. CASE Guard
  BY <1>17 DEF Guard, InTransition
<1>18. CASE Recover
  BY <1>18 DEF Recover, InTransition
<1>19. CASE Replug
  BY <1>19 DEF Replug, Spend
<1>20. CASE ChangedLocks
  BY <1>20 DEF ChangedLocks
<1>21. CASE ChangedLooks
  BY <1>21 DEF ChangedLooks, Leaves
<1>22. CASE ChangedStarts
  BY <1>22 DEF ChangedStarts, Leaves, Starts, MayStart, InTheWay, Started, MakesWay, Told
<1>23. CASE Observe
  BY <1>23 DEF Observe
<1>24. CASE Observed
  BY <1>24 DEF Observed
<1>25. CASE DaemonDies
  BY <1>25 DEF DaemonDies, Spend
<1>26. CASE DaemonStarts
  BY <1>26 DEF DaemonStarts
<1> HIDE DEF HandoverTypeOK, UnitTypeOK, TaskTypeOK, Task, Steps, GateTypeOK, RestTypeOK,
    InStep, Placed, Tasks, At, Shows, MediaBox, Budgets, Posting, NoTask
<1> QED BY <1>1, <1>2, <1>3, <1>4, <1>5, <1>6, <1>7, <1>8, <1>9, <1>10, <1>11, <1>12,
    <1>13, <1>14, <1>15, <1>16, <1>17, <1>18, <1>19, <1>20, <1>21, <1>22, <1>23, <1>24,
    <1>25, <1>26 DEF HandoverNext, Step

\* The mutex: a task inside is the one that took it, until End, Refused or the
\* daemon's death gives it back.
LEMMA MutexStays ==
    ASSUME HandoverTypeOK, InStep, Mutex, HandoverNext
    PROVE  Mutex'
<1> USE HandoverAssumption, NoneAssumption DEF HandoverTypeOK, UnitTypeOK, TaskTypeOK,
    Task, Steps, GateTypeOK, RestTypeOK, Mutex, InStep, Placed, Inside, Tasks, At, Shows,
    MediaBox, Budgets, Posting, NoTask
<1>1. ASSUME NEW t \in Tasks, Begin(t)
      PROVE  Mutex'
  BY <1>1 DEF Begin, Goes
<1>2. ASSUME NEW t \in Tasks, Claim(t)
      PROVE  Mutex'
  BY <1>2 DEF Claim, StopsFor
<1>3. ASSUME NEW t \in Tasks, Refused(t)
      PROVE  Mutex'
  <2>1. inside = {t} /\ inside' = {}
    BY <1>3 DEF Refused
  <2>2. \A s \in Tasks : s # t => ~Inside(s) /\ ~At(s, "Claim")
    <3>1. SUFFICES ASSUME NEW s \in Tasks, s # t, Inside(s) \/ At(s, "Claim") PROVE FALSE
      OBVIOUS
    <3>2. inside = {s}
      BY <3>1
    <3>3. s \in {t}
      BY <2>1, <3>2, Zenon
    <3> QED BY <3>1, <3>3
  <2>3. CASE Goes(t, "Refused")
    BY <2>1, <2>2, <2>3 DEF Goes
  <2>4. CASE task' = [task EXCEPT ![t] = NoTask]
    BY <2>1, <2>2, <2>4
  <2> QED BY <1>3, <2>3, <2>4 DEF Refused
<1>4. ASSUME NEW t \in Tasks, Stop(t)
      PROVE  Mutex'
  BY <1>4 DEF Stop, Goes
<1>5. ASSUME NEW t \in Tasks, Stopped(t)
      PROVE  Mutex'
  BY <1>5 DEF Stopped
<1>6. ASSUME NEW t \in Tasks, AllStopped(t)
      PROVE  Mutex'
  BY <1>6 DEF AllStopped, Goes
<1>7. ASSUME NEW t \in Tasks, Start(t)
      PROVE  Mutex'
  BY <1>7 DEF Start, Goes, Starts, MayStart, InTheWay, Started, MakesWay, Told
<1>8. ASSUME NEW t \in Tasks, End(t)
      PROVE  Mutex'
  <2>1. inside = {t} /\ inside' = {}
    BY <1>8 DEF End
  <2>2. \A s \in Tasks : s # t => ~Inside(s) /\ ~At(s, "Claim")
    <3>1. SUFFICES ASSUME NEW s \in Tasks, s # t, Inside(s) \/ At(s, "Claim") PROVE FALSE
      OBVIOUS
    <3>2. inside = {s}
      BY <3>1
    <3>3. s \in {t}
      BY <2>1, <3>2, Zenon
    <3> QED BY <3>1, <3>3
  <2>3. CASE Goes(t, "Done")
    BY <2>1, <2>2, <2>3 DEF Goes
  <2>4. CASE Goes(t, "Bridge")
    BY <2>1, <2>2, <2>4 DEF Goes
  <2>5. CASE Goes(t, "After")
    BY <2>1, <2>2, <2>5 DEF Goes
  <2> QED BY <1>8, <2>3, <2>4, <2>5 DEF End
<1>9. ASSUME NEW t \in Tasks, After(t)
      PROVE  Mutex'
  <2>1. At(t, "After") /\ inside' = inside
    BY <1>9 DEF After
  <2>2. CASE task' = task
    BY <2>1, <2>2
  <2>3. CASE Goes(t, "Done")
    BY <2>1, <2>3 DEF Goes
  <2>4. CASE task' = [task EXCEPT ![t] = NoTask]
    BY <2>1, <2>4
  <2> QED BY <1>9, <2>2, <2>3, <2>4 DEF After
<1>10. ASSUME NEW t \in Tasks, StartBridge(t)
      PROVE  Mutex'
  <2>1. At(t, "Bridge") /\ inside' = inside
    BY <1>10 DEF StartBridge
  <2>2. CASE task' = task
    BY <2>1, <2>2
  <2>3. CASE Goes(t, "Done")
    BY <2>1, <2>3 DEF Goes
  <2> QED BY <1>10, <2>2, <2>3 DEF StartBridge
<1>11. ASSUME NEW r \in Requests, AskRestart(r)
      PROVE  Mutex'
  BY <1>11 DEF AskRestart, Spend, Told
<1>12. ASSUME NEW r \in Requests, Restarted(r)
      PROVE  Mutex'
  <2>1. At(r, "Restarts") /\ inside' = inside
    BY <1>12 DEF Restarted
  <2>2. CASE task' = task
    BY <2>1, <2>2
  <2>3. CASE Goes(r, "Done")
    BY <2>1, <2>3 DEF Goes
  <2> QED BY <1>12, <2>2, <2>3 DEF Restarted
<1>13. ASSUME NEW r \in Requests, NEW kind \in {"Switch", "Launch", "Open", "Owner"},
      NEW to \in Targets(kind), Ask(r, kind, to)
      PROVE  Mutex'
  BY <1>13 DEF Ask, Spend, Targets
<1>14. ASSUME NEW x \in Shows, Gone(x)
      PROVE  Mutex'
  BY <1>14 DEF Gone
<1>15. CASE KodiEnds
  BY <1>15 DEF KodiEnds, Spend
<1>16. CASE KodiReturns
  BY <1>16 DEF KodiReturns, Spend, MayStart, InTheWay, Started, Told
<1>17. CASE Guard
  BY <1>17 DEF Guard, InTransition
<1>18. CASE Recover
  BY <1>18 DEF Recover, InTransition
<1>19. CASE Replug
  BY <1>19 DEF Replug, Spend
<1>20. CASE ChangedLocks
  BY <1>20 DEF ChangedLocks
<1>21. CASE ChangedLooks
  BY <1>21 DEF ChangedLooks, Leaves
<1>22. CASE ChangedStarts
  BY <1>22 DEF ChangedStarts, Leaves, Starts, MayStart, InTheWay, Started, MakesWay, Told
<1>23. CASE Observe
  BY <1>23 DEF Observe
<1>24. CASE Observed
  BY <1>24 DEF Observed
<1>25. CASE DaemonDies
  BY <1>25 DEF DaemonDies, Spend
<1>26. CASE DaemonStarts
  BY <1>26 DEF DaemonStarts
<1> HIDE DEF HandoverTypeOK, UnitTypeOK, TaskTypeOK, Task, Steps, GateTypeOK, RestTypeOK,
    Mutex, InStep, Placed, Inside, Tasks, At, Shows, MediaBox, Budgets, Posting, NoTask
<1> QED BY <1>1, <1>2, <1>3, <1>4, <1>5, <1>6, <1>7, <1>8, <1>9, <1>10, <1>11, <1>12,
    <1>13, <1>14, <1>15, <1>16, <1>17, <1>18, <1>19, <1>20, <1>21, <1>22, <1>23, <1>24,
    <1>25, <1>26 DEF HandoverNext, Step

\* Once something has changed hands without the gate, that is remembered.
LEMMA PastStays ==
    ASSUME HandoverTypeOK, InStep, Mutex, PastTheGate, HandoverNext
    PROVE  PastTheGate'
<1> USE HandoverAssumption, NoneAssumption DEF HandoverTypeOK, UnitTypeOK, TaskTypeOK,
    Task, Steps, GateTypeOK, RestTypeOK, InStep, Placed, PastTheGate, Tasks, At, Shows,
    MediaBox, Budgets, Posting, NoTask
<1>1. ASSUME NEW t \in Tasks, Begin(t)
      PROVE  PastTheGate'
  BY <1>1 DEF Begin, Goes
<1>2. ASSUME NEW t \in Tasks, Claim(t)
      PROVE  PastTheGate'
  BY <1>2 DEF Claim, StopsFor
<1>3. ASSUME NEW t \in Tasks, Refused(t)
      PROVE  PastTheGate'
  <2>1. left'["returns"] = left["returns"] /\ up' = up
    BY <1>3 DEF Refused, Spend
  <2>2. \A r \in Requests : task'[r].kind = task[r].kind /\ task'[r].to = task[r].to
    <3>1. CASE t \in Requests
      BY <1>3, <3>1 DEF Refused, Goes
    <3>2. CASE t \notin Requests
      BY <1>3, <3>2 DEF Refused
    <3> QED BY <3>1, <3>2
  <2> QED BY <2>1, <2>2
<1>4. ASSUME NEW t \in Tasks, Stop(t)
      PROVE  PastTheGate'
  BY <1>4 DEF Stop, Goes
<1>5. ASSUME NEW t \in Tasks, Stopped(t)
      PROVE  PastTheGate'
  BY <1>5 DEF Stopped
<1>6. ASSUME NEW t \in Tasks, AllStopped(t)
      PROVE  PastTheGate'
  BY <1>6 DEF AllStopped, Goes
<1>7. ASSUME NEW t \in Tasks, Start(t)
      PROVE  PastTheGate'
  BY <1>7 DEF Start, Goes, Starts, MayStart, InTheWay, Started, MakesWay, Told
<1>8. ASSUME NEW t \in Tasks, End(t)
      PROVE  PastTheGate'
  BY <1>8 DEF End, Goes
<1>9. ASSUME NEW t \in Tasks, After(t)
      PROVE  PastTheGate'
  BY <1>9 DEF After, Goes
<1>10. ASSUME NEW t \in Tasks, StartBridge(t)
      PROVE  PastTheGate'
  BY <1>10 DEF StartBridge, Goes, Starts, MayStart, InTheWay, Started, MakesWay, Told
<1>11. ASSUME NEW r \in Requests, AskRestart(r)
      PROVE  PastTheGate'
  BY <1>11 DEF AskRestart, Spend, Told
<1>12. ASSUME NEW r \in Requests, Restarted(r)
      PROVE  PastTheGate'
  BY <1>12 DEF Restarted, Goes, Starts, MayStart, InTheWay, Started, MakesWay, Told
<1>13. ASSUME NEW r \in Requests, NEW kind \in {"Switch", "Launch", "Open", "Owner"},
      NEW to \in Targets(kind), Ask(r, kind, to)
      PROVE  PastTheGate'
  BY <1>13 DEF Ask, Spend, Targets
<1>14. ASSUME NEW x \in Shows, Gone(x)
      PROVE  PastTheGate'
  BY <1>14 DEF Gone
<1>15. CASE KodiEnds
  BY <1>15 DEF KodiEnds, Spend
<1>16. CASE KodiReturns
  BY <1>16 DEF KodiReturns, Spend, MayStart, InTheWay, Started, Told
<1>17. CASE Guard
  BY <1>17 DEF Guard, InTransition
<1>18. CASE Recover
  BY <1>18 DEF Recover, InTransition
<1>19. CASE Replug
  BY <1>19 DEF Replug, Spend
<1>20. CASE ChangedLocks
  BY <1>20 DEF ChangedLocks
<1>21. CASE ChangedLooks
  BY <1>21 DEF ChangedLooks, Leaves
<1>22. CASE ChangedStarts
  BY <1>22 DEF ChangedStarts, Leaves, Starts, MayStart, InTheWay, Started, MakesWay, Told
<1>23. CASE Observe
  BY <1>23 DEF Observe
<1>24. CASE Observed
  BY <1>24 DEF Observed
<1>25. CASE DaemonDies
  BY <1>25 DEF DaemonDies, Spend
<1>26. CASE DaemonStarts
  BY <1>26 DEF DaemonStarts
<1> HIDE DEF HandoverTypeOK, UnitTypeOK, TaskTypeOK, Task, Steps, GateTypeOK, RestTypeOK,
    InStep, Placed, PastTheGate, Tasks, At, Shows, MediaBox, Budgets, Posting, NoTask
<1> QED BY <1>1, <1>2, <1>3, <1>4, <1>5, <1>6, <1>7, <1>8, <1>9, <1>10, <1>11, <1>12,
    <1>13, <1>14, <1>15, <1>16, <1>17, <1>18, <1>19, <1>20, <1>21, <1>22, <1>23, <1>24,
    <1>25, <1>26 DEF HandoverNext, Step

\* The file: whoever is inside holds it, and nobody takes it from under them.
LEMMA GateHeldStays ==
    ASSUME HandoverTypeOK, InStep, Mutex, Gated, ~PastTheGate, ~PastTheGate', HandoverNext
    PROVE  GateHeld'
<1> USE HandoverAssumption, NoneAssumption DEF HandoverTypeOK, UnitTypeOK, TaskTypeOK,
    Task, Steps, GateTypeOK, RestTypeOK, InStep, Placed, Mutex, Gated, PastTheGate,
    GateHeld, InOrder, Ordered, ChangedOrdered, Awaited, Apart, Holds, Inside, ToStop,
    Awaits, Two, Tasks, At, Shows, MediaBox, Budgets, Posting, NoTask
<1>1. ASSUME NEW t \in Tasks, Begin(t)
      PROVE  GateHeld'
  BY <1>1 DEF Begin, Goes
<1>2. ASSUME NEW t \in Tasks, Claim(t)
      PROVE  GateHeld'
  BY <1>2 DEF Claim, StopsFor
<1>3. ASSUME NEW t \in Tasks, Refused(t)
      PROVE  GateHeld'
  BY <1>3 DEF Refused, Spend, Goes
<1>4. ASSUME NEW t \in Tasks, Stop(t)
      PROVE  GateHeld'
  BY <1>4 DEF Stop, Goes
<1>5. ASSUME NEW t \in Tasks, Stopped(t)
      PROVE  GateHeld'
  BY <1>5 DEF Stopped
<1>6. ASSUME NEW t \in Tasks, AllStopped(t)
      PROVE  GateHeld'
  BY <1>6 DEF AllStopped, Goes
<1>7. ASSUME NEW t \in Tasks, Start(t)
      PROVE  GateHeld'
  BY <1>7 DEF Start, Goes, Starts, MayStart, InTheWay, Started, MakesWay, Told
<1>8. ASSUME NEW t \in Tasks, End(t)
      PROVE  GateHeld'
  BY <1>8 DEF End, Goes
<1>9. ASSUME NEW t \in Tasks, After(t)
      PROVE  GateHeld'
  <2>1. changed' = changed /\ lock' = lock
    BY <1>9 DEF After
  <2>2. CASE task' = task
    BY <2>1, <2>2
  <2>3. CASE Goes(t, "Done")
    BY <2>1, <2>3 DEF Goes
  <2>4. CASE task' = [task EXCEPT ![t] = NoTask]
    BY <2>1, <2>4
  <2> QED BY <1>9, <2>2, <2>3, <2>4 DEF After
<1>10. ASSUME NEW t \in Tasks, StartBridge(t)
      PROVE  GateHeld'
  BY <1>10 DEF StartBridge, Goes, Starts, MayStart, InTheWay, Started, MakesWay, Told
<1>11. ASSUME NEW r \in Requests, AskRestart(r)
      PROVE  GateHeld'
  BY <1>11 DEF AskRestart, Spend, Told
<1>12. ASSUME NEW r \in Requests, Restarted(r)
      PROVE  GateHeld'
  BY <1>12 DEF Restarted, Goes, Starts, MayStart, InTheWay, Started, MakesWay, Told
<1>13. ASSUME NEW r \in Requests, NEW kind \in {"Switch", "Launch", "Open", "Owner"},
      NEW to \in Targets(kind), Ask(r, kind, to)
      PROVE  GateHeld'
  BY <1>13 DEF Ask, Spend, Targets
<1>14. ASSUME NEW x \in Shows, Gone(x)
      PROVE  GateHeld'
  BY <1>14 DEF Gone
<1>15. CASE KodiEnds
  BY <1>15 DEF KodiEnds, Spend
<1>16. CASE KodiReturns
  BY <1>16 DEF KodiReturns, Spend, MayStart, InTheWay, Started, Told
<1>17. CASE Guard
  BY <1>17 DEF Guard, InTransition
<1>18. CASE Recover
  <2>1. changed' = changed /\ lock' = lock
    BY <1>18 DEF Recover
  <2>2. CASE task' = task
    BY <2>1, <2>2
  <2>3. CASE task' = [task EXCEPT !["Recovery"] =
                        [kind |-> "Switch", to |-> "Ui", pc |-> "Wait", stops |-> <<>>]]
    BY <2>1, <2>3
  <2> QED BY <1>18, <2>2, <2>3 DEF Recover
<1>19. CASE Replug
  BY <1>19 DEF Replug, Spend
<1>20. CASE ChangedLocks
  BY <1>20 DEF ChangedLocks
<1>21. CASE ChangedLooks
  BY <1>21 DEF ChangedLooks, Leaves
<1>22. CASE ChangedStarts
  BY <1>22 DEF ChangedStarts, Leaves, Starts, MayStart, InTheWay, Started, MakesWay, Told
<1>23. CASE Observe
  BY <1>23 DEF Observe
<1>24. CASE Observed
  BY <1>24 DEF Observed
<1>25. CASE DaemonDies
  BY <1>25 DEF DaemonDies, Spend
<1>26. CASE DaemonStarts
  BY <1>26 DEF DaemonStarts
<1> HIDE DEF HandoverTypeOK, UnitTypeOK, TaskTypeOK, Task, Steps, GateTypeOK, RestTypeOK,
    InStep, Placed, Mutex, Gated, PastTheGate, GateHeld, InOrder, Ordered, ChangedOrdered,
    Awaited, Apart, Holds, Inside, ToStop, Awaits, Two, Tasks, At, Shows, MediaBox,
    Budgets, Posting, NoTask
<1> QED BY <1>1, <1>2, <1>3, <1>4, <1>5, <1>6, <1>7, <1>8, <1>9, <1>10, <1>11, <1>12,
    <1>13, <1>14, <1>15, <1>16, <1>17, <1>18, <1>19, <1>20, <1>21, <1>22, <1>23, <1>24,
    <1>25, <1>26 DEF HandoverNext, Step

\* Claim begins with all there is to stop, Stop and Stopped take one thing off
\* that does not hold the display any more, and nobody else starts anything.
LEMMA InOrderStays ==
    ASSUME HandoverTypeOK, InStep, Mutex, Gated, ~PastTheGate, ~PastTheGate', HandoverNext
    PROVE  InOrder'
<1> USE HandoverAssumption, NoneAssumption DEF HandoverTypeOK, UnitTypeOK, TaskTypeOK,
    Task, Steps, GateTypeOK, RestTypeOK, InStep, Placed, Mutex, Gated, PastTheGate,
    GateHeld, InOrder, Ordered, ChangedOrdered, Awaited, Apart, Holds, Inside, ToStop,
    Awaits, Two, Tasks, At, Shows, MediaBox, Budgets, Posting, NoTask
<1>1. ASSUME NEW t \in Tasks, Begin(t)
      PROVE  InOrder'
  BY <1>1, SMTT(60) DEF Begin, Goes
<1>2. ASSUME NEW t \in Tasks, Claim(t)
      PROVE  InOrder'
  <2>1. At(t, "Claim") /\ inside = {t} /\ lock = None /\ UNCHANGED <<unit, changed>>
    BY <1>2 DEF Claim
  <2>2. /\ task'[t].to = task[t].to /\ task'[t].pc = "Stops" /\ task'[t].stops = StopsFor(t)
        /\ \A s \in Tasks \ {t} : task'[s] = task[s]
    BY <1>2 DEF Claim
  <2>3. ASSUME NEW x \in Two \ {task[t].to} PROVE ToStop(t, x)'
    <3>1. PICK i \in 1..Len(StopsFor(t)) : StopsFor(t)[i] = x
      <4>1. TaskTypeOK
        OBVIOUS
      <4> HIDE DEF TaskTypeOK, Task, Two, MediaBox, Ordered, Placed, ChangedOrdered
      <4> QED BY <4>1, StopsForAll
    <3> QED BY <2>2, <3>1
  <2>4. Ordered(t)'
    BY <2>1, <2>2, <2>3
  <2>5. ASSUME NEW s \in Tasks \ {t} PROVE Ordered(s)'
    BY <2>1, <2>2
  <2>8. ChangedOrdered'
    BY <2>1
  <2> HIDE DEF Ordered, ChangedOrdered
  <2> QED BY <2>8, <2>4, <2>5
<1>3. ASSUME NEW t \in Tasks, Refused(t)
      PROVE  InOrder'
  BY <1>3, SMTT(60) DEF Refused, Spend, Goes
<1>4. ASSUME NEW t \in Tasks, Stop(t)
      PROVE  InOrder'
  <2>0. task[t].stops \in Seq(MediaBox) /\ task[t].stops # <<>>
    BY <1>4 DEF Stop, Stopped
  <2>1. At(t, "Stops") /\ task[t].stops # <<>> /\ changed' = changed /\ changed.pc # "Stop"
    BY <1>4, NoneAssumption DEF Stop
  <2>2. ASSUME NEW s \in Tasks \ {t} PROVE ~Inside(s) /\ ~At(s, "Stopping")
    BY <2>1
  <2>3. \A s \in Tasks \ {t} : task'[s] = task[s]
    BY <1>4 DEF Stop, Goes
  <2>4. ASSUME NEW s \in Tasks \ {t} PROVE Ordered(s)'
    BY <2>2, <2>3
  <2>5. ASSUME Goes(t, "Stopping"), unit' = [unit EXCEPT ![Head(task[t].stops)] = "Ending"]
      PROVE  Ordered(t)'
    <3>1. /\ task'[t].pc = "Stopping" /\ task'[t].stops = task[t].stops /\ task'[t].to = task[t].to
      BY <2>5 DEF Goes
    <3>2. Head(task[t].stops) \in MediaBox
      BY <2>0, TailKeeps
    <3>3. unit'[Head(task[t].stops)] = "Ending"
          /\ \A x \in Shows \ {Head(task[t].stops)} : unit'[x] = unit[x]
      BY <2>5, <3>2
    <3>4. ASSUME NEW x \in Two \ {task[t].to} PROVE ToStop(t, x)' \/ ~Holds(x)'
      <4>1. CASE x = Head(task[t].stops)
        <5>1. task[t].stops[1] = x /\ 1 \in 1..Len(task[t].stops)
          BY <2>0, <4>1
        <5> QED BY <3>1, <5>1
      <4>2. CASE x # Head(task[t].stops)
        <5>1. ToStop(t, x) \/ ~Holds(x)
          BY <2>1
        <5> QED BY <3>1, <3>3, <4>2, <5>1
      <4> QED BY <4>1, <4>2
    <3>5. \A x \in Two : Awaits(t, x)' => unit'[x] # "On"
      BY <3>1, <3>3
    <3>6. ~At(t, "Held")'
      BY <3>1
    <3> HIDE DEF HandoverTypeOK, UnitTypeOK, TaskTypeOK, Task, Steps, GateTypeOK,
        RestTypeOK, InStep, Placed, Mutex, Gated, PastTheGate, GateHeld, InOrder, Ordered,
        ChangedOrdered, Awaited, Apart, Holds, Inside, ToStop, Awaits, Two, Tasks, At,
        Shows, MediaBox, Budgets, Posting, NoTask
    <3> QED BY <3>1, <3>4, <3>5, <3>6 DEF Ordered, Inside, ToStop, Awaits, Holds, At, Two,
        Shows, MediaBox
  <2>6. ASSUME task' = [task EXCEPT ![t].stops = Tail(@)], unit' = unit,
      unit[Head(task[t].stops)] # "On"
      PROVE  Ordered(t)'
    <3>1. ASSUME NEW x \in Two \ {task[t].to} PROVE ToStop(t, x)' \/ ~Holds(x)
      <4>1. CASE Head(task[t].stops) = x
        <5>1. unit[x] # "Ending"
          BY <2>1, <2>2, <4>1
        <5> QED BY <2>6, <4>1, <5>1
      <4>2. CASE ToStop(t, x) /\ Head(task[t].stops) # x
        <5>1. TaskTypeOK
          OBVIOUS
        <5>2. PICK j \in 1..Len(Tail(task[t].stops)) : Tail(task[t].stops)[j] = x
          <6> HIDE DEF HandoverTypeOK, UnitTypeOK, TaskTypeOK, Task, Steps, GateTypeOK,
              RestTypeOK, InStep, Placed, Mutex, Gated, PastTheGate, GateHeld, InOrder,
              Ordered, ChangedOrdered, Awaited, Apart, Holds, Inside, ToStop, Awaits, Two,
              Tasks, At, Shows, MediaBox, Budgets, Posting, NoTask
          <6> QED BY <5>1, <4>2, <2>0, NextHas
        <5>3. task'[t].stops = Tail(task[t].stops)
          BY <2>6
        <5> QED BY <5>2, <5>3
      <4>3. ToStop(t, x) \/ ~Holds(x)
        BY <2>1
      <4>4. CASE ~Holds(x)
        BY <2>6, <4>4
      <4> QED BY <4>1, <4>2, <4>3, <4>4
    <3>2. task'[t].pc = "Stops" /\ task'[t].to = task[t].to
      BY <2>1, <2>6
    <3>3. \A x \in Two \ {task'[t].to} : ToStop(t, x)' \/ ~Holds(x)'
      BY <2>6, <3>1, <3>2
    <3>4. ~At(t, "Held")' /\ \A x \in Two : ~Awaits(t, x)'
      BY <3>2
    <3> HIDE DEF HandoverTypeOK, UnitTypeOK, TaskTypeOK, Task, Steps, GateTypeOK,
        RestTypeOK, InStep, Placed, Mutex, Gated, PastTheGate, GateHeld, InOrder, Ordered,
        ChangedOrdered, Awaited, Apart, Holds, Inside, ToStop, Awaits, Two, Tasks, At,
        Shows, MediaBox, Budgets, Posting, NoTask
    <3> QED BY <3>2, <3>3, <3>4 DEF Ordered, Inside, ToStop, Awaits, Holds, At, Two,
        Shows, MediaBox
  <2>7. Ordered(t)'
    BY <1>4, <2>5, <2>6 DEF Stop
  <2>8. ChangedOrdered'
    BY <2>1
  <2> HIDE DEF Ordered, ChangedOrdered
  <2> QED BY <2>8, <2>4, <2>7
<1>5. ASSUME NEW t \in Tasks, Stopped(t)
      PROVE  InOrder'
  <2>0. task[t].stops \in Seq(MediaBox) /\ task[t].stops # <<>>
    BY <1>5 DEF Stop, Stopped
  <2>1. At(t, "Stopping") /\ UNCHANGED <<unit, changed>> /\ task[t].stops # <<>>
        /\ unit[Head(task[t].stops)] # "Ending"
    BY <1>5 DEF Stopped
  <2>2. /\ task'[t].to = task[t].to /\ task'[t].pc = "Stops" /\ task'[t].stops = Tail(task[t].stops)
        /\ \A s \in Tasks \ {t} : task'[s] = task[s]
    BY <1>5 DEF Stopped
  <2>3. ASSUME NEW x \in Two \ {task[t].to} PROVE ToStop(t, x)' \/ ~Holds(x)
    <3>1. CASE Head(task[t].stops) = x
      BY <2>1, <3>1
    <3>2. CASE ToStop(t, x) /\ Head(task[t].stops) # x
      <4>1. TaskTypeOK
        OBVIOUS
      <4>2. PICK j \in 1..Len(Tail(task[t].stops)) : Tail(task[t].stops)[j] = x
        <5> HIDE DEF HandoverTypeOK, UnitTypeOK, TaskTypeOK, Task, Steps, GateTypeOK,
            RestTypeOK, InStep, Placed, Mutex, Gated, PastTheGate, GateHeld, InOrder,
            Ordered, ChangedOrdered, Awaited, Apart, Holds, Inside, ToStop, Awaits, Two,
            Tasks, At, Shows, MediaBox, Budgets, Posting, NoTask
        <5> QED BY <4>1, <3>2, <2>0, NextHas
      <4> QED BY <2>2, <4>2
    <3> QED BY <2>1, <3>1, <3>2
  <2>4. Ordered(t)'
    BY <2>1, <2>2, <2>3
  <2>5. ASSUME NEW s \in Tasks \ {t} PROVE Ordered(s)'
    BY <2>1, <2>2
  <2>8. ChangedOrdered'
    BY <2>1
  <2> HIDE DEF Ordered, ChangedOrdered
  <2> QED BY <2>8, <2>4, <2>5
<1>6. ASSUME NEW t \in Tasks, AllStopped(t)
      PROVE  InOrder'
  BY <1>6, SMTT(60) DEF AllStopped, Goes
<1>7. ASSUME NEW t \in Tasks, Start(t)
      PROVE  InOrder'
  BY <1>7, SMTT(60) DEF Start, Goes, Starts, MayStart, InTheWay, Started, MakesWay, Told
<1>8. ASSUME NEW t \in Tasks, End(t)
      PROVE  InOrder'
  BY <1>8, SMTT(60) DEF End, Goes
<1>9. ASSUME NEW t \in Tasks, After(t)
      PROVE  InOrder'
  BY <1>9, SMTT(60) DEF After, Goes
<1>10. ASSUME NEW t \in Tasks, StartBridge(t)
      PROVE  InOrder'
  BY <1>10, SMTT(60) DEF StartBridge, Goes, Starts, MayStart, InTheWay, Started, MakesWay,
      Told
<1>11. ASSUME NEW r \in Requests, AskRestart(r)
      PROVE  InOrder'
  BY <1>11, SMTT(60) DEF AskRestart, Spend, Told
<1>12. ASSUME NEW r \in Requests, Restarted(r)
      PROVE  InOrder'
  BY <1>12, SMTT(60) DEF Restarted, Goes, Starts, MayStart, InTheWay, Started, MakesWay,
      Told
<1>13. ASSUME NEW r \in Requests, NEW kind \in {"Switch", "Launch", "Open", "Owner"},
      NEW to \in Targets(kind), Ask(r, kind, to)
      PROVE  InOrder'
  <2>1. /\ UNCHANGED <<unit, changed>> /\ task'[r].pc = "Wait"
        /\ \A s \in Tasks \ {r} : task'[s] = task[s]
    BY <1>13 DEF Ask
  <2>2. Ordered(r)'
    BY <2>1
  <2>3. ASSUME NEW s \in Tasks \ {r} PROVE Ordered(s)'
    <3>1. Ordered(s) /\ task'[s] = task[s] /\ unit' = unit
      BY <2>1
    <3> HIDE DEF HandoverTypeOK, UnitTypeOK, TaskTypeOK, Task, Steps, GateTypeOK,
        RestTypeOK, InStep, Placed, Mutex, Gated, PastTheGate, GateHeld, InOrder, Ordered,
        ChangedOrdered, Awaited, Apart, Holds, Inside, ToStop, Awaits, Two, Tasks, At,
        Shows, MediaBox, Budgets, Posting, NoTask
    <3> QED BY <3>1 DEF Ordered, Inside, ToStop, Awaits, Holds, At
  <2>4. ChangedOrdered'
    BY <2>1
  <2> HIDE DEF Ordered, ChangedOrdered
  <2> QED BY <2>2, <2>3, <2>4
<1>14. ASSUME NEW x \in Shows, Gone(x)
      PROVE  InOrder'
  BY <1>14, SMTT(60) DEF Gone
<1>15. CASE KodiEnds
  BY <1>15, SMTT(60) DEF KodiEnds, Spend
<1>16. CASE KodiReturns
  BY <1>16, SMTT(60) DEF KodiReturns, Spend, MayStart, InTheWay, Started, Told
<1>17. CASE Guard
  BY <1>17, SMTT(60) DEF Guard, InTransition
<1>18. CASE Recover
  <2>1. UNCHANGED <<unit, changed>>
    BY <1>18 DEF Recover
  <2>2. CASE task' = task
    BY <2>1, <2>2
  <2>3. CASE task' = [task EXCEPT !["Recovery"] =
                        [kind |-> "Switch", to |-> "Ui", pc |-> "Wait", stops |-> <<>>]]
    <3>1. task'["Recovery"].pc = "Wait" /\ \A s \in Tasks \ {"Recovery"} : task'[s] = task[s]
      BY <2>3
    <3>2. Ordered("Recovery")'
      BY <3>1
    <3>3. ASSUME NEW s \in Tasks \ {"Recovery"} PROVE Ordered(s)'
      <4>1. Ordered(s) /\ task'[s] = task[s] /\ unit' = unit
        BY <3>1, <2>1
      <4> HIDE DEF HandoverTypeOK, UnitTypeOK, TaskTypeOK, Task, Steps, GateTypeOK,
          RestTypeOK, InStep, Placed, Mutex, Gated, PastTheGate, GateHeld, InOrder,
          Ordered, ChangedOrdered, Awaited, Apart, Holds, Inside, ToStop, Awaits, Two,
          Tasks, At, Shows, MediaBox, Budgets, Posting, NoTask
      <4> QED BY <4>1 DEF Ordered, Inside, ToStop, Awaits, Holds, At
    <3>4. ChangedOrdered'
      BY <2>1
    <3> HIDE DEF Ordered, ChangedOrdered
    <3> QED BY <3>2, <3>3, <3>4
  <2> QED BY <1>18, <2>2, <2>3 DEF Recover
<1>19. CASE Replug
  BY <1>19, SMTT(60) DEF Replug, Spend
<1>20. CASE ChangedLocks
  BY <1>20, SMTT(60) DEF ChangedLocks
<1>21. CASE ChangedLooks
  BY <1>21, SMTT(60) DEF ChangedLooks, Leaves
<1>22. CASE ChangedStarts
  BY <1>22, SMTT(60) DEF ChangedStarts, Leaves, Starts, MayStart, InTheWay, Started,
      MakesWay, Told
<1>23. CASE Observe
  BY <1>23, SMTT(60) DEF Observe
<1>24. CASE Observed
  BY <1>24, SMTT(60) DEF Observed
<1>25. CASE DaemonDies
  BY <1>25, SMTT(60) DEF DaemonDies, Spend
<1>26. CASE DaemonStarts
  BY <1>26, SMTT(60) DEF DaemonStarts
<1> HIDE DEF HandoverTypeOK, UnitTypeOK, TaskTypeOK, Task, Steps, GateTypeOK, RestTypeOK,
    InStep, Placed, Mutex, Gated, PastTheGate, GateHeld, InOrder, Ordered, ChangedOrdered,
    Awaited, Apart, Holds, Inside, ToStop, Awaits, Two, Tasks, At, Shows, MediaBox,
    Budgets, Posting, NoTask
<1> QED BY <1>1, <1>2, <1>3, <1>4, <1>5, <1>6, <1>7, <1>8, <1>9, <1>10, <1>11, <1>12,
    <1>13, <1>14, <1>15, <1>16, <1>17, <1>18, <1>19, <1>20, <1>21, <1>22, <1>23, <1>24,
    <1>25, <1>26 DEF HandoverNext, Step

\* Stop and ChangedLooks alone tell a unit to end, and both wait for it.
LEMMA AwaitedStays ==
    ASSUME HandoverTypeOK, InStep, Mutex, Gated, ~PastTheGate, ~PastTheGate', HandoverNext
    PROVE  Awaited'
<1> USE HandoverAssumption, NoneAssumption DEF HandoverTypeOK, UnitTypeOK, TaskTypeOK,
    Task, Steps, GateTypeOK, RestTypeOK, InStep, Placed, Mutex, Gated, PastTheGate,
    GateHeld, InOrder, Ordered, ChangedOrdered, Awaited, Apart, Holds, Inside, ToStop,
    Awaits, Two, Tasks, At, Shows, MediaBox, Budgets, Posting, NoTask
<1>1. ASSUME NEW t \in Tasks, Begin(t)
      PROVE  Awaited'
  BY <1>1, SMTT(60) DEF Begin, Goes
<1>2. ASSUME NEW t \in Tasks, Claim(t)
      PROVE  Awaited'
  BY <1>2, SMTT(60) DEF Claim, StopsFor
<1>3. ASSUME NEW t \in Tasks, Refused(t)
      PROVE  Awaited'
  BY <1>3, SMTT(60) DEF Refused, Spend, Goes
<1>4. ASSUME NEW t \in Tasks, Stop(t)
      PROVE  Awaited'
  <2>1. At(t, "Stops") /\ task[t].stops # <<>> /\ changed' = changed /\ changed.pc # "Stop"
    BY <1>4, NoneAssumption DEF Stop
  <2>2. ASSUME NEW s \in Tasks PROVE ~At(s, "Stopping")
    BY <2>1
  <2>3. \A x \in Two : unit[x] \notin {"Ending", "Stopped"}
    BY <2>1, <2>2
  <2>4. CASE Goes(t, "Stopping") /\ unit' = [unit EXCEPT ![Head(task[t].stops)] = "Ending"]
    <3>1. task'[t].pc = "Stopping" /\ task'[t].stops = task[t].stops
      BY <2>4 DEF Goes
    <3>2. \A x \in Two : unit'[x] \in {"Ending", "Stopped"} => Head(task[t].stops) = x
      BY <2>3, <2>4
    <3> QED BY <3>1, <3>2
  <2>5. CASE unit' = unit
    BY <2>3, <2>5
  <2> QED BY <1>4, <2>4, <2>5 DEF Stop
<1>5. ASSUME NEW t \in Tasks, Stopped(t)
      PROVE  Awaited'
  BY <1>5, SMTT(60) DEF Stopped
<1>6. ASSUME NEW t \in Tasks, AllStopped(t)
      PROVE  Awaited'
  BY <1>6, SMTT(60) DEF AllStopped, Goes
<1>7. ASSUME NEW t \in Tasks, Start(t)
      PROVE  Awaited'
  BY <1>7, SMTT(60) DEF Start, Goes, Starts, MayStart, InTheWay, Started, MakesWay, Told
<1>8. ASSUME NEW t \in Tasks, End(t)
      PROVE  Awaited'
  BY <1>8, SMTT(60) DEF End, Goes
<1>9. ASSUME NEW t \in Tasks, After(t)
      PROVE  Awaited'
  BY <1>9, SMTT(60) DEF After, Goes
<1>10. ASSUME NEW t \in Tasks, StartBridge(t)
      PROVE  Awaited'
  BY <1>10, SMTT(60) DEF StartBridge, Goes, Starts, MayStart, InTheWay, Started, MakesWay,
      Told
<1>11. ASSUME NEW r \in Requests, AskRestart(r)
      PROVE  Awaited'
  BY <1>11, SMTT(60) DEF AskRestart, Spend, Told
<1>12. ASSUME NEW r \in Requests, Restarted(r)
      PROVE  Awaited'
  BY <1>12, SMTT(60) DEF Restarted, Goes, Starts, MayStart, InTheWay, Started, MakesWay,
      Told
<1>13. ASSUME NEW r \in Requests, NEW kind \in {"Switch", "Launch", "Open", "Owner"},
      NEW to \in Targets(kind), Ask(r, kind, to)
      PROVE  Awaited'
  BY <1>13, SMTT(60) DEF Ask, Spend, Targets
<1>14. ASSUME NEW x \in Shows, Gone(x)
      PROVE  Awaited'
  BY <1>14, SMTT(60) DEF Gone
<1>15. CASE KodiEnds
  BY <1>15, SMTT(60) DEF KodiEnds, Spend
<1>16. CASE KodiReturns
  BY <1>16, SMTT(60) DEF KodiReturns, Spend, MayStart, InTheWay, Started, Told
<1>17. CASE Guard
  BY <1>17, SMTT(60) DEF Guard, InTransition
<1>18. CASE Recover
  BY <1>18, SMTT(60) DEF Recover, InTransition
<1>19. CASE Replug
  BY <1>19, SMTT(60) DEF Replug, Spend
<1>20. CASE ChangedLocks
  BY <1>20, SMTT(60) DEF ChangedLocks
<1>21. CASE ChangedLooks
  BY <1>21, SMTT(60) DEF ChangedLooks, Leaves
<1>22. CASE ChangedStarts
  BY <1>22, SMTT(60) DEF ChangedStarts, Leaves, Starts, MayStart, InTheWay, Started,
      MakesWay, Told
<1>23. CASE Observe
  BY <1>23, SMTT(60) DEF Observe
<1>24. CASE Observed
  BY <1>24, SMTT(60) DEF Observed
<1>25. CASE DaemonDies
  BY <1>25, SMTT(60) DEF DaemonDies, Spend
<1>26. CASE DaemonStarts
  BY <1>26, SMTT(60) DEF DaemonStarts
<1> HIDE DEF HandoverTypeOK, UnitTypeOK, TaskTypeOK, Task, Steps, GateTypeOK, RestTypeOK,
    InStep, Placed, Mutex, Gated, PastTheGate, GateHeld, InOrder, Ordered, ChangedOrdered,
    Awaited, Apart, Holds, Inside, ToStop, Awaits, Two, Tasks, At, Shows, MediaBox,
    Budgets, Posting, NoTask
<1> QED BY <1>1, <1>2, <1>3, <1>4, <1>5, <1>6, <1>7, <1>8, <1>9, <1>10, <1>11, <1>12,
    <1>13, <1>14, <1>15, <1>16, <1>17, <1>18, <1>19, <1>20, <1>21, <1>22, <1>23, <1>24,
    <1>25, <1>26 DEF HandoverNext, Step

\* One alone is started, by whoever has seen the other out.
LEMMA ApartStays ==
    ASSUME HandoverTypeOK, InStep, Mutex, Gated, ~PastTheGate, ~PastTheGate', HandoverNext
    PROVE  Apart'
<1> USE HandoverAssumption, NoneAssumption DEF HandoverTypeOK, UnitTypeOK, TaskTypeOK,
    Task, Steps, GateTypeOK, RestTypeOK, InStep, Placed, Mutex, Gated, PastTheGate,
    GateHeld, InOrder, Ordered, ChangedOrdered, Awaited, Apart, Holds, Inside, ToStop,
    Awaits, Two, Tasks, At, Shows, MediaBox, Budgets, Posting, NoTask
<1>1. ASSUME NEW t \in Tasks, Begin(t)
      PROVE  Apart'
  BY <1>1, SMTT(60) DEF Begin, Goes
<1>2. ASSUME NEW t \in Tasks, Claim(t)
      PROVE  Apart'
  BY <1>2, SMTT(60) DEF Claim, StopsFor
<1>3. ASSUME NEW t \in Tasks, Refused(t)
      PROVE  Apart'
  BY <1>3, SMTT(60) DEF Refused, Spend, Goes
<1>4. ASSUME NEW t \in Tasks, Stop(t)
      PROVE  Apart'
  BY <1>4, SMTT(60) DEF Stop, Goes
<1>5. ASSUME NEW t \in Tasks, Stopped(t)
      PROVE  Apart'
  BY <1>5, SMTT(60) DEF Stopped
<1>6. ASSUME NEW t \in Tasks, AllStopped(t)
      PROVE  Apart'
  BY <1>6, SMTT(60) DEF AllStopped, Goes
<1>7. ASSUME NEW t \in Tasks, Start(t)
      PROVE  Apart'
  BY <1>7, SMTT(60) DEF Start, Goes, Starts, MayStart, InTheWay, Started, MakesWay, Told
<1>8. ASSUME NEW t \in Tasks, End(t)
      PROVE  Apart'
  BY <1>8, SMTT(60) DEF End, Goes
<1>9. ASSUME NEW t \in Tasks, After(t)
      PROVE  Apart'
  BY <1>9, SMTT(60) DEF After, Goes
<1>10. ASSUME NEW t \in Tasks, StartBridge(t)
      PROVE  Apart'
  BY <1>10, SMTT(60) DEF StartBridge, Goes, Starts, MayStart, InTheWay, Started, MakesWay,
      Told
<1>11. ASSUME NEW r \in Requests, AskRestart(r)
      PROVE  Apart'
  BY <1>11, SMTT(60) DEF AskRestart, Spend, Told
<1>12. ASSUME NEW r \in Requests, Restarted(r)
      PROVE  Apart'
  BY <1>12, SMTT(60) DEF Restarted, Goes, Starts, MayStart, InTheWay, Started, MakesWay,
      Told
<1>13. ASSUME NEW r \in Requests, NEW kind \in {"Switch", "Launch", "Open", "Owner"},
      NEW to \in Targets(kind), Ask(r, kind, to)
      PROVE  Apart'
  BY <1>13, SMTT(60) DEF Ask, Spend, Targets
<1>14. ASSUME NEW x \in Shows, Gone(x)
      PROVE  Apart'
  BY <1>14, SMTT(60) DEF Gone
<1>15. CASE KodiEnds
  BY <1>15, SMTT(60) DEF KodiEnds, Spend
<1>16. CASE KodiReturns
  BY <1>16, SMTT(60) DEF KodiReturns, Spend, MayStart, InTheWay, Started, Told
<1>17. CASE Guard
  BY <1>17, SMTT(60) DEF Guard, InTransition
<1>18. CASE Recover
  BY <1>18, SMTT(60) DEF Recover, InTransition
<1>19. CASE Replug
  BY <1>19, SMTT(60) DEF Replug, Spend
<1>20. CASE ChangedLocks
  BY <1>20, SMTT(60) DEF ChangedLocks
<1>21. CASE ChangedLooks
  BY <1>21, SMTT(60) DEF ChangedLooks, Leaves
<1>22. CASE ChangedStarts
  BY <1>22, SMTT(60) DEF ChangedStarts, Leaves, Starts, MayStart, InTheWay, Started,
      MakesWay, Told
<1>23. CASE Observe
  BY <1>23, SMTT(60) DEF Observe
<1>24. CASE Observed
  BY <1>24, SMTT(60) DEF Observed
<1>25. CASE DaemonDies
  BY <1>25, SMTT(60) DEF DaemonDies, Spend
<1>26. CASE DaemonStarts
  BY <1>26, SMTT(60) DEF DaemonStarts
<1> HIDE DEF HandoverTypeOK, UnitTypeOK, TaskTypeOK, Task, Steps, GateTypeOK, RestTypeOK,
    InStep, Placed, Mutex, Gated, PastTheGate, GateHeld, InOrder, Ordered, ChangedOrdered,
    Awaited, Apart, Holds, Inside, ToStop, Awaits, Two, Tasks, At, Shows, MediaBox,
    Budgets, Posting, NoTask
<1> QED BY <1>1, <1>2, <1>3, <1>4, <1>5, <1>6, <1>7, <1>8, <1>9, <1>10, <1>11, <1>12,
    <1>13, <1>14, <1>15, <1>16, <1>17, <1>18, <1>19, <1>20, <1>21, <1>22, <1>23, <1>24,
    <1>25, <1>26 DEF HandoverNext, Step

----------------------------------------------------------------------------
(* The invariant, and what follows from it.                                   *)

\* One unit runs when it all begins, and nothing is under way.
LEMMA InitInv == HandoverInit => HandoverInv
<1> SUFFICES ASSUME HandoverInit PROVE HandoverInv
  OBVIOUS
<1> USE HandoverAssumption, NoneAssumption
<1>1. PICK w \in Worlds : \E x \in w.first :
        /\ unit = [y \in Shows |-> IF y = x THEN "On" ELSE "Off"]
        /\ record = IF x = "Bridge" THEN "ScreenBridge" ELSE "MediaBox"
        /\ mode = IF x = "Kodi" THEN "KodiPlayback" ELSE "Ui"
        /\ left = [b \in Budgets |-> w[b]]
  BY DEF HandoverInit
<1>2. /\ task = [t \in Tasks |-> NoTask] /\ inside = {} /\ lock = None
      /\ recovery = None /\ changed = [pc |-> "Away", owner |-> None]
      /\ reading = FALSE /\ up = "Up"
  BY DEF HandoverInit
<1>3. PICK x \in w.first :
        /\ unit = [y \in Shows |-> IF y = x THEN "On" ELSE "Off"]
        /\ record = IF x = "Bridge" THEN "ScreenBridge" ELSE "MediaBox"
        /\ mode = IF x = "Kodi" THEN "KodiPlayback" ELSE "Ui"
        /\ left = [b \in Budgets |-> w[b]]
  BY <1>1
<1>4. UnitTypeOK
  BY <1>3 DEF UnitTypeOK
<1>5. TaskTypeOK
  BY <1>2, EmptySeq DEF TaskTypeOK, NoTask, Task, Steps
<1>6. GateTypeOK
  BY <1>2 DEF GateTypeOK
<1>7. RestTypeOK
  <2>1. left \in [Budgets -> Nat]
    BY <1>3
  <2>2. record \in {"MediaBox", "ScreenBridge"} /\ mode \in {"Ui", "KodiPlayback"}
    BY <1>3
  <2> QED BY <1>2, <2>1, <2>2 DEF RestTypeOK
<1>8. \A t \in Tasks : task[t].pc = "Free" /\ task[t].kind = None /\ task[t].to = None
  BY <1>2 DEF NoTask
<1>9. InStep
  <2>1. left["returns"] \in {0, 1}
    BY <1>3 DEF Budgets
  <2> QED BY <1>8, <2>1 DEF InStep, Placed, At, Shows, MediaBox
<1>10. Mutex
  BY <1>8 DEF Mutex, Inside, At
<1>11. GateHeld
  BY <1>2, <1>8 DEF GateHeld, Inside
<1>12. InOrder
  BY <1>2, <1>8 DEF InOrder, Ordered, ChangedOrdered, Inside, Awaits, At
<1>13. Awaited
  BY <1>3 DEF Awaited, Two, Shows, MediaBox
<1>14. Apart
  BY <1>3 DEF Apart, Holds, Shows, MediaBox
<1> QED BY <1>4, <1>5, <1>6, <1>7, <1>9, <1>10, <1>11, <1>12, <1>13, <1>14
        DEF HandoverInv, HandoverTypeOK, Gated

\* No step, of anybody, breaks the invariant.
LEMMA StepInv == HandoverInv /\ [HandoverNext]_vars => HandoverInv'
<1> SUFFICES ASSUME HandoverInv, [HandoverNext]_vars PROVE HandoverInv'
  OBVIOUS
<1>1. CASE HandoverNext
  <2>1. HandoverTypeOK /\ InStep /\ Mutex /\ (PastTheGate \/ Gated)
    BY DEF HandoverInv
  <2>2. HandoverTypeOK'
    BY <1>1, <2>1, UnitTypeOKStays, TaskTypeOKStays, GateTypeOKStays, RestTypeOKStays
       DEF HandoverTypeOK
  <2>3. InStep' /\ Mutex'
    BY <1>1, <2>1, InStepStays, MutexStays
  <2>4. CASE PastTheGate \/ PastTheGate'
    BY <1>1, <2>1, <2>2, <2>3, <2>4, PastStays DEF HandoverInv
  <2>5. CASE ~PastTheGate /\ ~PastTheGate'
    BY <1>1, <2>1, <2>2, <2>3, <2>5, GateHeldStays, InOrderStays, AwaitedStays, ApartStays
       DEF HandoverInv, Gated
  <2> QED BY <2>4, <2>5
<1>2. CASE UNCHANGED vars
  BY <1>2 DEF HandoverInv, vars, HandoverTypeOK, UnitTypeOK, TaskTypeOK, GateTypeOK,
      RestTypeOK,
       InStep, Placed, Mutex, PastTheGate, Gated, GateHeld, InOrder, Ordered,
           ChangedOrdered,
       Awaited, Apart, Holds, Inside, ToStop, Awaits, At
<1> QED BY <1>1, <1>2

\* All behaviours: the invariant of the handovers.
LEMMA Invariance == HandoverSpec => []HandoverInv
  BY InitInv, StepInv, PTL DEF HandoverSpec

\* The daemon's tasks, the units and the scripts stay where the code can have
\* them: in particular the lock file is never the daemon's without the mutex.
THEOREM HandoverTypeCorrect == HandoverSpec => []HandoverTypeOK
<1>1. HandoverInv => HandoverTypeOK
  BY DEF HandoverInv
<1> QED BY <1>1, Invariance, PTL

\* Kodi and the television's own interface never hold the display together, for
\* any number of requests, ends, crashes, replugs and refusals, until something
\* that asks nobody has changed hands.
THEOREM KodiAndUiApart == HandoverSpec => []KodiUiApart
<1>1. HandoverInv => KodiUiApart
  BY DEF HandoverInv, Gated, Apart, KodiUiApart
<1> QED BY <1>1, Invariance, PTL

\* A handover that ends has on screen what it was asked for.
THEOREM Lands == HandoverSpec => HandoverLands
<1>1. HandoverInv /\ [HandoverNext]_vars =>
        [\A t \in Tasks : At(t, "Held") /\ task'[t].pc \in {"After", "Done"} /\ ~PastTheGate
          => IF task[t].to = None THEN Shown \cap {"Ui", "Kodi"} = {}
             ELSE \/ unit[task[t].to] = "On"
                  \/ task[t].to = "Kodi" /\ ~Holds("Kodi")]_vars
  <2> SUFFICES ASSUME HandoverInv, NEW t \in Tasks, At(t, "Held"), ~PastTheGate
               PROVE  IF task[t].to = None THEN Shown \cap {"Ui", "Kodi"} = {}
                      ELSE \/ unit[task[t].to] = "On"
                           \/ task[t].to = "Kodi" /\ ~Holds("Kodi")
    OBVIOUS
  <2>1. TaskTypeOK /\ Placed(t) /\ Ordered(t)
    BY DEF HandoverInv, HandoverTypeOK, InStep, Gated, InOrder
  <2>2. CASE task[t].to = None
    <3>1. Inside(t) /\ \A x \in Two : ~ToStop(t, x)
      BY <2>1 DEF At, Inside, Placed, ToStop
    <3>2. \A x \in Two : ~Holds(x)
      BY <2>1, <2>2, <3>1, NoneAssumption DEF Ordered, Two, Shows, MediaBox
    <3> QED BY <2>2, <3>2 DEF Shown, Holds, Two
  <2>3. CASE task[t].to \in MediaBox
    BY <2>1, <2>3, NoneAssumption DEF Ordered, Shows
  <2>4. CASE task[t].to = "Bridge"
    BY <2>1, <2>4 DEF Placed, PastTheGate
  <2>5. task[t].to \in MediaBox \cup {"Bridge", None}
    BY <2>1 DEF TaskTypeOK, Task, Shows
  <2> QED BY <2>2, <2>3, <2>4, <2>5
<1> QED BY <1>1, Invariance, PTL DEF HandoverSpec, HandoverLands

\* Nobody but the guard asks for the interface back.
LEMMA QueuedByGuard == HandoverTypeOK /\ HandoverNext /\ recovery = None /\ recovery' = "Queued" => Guard
  BY NoneAssumption
  DEF HandoverNext, Step, Begin, Claim, Refused, Stop, Stopped, AllStopped, Start, End,
      After,
      StartBridge, AskRestart, Restarted, Ask, Gone, KodiEnds, KodiReturns, Recover, Replug,
      ChangedLocks, ChangedLooks, ChangedStarts, Observe, Observed, DaemonDies, DaemonStarts

\* Whoever stops Kodi holds the file until its guard has run, so a recovery is
\* only ever queued for a Kodi that ended by itself.
THEOREM OnlyWhenEnded == HandoverSpec => RecoveryOnlyWhenEnded
<1>1. HandoverInv /\ [HandoverNext]_vars =>
        [recovery = None /\ recovery' = "Queued" /\ ~PastTheGate
          => unit["Kodi"] \in {"Ended", "Crashed"}]_vars
  <2> SUFFICES ASSUME HandoverInv, HandoverNext, recovery = None, recovery' = "Queued",
      ~PastTheGate
               PROVE  unit["Kodi"] \in {"Ended", "Crashed"}
    BY DEF vars
  <2>1. HandoverTypeOK /\ Gated
    BY DEF HandoverInv
  <2>2. Guard
    BY <2>1, QueuedByGuard
  <2>3. lock = None /\ unit["Kodi"] \in Posting
    BY <2>2, NoneAssumption DEF Guard, InTransition
  <2>4. ASSUME unit["Kodi"] = "Stopped" PROVE FALSE
    <3>1. (\E t \in Tasks : Awaits(t, "Kodi")) \/ changed.pc = "Stop"
      BY <2>1, <2>4 DEF Gated, Awaited, Two
    <3> QED BY <2>1, <2>3, <3>1, NoneAssumption DEF Gated, GateHeld, Awaits, Inside
  <2> QED BY <2>3, <2>4 DEF Posting
<1> QED BY <1>1, Invariance, PTL DEF HandoverSpec, RecoveryOnlyWhenEnded
=============================================================================
