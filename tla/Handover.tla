------------------------------ MODULE Handover ------------------------------
(* Who has the television: the handovers of mediaboxd-rs (transition.rs,      *)
(* lifecycle.rs, daemon.rs), the guard and the recovery that run when Kodi    *)
(* ends (packaging/mediabox-display-guard, -recover), the recovery of a new   *)
(* display (packaging/mediabox-display-changed) and the observer, around one  *)
(* lock file.  A unit is what systemd says of it; starting one stops those it *)
(* conflicts with (Conflicts=), at the same time unless one is ordered after  *)
(* the other (After=screenbridge-daemon.service).                             *)
EXTENDS Sequences, Naturals

CONSTANTS
    Requests,   \* handovers asked of the daemon
    Worlds,     \* what may happen, each way a run of its own: how often, and who starts
    None

VARIABLES
    unit,       \* unit[x]: what has become of each display owner's unit
    task,       \* the handovers under way in the daemon
    inside,     \* DisplayTransition.gate: the task that holds the mutex
    lock,       \* who holds the lock file exclusively: "Daemon", "Changed" or None
    reading,    \* the observer holds it shared
    recovery,   \* mediabox-display-recover: None, "Queued", or "Asked" of the daemon
    changed,    \* mediabox-display-changed: where it is, and the owner it found
    record,     \* the display-owner file
    mode,       \* where the input bus sends the remote
    up,         \* whether the daemon runs: "Up", "Down", or "Again"
    left        \* what may still happen

vars == <<unit, task, inside, lock, reading, recovery, changed, record, mode, up, left>>

MediaBox == {"Ui", "Kodi", "Browser"}
Shows    == MediaBox \cup {"Bridge"}
Table    == <<"Ui", "Kodi", "Browser">>          \* mediabox-applications.json
Tasks    == Requests \cup {"Recovery", "Startup"}
NoTask   == [kind |-> None, to |-> None, pc |-> "Free", stops |-> <<>>]
Posting  == {"Stopped", "Ended", "Crashed"}      \* Kodi is gone and its ExecStopPost runs
Budgets  == {"asks", "restarts", "ends", "crashes", "returns", "replugs", "deaths", "refusals"}

ASSUME HandoverAssumption ==
    \A w \in Worlds : /\ w.first \subseteq {"Ui", "Kodi", "Bridge"}
                      /\ \A b \in Budgets : w[b] \in Nat
                      /\ w["returns"] \in {0, 1}
ASSUME NoneAssumption ==
    /\ None \notin Shows \cup {"Daemon", "Changed", "Queued", "Asked", "Restart"}
    /\ Requests \cap {"Recovery", "Startup"} = {}

Spend(b) == left[b] > 0 /\ left' = [left EXCEPT ![b] = @ - 1]
At(t, pc) == task[t].pc = pc
Goes(t, pc) == task' = [task EXCEPT ![t].pc = pc]

----------------------------------------------------------------------------
(* systemd.                                                                   *)

\* Bridge is stopped before, and starts after, any it conflicts with; the
\* others only at the same time.  A unit that is being stopped is started next.
InTheWay(x) == IF x = "Bridge" THEN {y \in MediaBox : unit[y] # "Off"}
               ELSE {"Bridge"} \cap {y \in Shows : unit[y] # "Off"}
MayStart(x) == unit[x] \in {"Off", "On", "Restarting"} /\ InTheWay(x) = {}
Told(s)     == CASE s = "On" -> "Ending" [] s = "Restarting" -> "Off" [] s = "Crashed" -> "Ended"
                 [] OTHER -> s
Started(x)  == [y \in Shows |-> IF y = x THEN "On"
                                ELSE IF y = "Bridge" THEN unit[y] ELSE Told(unit[y])]
MakesWay(x) == [y \in Shows |-> IF y \in InTheWay(x) THEN Told(unit[y]) ELSE unit[y]]

\* `systemctl start x`: way is made first, then x runs.
Starts(x) ==
    \/ MayStart(x) /\ unit' = Started(x)
    \/ InTheWay(x) # {} /\ unit' = MakesWay(x) /\ unit' # unit

\* What was told to end lets go of the display; Kodi's guard still has to run.
Gone(x) ==
    /\ unit[x] = "Ending"
    /\ unit' = [unit EXCEPT ![x] = IF x = "Kodi" THEN "Stopped" ELSE "Off"]
    /\ UNCHANGED <<task, inside, lock, reading, recovery, changed, record, mode, up, left>>

\* Kodi ends: the viewer chose Exit, or a fault brought it down.
KodiEnds ==
    /\ unit["Kodi"] = "On"
    /\ \/ Spend("ends") /\ unit' = [unit EXCEPT !["Kodi"] = "Ended"]
       \/ Spend("crashes") /\ unit' = [unit EXCEPT !["Kodi"] = "Crashed"]
    /\ UNCHANGED <<task, inside, lock, reading, recovery, changed, record, mode, up>>

\* Restart=on-failure, three seconds on.
KodiReturns ==
    /\ unit["Kodi"] = "Restarting" /\ MayStart("Kodi") /\ Spend("returns")
    /\ unit' = Started("Kodi")
    /\ UNCHANGED <<task, inside, lock, reading, recovery, changed, record, mode, up>>

----------------------------------------------------------------------------
(* mediabox-display-guard and mediabox-display-recover.                       *)

InTransitionExclusive == lock # None \/ reading   \* mutant: asked with a lock of its own
InTransition == lock # None                      \* flock -n -s: refused by an exclusive hold

GuardWaits ==                            \* mutant: the guard waits for the transition's end
    /\ unit["Kodi"] \in Posting /\ lock = None
    /\ unit' = [unit EXCEPT !["Kodi"] = IF @ = "Crashed" THEN "Restarting" ELSE "Off"]
    /\ recovery' = IF recovery # None THEN recovery ELSE "Queued"
    /\ UNCHANGED <<task, inside, lock, reading, changed, record, mode, up, left>>
Guard ==
    /\ unit["Kodi"] \in Posting
    /\ unit' = [unit EXCEPT !["Kodi"] = IF @ = "Crashed" THEN "Restarting" ELSE "Off"]
    /\ recovery' = IF InTransition \/ recovery # None THEN recovery ELSE "Queued"
    /\ UNCHANGED <<task, inside, lock, reading, changed, record, mode, up, left>>

\* A unit of its own, after kodi.service has nothing left to do.  It asks the
\* lock once more, and then the daemon.
KodiAtRest == unit["Kodi"] \notin Posting \cup {"Ending"} /\ \A r \in Requests : ~At(r, "Restarts")
Recover ==
    /\ recovery = "Queued" /\ KodiAtRest
    /\ IF InTransition \/ up = "Down"
       THEN recovery' = None /\ UNCHANGED task
       ELSE /\ recovery' = "Asked"
            /\ task' = [task EXCEPT !["Recovery"] =
                           [kind |-> "Switch", to |-> "Ui", pc |-> "Wait", stops |-> <<>>]]
    /\ UNCHANGED <<unit, inside, lock, reading, changed, record, mode, up, left>>

----------------------------------------------------------------------------
(* What is asked of the daemon.                                               *)

Targets(kind) == CASE kind = "Switch" -> {"Ui", "Kodi", None}
                   [] kind = "Launch" -> MediaBox \cup {None}
                   [] kind = "Open"   -> {"Browser"}
                   [] kind = "Owner"  -> {"Ui", "Bridge"}

\* set_display_owner writes its answer before the move.
Ask(r, kind, to) ==
    /\ up # "Down" /\ At(r, "Free") /\ Spend("asks")
    /\ task' = [task EXCEPT ![r] = [kind |-> kind, to |-> to, pc |-> "Wait", stops |-> <<>>]]
    /\ record' = IF kind # "Owner" THEN record
                 ELSE IF to = "Bridge" THEN "ScreenBridge" ELSE "MediaBox"
    /\ UNCHANGED <<unit, inside, lock, reading, recovery, changed, mode, up>>

\* KodiRestart is `systemctl restart` and asks nobody.
AskRestart(r) ==
    /\ up # "Down" /\ At(r, "Free") /\ Spend("restarts")
    /\ task' = [task EXCEPT ![r] = [NoTask EXCEPT !.kind = "Restart", !.pc = "Restarts"]]
    /\ unit' = [unit EXCEPT !["Kodi"] = Told(@)]
    /\ UNCHANGED <<inside, lock, reading, recovery, changed, record, mode, up>>

Restarted(r) ==
    /\ At(r, "Restarts") /\ Starts("Kodi")
    /\ IF MayStart("Kodi") THEN Goes(r, "Done") ELSE UNCHANGED task
    /\ UNCHANGED <<inside, lock, reading, recovery, changed, record, mode, up, left>>

----------------------------------------------------------------------------
(* DisplayTransition::begin, SurfaceManager::switch, ApplicationManager::     *)
(* launch.                                                                    *)

\* Who is stopped first: switch knows of two units, launch of the whole table.
StopsFor(t) ==
    LET to  == task[t].to
        all == task[t].kind \in {"Launch", "Open"} IN
    CASE to = "Ui"      -> IF all THEN <<"Kodi", "Browser">> ELSE <<"Kodi">>
      [] to = "Kodi"    -> IF all THEN <<"Ui", "Browser">> ELSE <<"Ui">>
      [] to = "Browser" -> <<"Ui", "Kodi">>
      [] OTHER          -> IF all THEN Table ELSE <<"Kodi", "Ui">>

Begin(t) ==
    /\ At(t, "Wait") /\ inside = {}
    /\ inside' = {t} /\ Goes(t, "Claim")
    /\ UNCHANGED <<unit, lock, reading, recovery, changed, record, mode, up, left>>

\* The file, tried every ten milliseconds.
ClaimsNothing(t) ==                      \* mutant: the file is left alone
    /\ At(t, "Claim")
    /\ task' = [task EXCEPT ![t].pc = "Stops", ![t].stops = StopsFor(t)]
    /\ UNCHANGED <<unit, inside, lock, reading, recovery, changed, record, mode, up, left>>
Claim(t) ==
    /\ At(t, "Claim") /\ lock = None /\ ~reading
    /\ lock' = "Daemon"
    /\ task' = [task EXCEPT ![t].pc = "Stops", ![t].stops = StopsFor(t)]
    /\ UNCHANGED <<unit, inside, reading, recovery, changed, record, mode, up, left>>

\* `unit_exists`: what is not installed is refused before anything is stopped;
\* a unit that will not start is refused when all the others have been.
Refused(t) ==
    /\ At(t, "Stops") \/ At(t, "Start")
    /\ task[t].to \in MediaBox /\ unit[task[t].to] = "Off"
    /\ Spend("refusals")
    /\ inside' = {} /\ lock' = None
    /\ IF t \in Requests THEN Goes(t, "Refused") /\ UNCHANGED recovery
       ELSE /\ task' = [task EXCEPT ![t] = NoTask]
            /\ recovery' = IF t = "Recovery" THEN None ELSE recovery
    /\ UNCHANGED <<unit, reading, changed, record, mode, up>>

\* stop_unit: what is not active is passed over, the rest waited for.
StopDoesNotWait(t) ==                    \* mutant: the next one before this one is gone
    /\ At(t, "Stops") /\ task[t].stops # <<>>
    /\ unit' = [unit EXCEPT ![Head(task[t].stops)] = IF @ = "On" THEN "Ending" ELSE @]
    /\ task' = [task EXCEPT ![t].stops = Tail(@)]
    /\ UNCHANGED <<inside, lock, reading, recovery, changed, record, mode, up, left>>
Stop(t) ==
    /\ At(t, "Stops") /\ task[t].stops # <<>>
    /\ LET x == Head(task[t].stops) IN
       IF unit[x] = "On"
       THEN unit' = [unit EXCEPT ![x] = "Ending"] /\ Goes(t, "Stopping")
       ELSE task' = [task EXCEPT ![t].stops = Tail(@)] /\ UNCHANGED unit
    /\ UNCHANGED <<inside, lock, reading, recovery, changed, record, mode, up, left>>

Stopped(t) ==
    /\ At(t, "Stopping")
    /\ unit[Head(task[t].stops)] \notin Posting \cup {"Ending"}
    /\ task' = [task EXCEPT ![t].pc = "Stops", ![t].stops = Tail(@)]
    /\ UNCHANGED <<unit, inside, lock, reading, recovery, changed, record, mode, up, left>>

AllStopped(t) ==
    /\ At(t, "Stops") /\ task[t].stops = <<>>
    /\ Goes(t, IF task[t].to \in MediaBox THEN "Start" ELSE "Held")
    /\ UNCHANGED <<unit, inside, lock, reading, recovery, changed, record, mode, up, left>>

Start(t) ==
    /\ At(t, "Start") /\ Starts(task[t].to)
    /\ IF MayStart(task[t].to) THEN Goes(t, "Held") ELSE UNCHANGED task
    /\ UNCHANGED <<inside, lock, reading, recovery, changed, record, mode, up, left>>

\* The transition is dropped: the file, then the mutex.
End(t) ==
    /\ At(t, "Held")
    /\ inside' = {} /\ lock' = IF lock = "Daemon" THEN None ELSE lock
    /\ Goes(t, CASE task[t].kind = "Open" -> "Done"
                 [] task[t].to = "Bridge" -> "Bridge"
                 [] OTHER -> "After")
    /\ UNCHANGED <<unit, reading, recovery, changed, record, mode, up, left>>

\* With the gate let go: remember() and the input's mode.
After(t) ==
    /\ At(t, "After")
    /\ record' = IF task[t].to = None THEN record ELSE "MediaBox"
    /\ mode' = IF task[t].kind = "Launch" THEN mode
               ELSE IF task[t].to = "Kodi" THEN "KodiPlayback" ELSE "Ui"
    /\ IF t \in Requests THEN Goes(t, "Done") /\ UNCHANGED recovery
       ELSE /\ task' = [task EXCEPT ![t] = NoTask]
            /\ recovery' = IF t = "Recovery" THEN None ELSE recovery
    /\ UNCHANGED <<unit, inside, lock, reading, changed, up, left>>

StartBridge(t) ==
    /\ At(t, "Bridge") /\ Starts("Bridge")
    /\ IF MayStart("Bridge") THEN Goes(t, "Done") ELSE UNCHANGED task
    /\ UNCHANGED <<inside, lock, reading, recovery, changed, record, mode, up, left>>

----------------------------------------------------------------------------
(* mediabox-display-changed, the observer, and the daemon's end and start.    *)

Replug ==
    /\ changed.pc = "Away" /\ Spend("replugs")
    /\ changed' = [pc |-> "Lock", owner |-> None]
    /\ UNCHANGED <<unit, task, inside, lock, reading, recovery, record, mode, up>>

ChangedLocksNothing ==                   \* mutant: the owner is stopped without asking
    /\ changed.pc = "Lock"
    /\ changed' = [changed EXCEPT !.pc = "Look"]
    /\ UNCHANGED <<unit, task, inside, lock, reading, recovery, record, mode, up, left>>
ChangedLocks ==
    /\ changed.pc = "Lock" /\ lock = None /\ ~reading
    /\ lock' = "Changed"
    /\ changed' = [changed EXCEPT !.pc = "Look"]
    /\ UNCHANGED <<unit, task, inside, reading, recovery, record, mode, up, left>>

Leaves == /\ changed' = [pc |-> "Away", owner |-> None]
          /\ lock' = IF lock = "Changed" THEN None ELSE lock

\* The one active owner is stopped; the browser, or nobody, is left alone.
ChangedLooks ==
    /\ changed.pc = "Look"
    /\ LET active == {x \in MediaBox : unit[x] = "On"} IN
       \/ /\ active \in {{"Ui"}, {"Kodi"}}
          /\ \E x \in active :
                /\ unit' = [unit EXCEPT ![x] = "Ending"]
                /\ changed' = [pc |-> "Stop", owner |-> x]
          /\ UNCHANGED lock
       \/ active \notin {{"Ui"}, {"Kodi"}} /\ Leaves /\ UNCHANGED unit
    /\ UNCHANGED <<task, inside, reading, recovery, record, mode, up, left>>

ChangedStarts ==
    /\ changed.pc = "Stop"
    /\ unit[changed.owner] \notin Posting \cup {"Ending"}
    /\ Starts(changed.owner)
    /\ IF MayStart(changed.owner) THEN Leaves ELSE UNCHANGED <<changed, lock>>
    /\ UNCHANGED <<task, inside, reading, recovery, record, mode, up, left>>

Observe ==
    /\ ~reading /\ lock = None /\ reading' = TRUE
    /\ UNCHANGED <<unit, task, inside, lock, recovery, changed, record, mode, up, left>>
Observed ==
    /\ reading /\ reading' = FALSE
    /\ UNCHANGED <<unit, task, inside, lock, recovery, changed, record, mode, up, left>>

\* What systemd was told goes on; the lock goes with the last descriptor.
DaemonDies ==
    /\ up # "Down" /\ Spend("deaths")
    /\ up' = "Down" /\ inside' = {}
    /\ task' = [t \in Tasks |-> IF At(t, "Free") \/ t \notin Requests THEN NoTask
                                ELSE [task[t] EXCEPT !.pc = "Refused"]]
    /\ lock' = IF lock = "Daemon" THEN None ELSE lock
    /\ recovery' = IF recovery = "Asked" THEN None ELSE recovery
    /\ UNCHANGED <<unit, reading, changed, record, mode>>

\* Ordered after kodi.service: not while systemd is stopping that.  The display
\* is claimed for whoever the file says.
DaemonStarts ==
    /\ up = "Down" /\ up' = "Again"
    /\ unit["Kodi"] \notin {"Ending", "Stopped"}
    /\ mode' = "Ui"
    /\ task' = IF record = "ScreenBridge" THEN task
               ELSE [task EXCEPT !["Startup"] =
                        [kind |-> "Switch", to |-> "Ui", pc |-> "Wait", stops |-> <<>>]]
    /\ UNCHANGED <<unit, inside, lock, reading, recovery, changed, record, left>>

----------------------------------------------------------------------------
HandoverInit ==
    \E w \in Worlds : \E x \in w.first :
        /\ unit = [y \in Shows |-> IF y = x THEN "On" ELSE "Off"]
        /\ record = IF x = "Bridge" THEN "ScreenBridge" ELSE "MediaBox"
        /\ mode = IF x = "Kodi" THEN "KodiPlayback" ELSE "Ui"
        /\ left = [b \in Budgets |-> w[b]]
        /\ task = [t \in Tasks |-> NoTask] /\ inside = {} /\ lock = None
        /\ recovery = None /\ changed = [pc |-> "Away", owner |-> None]
        /\ reading = FALSE /\ up = "Up"

Step(t) == \/ Begin(t) \/ Claim(t) \/ Refused(t) \/ Stop(t) \/ Stopped(t) \/ AllStopped(t)
           \/ Start(t) \/ End(t) \/ After(t) \/ StartBridge(t)

HandoverNext ==
    \/ \E t \in Tasks : Step(t)
    \/ \E r \in Requests : AskRestart(r) \/ Restarted(r)
    \/ \E r \in Requests, kind \in {"Switch", "Launch", "Open", "Owner"} :
          \E to \in Targets(kind) : Ask(r, kind, to)
    \/ \E x \in Shows : Gone(x)
    \/ KodiEnds \/ KodiReturns \/ Guard \/ Recover
    \/ Replug \/ ChangedLocks \/ ChangedLooks \/ ChangedStarts
    \/ Observe \/ Observed \/ DaemonDies \/ DaemonStarts

HandoverSpec == HandoverInit /\ [][HandoverNext]_vars

\* systemd finishes what it was told and restarts what it must; the daemon's
\* tasks and the scripts run on; and whoever tries the lock again and again
\* gets it between the observer's reads, milliseconds every few seconds.
Progress ==
    \/ \E t \in Tasks : \/ Begin(t) \/ Stop(t) \/ Stopped(t) \/ AllStopped(t) \/ Start(t)
                       \/ End(t) \/ After(t) \/ StartBridge(t)
    \/ \E r \in Requests : Restarted(r)
    \/ \E x \in Shows : Gone(x)
    \/ KodiReturns \/ Guard \/ Recover \/ ChangedLooks \/ ChangedStarts \/ DaemonStarts
HandoverFairness ==
    /\ WF_vars(Progress) /\ WF_vars(Observed)
    /\ SF_vars(\E t \in Tasks : Claim(t)) /\ SF_vars(ChangedLocks)
FairHandover == HandoverSpec /\ HandoverFairness

----------------------------------------------------------------------------
(* Properties.                                                                *)

\* The tasks, units and scripts are where the code can have them.
UnitTypeOK == unit \in [Shows -> {"Off", "On", "Ending", "Restarting"} \cup Posting]
Steps == {"Free", "Wait", "Claim", "Stops", "Stopping", "Start", "Held", "After",
          "Bridge", "Restarts", "Done", "Refused"}
Task == [kind : {None, "Switch", "Launch", "Open", "Owner", "Restart"},
         to : Shows \cup {None}, stops : Seq(MediaBox),
         pc : Steps]
TaskTypeOK == task \in [Tasks -> Task]
GateTypeOK ==
    /\ inside = {} \/ \E t \in Tasks : inside = {t}
    /\ lock \in {None, "Daemon", "Changed"} /\ reading \in BOOLEAN
    /\ lock = "Daemon" => inside # {}
RestTypeOK ==
    /\ recovery \in {None, "Queued", "Asked"}
    /\ changed \in [pc : {"Away", "Lock", "Look", "Stop"}, owner : MediaBox \cup {None}]
    /\ record \in {"MediaBox", "ScreenBridge"} /\ mode \in {"Ui", "KodiPlayback"}
    /\ up \in {"Up", "Down", "Again"} /\ left \in [Budgets -> Nat]
HandoverTypeOK == UnitTypeOK /\ TaskTypeOK /\ GateTypeOK /\ RestTypeOK

Shown    == {x \in Shows : unit[x] = "On"}
Holds(x) == unit[x] \in {"On", "Ending"}

\* Not every change of hands has the gate all through: KodiRestart, the start of
\* screenbridge and systemd's restart of a Kodi that crashed ask nobody, and a
\* daemon that died left the unit it was stopping to systemd.
PastTheGate == \/ left["returns"] = 0 \/ up # "Up"
               \/ \E r \in Requests : task[r].kind = "Restart" \/ task[r].to = "Bridge"

\* "Kodi and the TV-local product UI both want DRM master, so exactly one of
\* them may run": whatever ends, dies, is plugged in or is asked for meanwhile.
KodiUiApart == PastTheGate \/ ~(Holds("Kodi") /\ Holds("Ui"))

\* A handover that ends has put on what it was asked for: no other one, and no
\* recovery, has taken it away again while this one was under way.  (Kodi may
\* have ended by itself.)
HandoverLands ==
    [][\A t \in Tasks : At(t, "Held") /\ task'[t].pc \in {"After", "Done"} /\ ~PastTheGate
          => IF task[t].to = None THEN Shown \cap {"Ui", "Kodi"} = {}
             ELSE \/ unit[task[t].to] = "On"
                  \/ task[t].to = "Kodi" /\ ~Holds("Kodi")]_vars

\* The guard brings the interface back for a Kodi that ended, and never for one
\* that a handover, or the recovery of a new display, has stopped.
RecoveryOnlyWhenEnded ==
    [][recovery = None /\ recovery' = "Queued" /\ ~PastTheGate
          => unit["Kodi"] \in {"Ended", "Crashed"}]_vars

\* Nobody leaves the television to a blank console: when Kodi is gone and no
\* transition runs, something is shown again, unless an empty television was
\* asked for or a unit has refused to start.
KodiGone == unit["Kodi"] \in Posting /\ lock = None
Excused  == left["refusals"] = 0 \/ \E r \in Requests :
    At(r, "Refused") \/ (task[r].kind # None /\ task[r].to \in {None, "Bridge"})
NeverBlank == KodiGone ~> (Shown # {} \/ Excused)

\* Every handover ends: nothing that a stop waits for waits for the lock.
AllEnd == \A r \in Requests : At(r, "Wait") ~> (At(r, "Done") \/ At(r, "Refused"))

\* "Losing the race in the other direction is harmless rather than merely
\* unlikely" (mediabox-display-recover): what the recovery asks for takes the
\* television from nobody.
RecoveryIsHarmless ==
    [][\A x \in MediaBox : unit[x] = "On" /\ unit'[x] = "Ending" => "Recovery" \notin inside]_vars
=============================================================================
