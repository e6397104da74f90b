---------------------------- MODULE DisplayOwner ----------------------------
(* The display setting together with the interface that owns the display:    *)
(* mediabox-tv (main.rs, platform.rs) hears of a setting on the event stream  *)
(* or in a status answer, commits it with its next frame and reports what it  *)
(* committed.  Every report and every request is a task of its own, so they   *)
(* arrive in any order; events sent by two operations may cross, because they *)
(* are sent after the lock is let go.  One display, always plugged in.        *)
EXTENDS OutputSetting, Naturals

CONSTANTS Display,        \* the display plugged in
          Asked,          \* choices a trial is asked for
          Refused,        \* modes the kernel does not take, where there is trouble
          MaxRequests     \* bound on what happens from outside

ASSUME OwnerAssumption ==
    /\ Display \in Sinks /\ Asked \subseteq Choices /\ Refused \subseteq Modes
    /\ Preferred[Display] \notin Refused
    /\ MaxRequests \in Nat
    /\ None \notin [setting : Setting, trial : TrialIds \cup {None}]

VARIABLES
    tv,         \* None, or what the interface drives: ON_WIRE, as last reported
    wanted,     \* OUTPUT_WANTED: None, or what to put on the wire next
    connected,  \* the interface holds the event stream
    channel,    \* events on their way to it
    asked,      \* a status request is on its way
    answers,    \* status answers on their way
    reports,    \* owner reports on their way
    leaving,    \* a transition has begun that stops the interface
    trying,     \* a trial asked for that has passed the surface check
    committed,  \* trials the interface has had on the wire (history)
    troubled,   \* whether modes may be refused, and a trial's journal not be written
    requests    \* what has happened from outside so far

ownerVars == <<tv, wanted, connected, channel, asked, answers, reports, leaving, trying,
               committed, troubled, requests>>
history == <<committed, troubled>>
allVars == <<vars, ownerVars>>

OnTheWire == [setting : Setting, trial : TrialIds \cup {None}]
Reports == [type : {"Applied"}, trial : TrialIds \cup {None}, mode : Modes]
           \cup [type : {"Failed"}, trial : TrialIds \cup {None}]

----------------------------------------------------------------------------
\* What a status answer says is in force: a trial first, then a film's match,
\* then what is kept.  (The answer names the display, so without one there is
\* nothing to follow.)
InForce(s) ==
    IF s.trial # None THEN [setting |-> s.trial.journal.setting, trial |-> s.trial.journal.id]
    ELSE IF s.content # None THEN [setting |-> s.content.setting, trial |-> None]
    ELSE [setting |-> s.kept, trial |-> None]

Mode(w) == Resolve(Display, w.setting.choice)

AppliedReportAsked(w) ==                 \* mutant: what was asked, not the mode set
    [type |-> "Applied", trial |-> w.trial, mode |-> w.setting.choice]
AppliedReport(w) == [type |-> "Applied", trial |-> w.trial, mode |-> Mode(w)]
FailedReport(w)  == [type |-> "Failed", trial |-> w.trial]

\* What an operation of the daemon sends goes to an interface that listens.
Emit == channel' = IF connected THEN channel \cup (sent' \ {Recover}) ELSE {}

Budget == /\ requests < MaxRequests
          /\ requests' = requests + 1

\* Trial ids are 53 random bits: one that anything still carries is not drawn.
Carried == committed \cup {w.trial : w \in answers} \cup {r.trial : r \in reports}
           \cup {m.trial : m \in {e \in channel : e.type # "Changed"}}
           \cup {w.trial : w \in {tv, wanted} \ {None}}

----------------------------------------------------------------------------
(* Requests, and what happens to the processes.                               *)

\* OutputTry asks systemd who holds the display and awaits the answer...
AskForTrial(choice) ==
    /\ Budget
    /\ up /\ tv # None /\ trying = None
    /\ trying' = choice
    /\ sent' = {}
    /\ UNCHANGED <<published, followed, up, out, timers>>
    /\ UNCHANGED <<tv, wanted, connected, channel, asked, answers, reports, leaving, history>>

\* ... and the trial is made after it, whoever holds the display by then.
MakeTrial(id, ok) ==
    /\ trying # None
    /\ id \notin Carried
    /\ ok \/ troubled
    /\ TrySetting(id, trying, ok)
    /\ trying' = None
    /\ Emit
    /\ UNCHANGED <<tv, wanted, connected, asked, answers, reports, leaving, history, requests>>

Decide ==
    /\ Budget
    /\ \E id \in TrialIds : Keep(id, TRUE) \/ Revert(id)
    /\ Emit
    /\ UNCHANGED <<tv, wanted, connected, asked, answers, reports, leaving, trying, history>>

PlayFilm ==
    /\ Budget
    /\ \/ \E film \in Films, cadence \in Cadences : ContentStart(film, cadence, TRUE)
       \/ \E film \in Films : ContentEnd(film)
    /\ Emit
    /\ UNCHANGED <<tv, wanted, connected, asked, answers, reports, leaving, trying, history>>

TransitionBegins ==
    /\ Budget
    /\ tv # None /\ ~leaving
    /\ OwnerChanging
    /\ leaving' = TRUE
    /\ Emit
    /\ UNCHANGED <<tv, wanted, connected, asked, answers, reports, trying, history>>

\* The interface is gone, and what was on its way to it with it.
TvGone ==
    /\ tv' = None /\ wanted' = None
    /\ connected' = FALSE /\ channel' = {} /\ answers' = {} /\ asked' = FALSE
    /\ sent' = {}
    /\ UNCHANGED <<published, followed, up, out, timers, reports, trying, history>>

TvStops   == leaving /\ TvGone /\ leaving' = FALSE /\ UNCHANGED requests
TvCrashes == Budget /\ tv # None /\ TvGone /\ UNCHANGED leaving

\* A new interface starts from output.json and reports its first frame.
TvStarts ==
    /\ tv = None /\ ~leaving
    /\ tv' = [setting |-> ForOffer(out.stored, Display), trial |-> None]
    /\ reports' = reports \cup {AppliedReport(tv')}
    /\ sent' = {}
    /\ UNCHANGED <<published, followed, up, out, timers>>
    /\ UNCHANGED <<wanted, connected, channel, asked, answers, leaving, trying, history, requests>>

DaemonCrashes ==
    /\ Budget
    /\ Crash
    /\ connected' = FALSE /\ channel' = {} /\ asked' = FALSE /\ trying' = None
    /\ UNCHANGED <<tv, wanted, answers, reports, leaving, history>>

DaemonRestarts == Restart /\ UNCHANGED ownerVars

----------------------------------------------------------------------------
(* The interface.                                                             *)

\* Connected: the daemon is told again what is on the wire.
Connect ==
    /\ up /\ tv # None /\ ~connected
    /\ connected' = TRUE
    /\ reports' = reports \cup {AppliedReport(tv)}
    /\ sent' = {}
    /\ UNCHANGED <<published, followed, up, out, timers>>
    /\ UNCHANGED <<tv, wanted, channel, asked, answers, leaving, trying, history, requests>>

HearAppliesOnly(event) ==                \* mutant: a lost Apply is never made up for
    /\ event \in channel
    /\ channel' = channel \ {event}
    /\ wanted' = IF event.type = "Apply" /\ event.sink = Display
                 THEN [setting |-> event.setting, trial |-> event.trial] ELSE wanted
    /\ sent' = {}
    /\ UNCHANGED <<published, followed, up, out, timers>>
    /\ UNCHANGED <<tv, connected, asked, answers, reports, leaving, trying, history, requests>>

\* An Apply is for the next pass of the loop; everything else is a reason to
\* ask for the status.
Hear(event) ==
    /\ event \in channel
    /\ channel' = channel \ {event}
    /\ IF event.type = "Apply"
       THEN /\ wanted' = IF event.sink = Display
                         THEN [setting |-> event.setting, trial |-> event.trial] ELSE wanted
            /\ UNCHANGED asked
       ELSE asked' = TRUE /\ UNCHANGED wanted
    /\ sent' = {}
    /\ UNCHANGED <<published, followed, up, out, timers>>
    /\ UNCHANGED <<tv, connected, answers, reports, leaving, trying, history, requests>>

\* A client that lags loses the oldest events, never the last one.
LoseApply ==
    /\ \E event \in channel : event.type = "Apply" /\ channel' = channel \ {event}
    /\ \E event \in channel : event.type # "Apply"
    /\ sent' = {}
    /\ UNCHANGED <<published, followed, up, out, timers>>
    /\ UNCHANGED <<tv, wanted, connected, asked, answers, reports, leaving, trying, history,
                   requests>>

AnswerStatus ==
    /\ asked
    /\ Reconcile(TRUE)
    /\ asked' = FALSE
    /\ answers' = answers \cup (IF HasOffer(out') THEN {InForce(out')} ELSE {})
    /\ Emit
    /\ UNCHANGED <<tv, wanted, connected, reports, leaving, trying, history, requests>>

FollowOutputBlind(w) ==                  \* mutant: put on the wire whatever is there
    /\ w \in answers
    /\ answers' = answers \ {w}
    /\ wanted' = w
    /\ sent' = {}
    /\ UNCHANGED <<published, followed, up, out, timers>>
    /\ UNCHANGED <<tv, connected, channel, asked, reports, leaving, trying, history, requests>>

\* The setting in force is put on the wire when it is not what is there.
FollowOutput(w) ==
    /\ w \in answers
    /\ answers' = answers \ {w}
    /\ wanted' = IF tv # w THEN w ELSE wanted
    /\ sent' = {}
    /\ UNCHANGED <<published, followed, up, out, timers>>
    /\ UNCHANGED <<tv, connected, channel, asked, reports, leaving, trying, history, requests>>

Takes(w) == Mode(w) = Mode(tv) \/ ~troubled \/ Mode(w) \notin Refused

\* One atomic commit with the next frame; a mode the kernel will not take
\* changes nothing, and both are reported.
SwitchOutput ==
    /\ tv # None /\ wanted # None
    /\ wanted' = None
    /\ IF Takes(wanted)
       THEN /\ tv' = wanted
            /\ reports' = reports \cup {AppliedReport(wanted)}
            /\ committed' = committed \cup ({wanted.trial} \ {None})
       ELSE /\ reports' = reports \cup {FailedReport(wanted), AppliedReport(tv)}
            /\ UNCHANGED <<tv, history>>
    /\ sent' = {}
    /\ UNCHANGED <<published, followed, up, out, timers>>
    /\ UNCHANGED <<connected, channel, asked, answers, leaving, trying, troubled, requests>>

\* A report reaches the daemon, or is lost with it.
ReportArrives(report) ==
    /\ report \in reports
    /\ reports' = reports \ {report}
    /\ \/ /\ report.type = "Applied"
          /\ ReportApplied(Display, report.trial, report.mode, TRUE)
       \/ /\ report.type = "Failed"
          /\ ReportFailed(Display, report.trial, TRUE)
       \/ /\ ~up
          /\ sent' = {}
          /\ UNCHANGED <<published, followed, up, out, timers>>
    /\ Emit
    /\ UNCHANGED <<tv, wanted, connected, asked, answers, leaving, trying, history, requests>>

TrialTimesOut(id) ==
    /\ TimeUp(id)
    /\ Emit
    /\ UNCHANGED <<tv, wanted, connected, asked, answers, reports, leaving, trying, history,
                   requests>>

----------------------------------------------------------------------------
OwnerInit ==
    /\ Init
    /\ published = [sink |-> Display, offer |-> TRUE]
    /\ out.stored = None /\ out.matching
    /\ tv = None /\ wanted = None
    /\ connected = FALSE /\ channel = {}
    /\ asked = FALSE /\ answers = {} /\ reports = {}
    /\ leaving = FALSE /\ trying = None
    /\ committed = {} /\ troubled \in BOOLEAN
    /\ requests = 0

FromOutside ==
    \/ \E choice \in Asked : AskForTrial(choice)
    \/ Decide
    \/ PlayFilm
    \/ TransitionBegins
    \/ TvCrashes
    \/ DaemonCrashes

\* What runs by itself once it is due: the daemon's tasks and the interface's
\* event loop, its requests, and the units systemd restarts.
Progress ==
    \/ \E id \in TrialIds, ok \in BOOLEAN : MakeTrial(id, ok)
    \/ \E id \in TrialIds : TrialTimesOut(id)
    \/ TvStops \/ TvStarts \/ DaemonRestarts
    \/ Connect
    \/ \E event \in channel : Hear(event)
    \/ AnswerStatus
    \/ \E w \in answers : FollowOutput(w)
    \/ SwitchOutput
    \/ \E report \in reports : ReportArrives(report)

OwnerNext == FromOutside \/ Progress \/ LoseApply

OwnerSpec == OwnerInit /\ [][OwnerNext]_allVars

FairOwnerSpec == OwnerSpec /\ WF_allVars(Progress)

----------------------------------------------------------------------------
(* Properties.                                                                *)

OwnerTypeOK ==
    /\ tv \in OnTheWire \cup {None} /\ wanted \in OnTheWire \cup {None}
    /\ answers \subseteq OnTheWire /\ reports \subseteq Reports
    /\ trying \in Choices \cup {None} /\ committed \subseteq TrialIds
    /\ requests \in 0..MaxRequests

\* A trial counts as applied, and can be kept, only after the interface has
\* had it on the wire: a crossed, late or repeated report never confirms one
\* that was not shown (owner_report's id and mode checks).
AppliedWasShown ==
    out.trial # None /\ out.trial.applied => out.trial.journal.id \in committed

\* A setting the kernel refuses on this display is never the one kept, in
\* whatever order its failure, the last setting's report and the viewer's keep
\* arrive (keep's `applied`, owner_report).
RefusedNeverKept ==
    troubled /\ out.stored \in Setting => Resolve(Display, out.stored.choice) \notin Refused

\* Once nobody asks for anything, the wire shows what the daemon says is in
\* force -- through lost events, stale answers and restarts of either side --
\* every trial has been kept or taken back, each having a timer of its own, and
\* nothing is on its way any more.  (A film's match the kernel refuses is sent
\* with every status answer: output.rs:440.)
Agrees  == tv # None /\ tv = InForce(out)
AtRest  == channel = {} /\ answers = {} /\ reports = {} /\ ~asked /\ wanted = None
Settles == ~troubled => <>[](Agrees /\ AtRest /\ out.trial = None)
=============================================================================
