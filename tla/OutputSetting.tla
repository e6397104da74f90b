--------------------------- MODULE OutputSetting ---------------------------
(* The display setting kept by the control plane: mediaboxd-rs/src/output.rs. *)
(* One record is kept on disk for the sink it was chosen on.  A new setting   *)
(* is on trial until the viewer keeps it; a film may move the refresh for its *)
(* own length.  Every public method takes the state's lock once, so it is one *)
(* action; what it sends on the event stream is `sent`, and what it leaves on *)
(* disk survives a crash.  Reports, requests and film ends come in any order. *)
(* A "choice" stands for a resolution and the colour chosen at it.            *)
CONSTANTS
    Sinks,        \* EDID identities of the displays that may be plugged in
    Modes,        \* timings, by their key
    Films,        \* the player's numbers for films
    Cadences,     \* frame rates a film may have
    TrialIds,     \* ids of trials; drawn at random, never one still alive
    Automatic,    \* the choice "let the offer decide"
    Legacy,       \* a record on disk in the form written before schema 2
    None,
    Offers,       \* Offers[sink]: the modes the sink lists and can be sent
    Preferred,    \* Preferred[sink]: what Automatic resolves to
    Fit,          \* Fit[cadence, mode]: the refresh a film is matched to
    Migrated      \* Migrated[sink]: the choice a legacy record becomes

Choices == Modes \cup {Automatic}
Setting == [sink : Sinks, choice : Choices]

Snapshot == {snap \in [sink : Sinks \cup {None}, offer : BOOLEAN] :
                snap.offer => snap.sink # None}
Journal  == [id : TrialIds, sink : Sinks, setting : Setting, previous : Setting]
Trial    == [journal : Journal, applied : BOOLEAN]
Content  == [film : Films, sink : Sinks, cadence : Cadences,
             matched : Modes \cup {None}, setting : Setting, applied : BOOLEAN]

ASSUME OffersAssumption ==
    /\ Offers \in [Sinks -> SUBSET Modes]
    /\ \A sink \in Sinks : Preferred[sink] \in Offers[sink]
    /\ Preferred \in [Sinks -> Modes]
    /\ Migrated \in [Sinks -> Choices]
    /\ Fit \in [Cadences \X Modes -> Modes \cup {None}]
ASSUME NoneAssumption ==
    /\ None \notin Sinks /\ None \notin TrialIds
    /\ Automatic \notin Modes /\ Legacy # None
    /\ \A setting \in Setting : setting # None /\ setting # Legacy
    /\ None \notin Snapshot /\ None \notin Journal /\ None \notin Trial /\ None \notin Content
    /\ None \notin [setting : Setting, shown : BOOLEAN]

VARIABLES
    published,    \* the observer's snapshot: None, or its sink and offer
    followed,     \* the snapshot held is of the generation published
    up,           \* the daemon runs
    out,          \* output.json, the journal, the plan and struct State
    timers,       \* trials whose fifteen seconds are running
    sent          \* what the last operation put on the event stream, or asked for

vars == <<published, followed, up, out, timers, sent>>

Unbound  == [sink |-> None, choice |-> Automatic]

OutputState == [
    stored   : Setting \cup {None, Legacy},     \* output.json
    journal  : Journal \cup {None},             \* output-trial.json
    plan     : Setting \cup {None},             \* what Kodi starts from
    snapshot : Snapshot \cup {None},
    kept     : Setting \cup {Unbound},
    trial    : Trial \cup {None},
    content  : Content \cup {None},
    matching : BOOLEAN,
    handover : BOOLEAN]

----------------------------------------------------------------------------
(* The offer's policy, mediabox-core/src/output.rs.                           *)

Resolve(sink, choice) == IF choice \in Offers[sink] THEN choice ELSE Preferred[sink]

ForSink(setting, sink) ==
    IF setting.sink = sink THEN setting ELSE [sink |-> sink, choice |-> Automatic]

ForOffer(stored, sink) ==
    CASE stored = None   -> [sink |-> sink, choice |-> Automatic]
      [] stored = Legacy -> [sink |-> sink, choice |-> Migrated[sink]]
      [] OTHER           -> ForSink(stored, sink)

ContentMode(sink, setting, cadence) ==
    LET mode == Fit[cadence, Resolve(sink, setting.choice)]
    IN  IF mode \in Offers[sink] THEN mode ELSE None

----------------------------------------------------------------------------
(* What goes out on the event stream.                                         *)

Apply(sink, setting, trial) ==
    [type |-> "Apply", sink |-> sink, setting |-> setting, trial |-> trial]
Reverted(id) == [type |-> "Reverted", trial |-> id]
KeptEvent(id) == [type |-> "Kept", trial |-> id]
Changed == [type |-> "Changed"]
Recover == [type |-> "Recover"]     \* mediabox-display-changed, started by name

TakenBack(trial) ==
    {Apply(trial.journal.sink, trial.journal.previous, None), Reverted(trial.journal.id)}

TakeTrialBackJournalStays(s) ==          \* mutant: remove_file forgotten
    IF s.trial = None THEN s ELSE [s EXCEPT !.trial = None]
TakeTrialBack(s) ==
    IF s.trial = None THEN s ELSE [s EXCEPT !.trial = None, !.journal = None]

----------------------------------------------------------------------------
(* Following the observer's snapshot: the first thing most handlers do.       *)

HasOffer(s) == s.snapshot # None /\ s.snapshot.offer

UpToDate == out.snapshot # None /\ followed

SinkChanged == /\ published # None /\ ~UpToDate
               /\ out.snapshot # None
               /\ published.sink # out.snapshot.sink

\* The record as it applies to the sink seen; one that moves is written down,
\* unless the disk refuses (`ok`).
ResolveKept(s, ok) ==
    IF ~HasOffer(s) THEN s
    ELSE LET kept  == ForOffer(s.stored, s.snapshot.sink)
             moved == s.stored = Legacy \/ (s.stored # None /\ s.stored # kept)
         IN  [s EXCEPT !.kept = kept, !.stored = IF moved /\ ok THEN kept ELSE @]

WritePlanOldStays(s) ==                  \* mutant: no plan is not a removed plan
    [s EXCEPT !.plan = IF HasOffer(s) THEN s.kept ELSE @]
WritePlanNoOffer(s) ==                   \* mutant: written before the mode list is read
    [s EXCEPT !.plan = IF s.snapshot # None THEN s.kept ELSE None]
WritePlan(s) == [s EXCEPT !.plan = IF HasOffer(s) THEN s.kept ELSE None]

\* A trial and a match belong to the sink and the owner they were made for.
LetGo(s) == [TakeTrialBack(s) EXCEPT !.content = None]

Follow(ok) ==
    CASE published = None -> WritePlan([out EXCEPT !.snapshot = None])
      [] published # None /\ UpToDate -> out
      [] OTHER -> WritePlan(ResolveKept(
            [(IF SinkChanged THEN LetGo(out) ELSE out) EXCEPT !.snapshot = published], ok))

FollowEvents ==
    IF published = None \/ UpToDate THEN {}
    ELSE {Changed} \cup (IF SinkChanged /\ out.trial # None THEN TakenBack(out.trial) ELSE {})

Recovery == IF SinkChanged THEN {Recover} ELSE {}

\* The rest of what following changes, whatever the handler then decides.
Followed == /\ followed' = (published # None)
            /\ UNCHANGED <<published, up>>

Reconcile(ok) ==
    /\ up
    /\ out'  = Follow(ok)
    /\ sent' = Recovery \cup FollowEvents
    /\ Followed
    /\ UNCHANGED timers

----------------------------------------------------------------------------
(* A film's frame rate on the wire.                                           *)

MatchRefusedNever(s) == ~HasOffer(s)     \* mutant: matched under a trial
MatchRefused(s) == s.trial # None \/ ~HasOffer(s)

OnWire(s) == IF s.content = None THEN s.kept ELSE s.content.setting

Matched(s, film, cadence) ==
    LET sink    == s.snapshot.sink
        matched == ContentMode(sink, s.kept, cadence)
        changes == /\ s.matching
                   /\ matched # None
                   /\ matched # Resolve(sink, s.kept.choice)
        setting == [sink |-> sink, choice |-> IF changes THEN matched ELSE s.kept.choice]
    IN  [film |-> film, sink |-> sink, cadence |-> cadence, matched |-> matched,
         setting |-> setting,
         applied |-> ~changes \/ OnWire(s) = setting]

MatchFilm(s, film, cadence) ==
    IF MatchRefused(s) THEN [s EXCEPT !.handover = FALSE]
    ELSE [s EXCEPT !.handover = FALSE, !.content = Matched(s, film, cadence)]

\* Nothing when the match is refused: the answer is then an error, and the
\* events gathered so far are dropped with it.
MatchEvents(s, film, cadence, before) ==
    IF MatchRefused(s) THEN {}
    ELSE LET content == Matched(s, film, cadence)
         IN  before \cup {Changed} \cup
             (IF OnWire(s) # content.setting
              THEN {Apply(content.sink, content.setting, None)} ELSE {})

ContentStart(film, cadence, ok) ==
    /\ up
    /\ LET s == Follow(ok) IN
        /\ out'  = MatchFilm(s, film, cadence)
        /\ sent' = Recovery \cup MatchEvents(s, film, cadence, FollowEvents)
    /\ Followed
    /\ UNCHANGED timers

SetMatching(enabled) ==
    /\ up
    /\ LET s == [out EXCEPT !.matching = enabled] IN
        IF s.content = None
        THEN out' = s /\ sent' = {Changed}
        ELSE /\ out'  = MatchFilm(s, s.content.film, s.content.cadence)
             /\ sent' = MatchEvents(s, s.content.film, s.content.cadence, {})
    /\ UNCHANGED <<published, followed, up, timers>>

ContentGone(s) == [s EXCEPT !.content = None]

ContentGoneEvents(s) ==
    {Changed} \cup
    (IF /\ s.content.setting # s.kept
        /\ s.trial = None
        /\ s.snapshot # None /\ s.snapshot.sink = s.content.sink
     THEN {Apply(s.content.sink, s.kept, None)} ELSE {})

ContentEnd(film) ==
    /\ up
    /\ out.content # None /\ out.content.film = film
    /\ ~out.handover
    /\ out'  = ContentGone(out)
    /\ sent' = ContentGoneEvents(out)
    /\ UNCHANGED <<published, followed, up, timers>>

ContentHandover ==
    /\ up
    /\ out' = [out EXCEPT !.handover = TRUE]
    /\ sent' = {}
    /\ UNCHANGED <<published, followed, up, timers>>

ContentHandoverFailed ==
    /\ up
    /\ out.handover
    /\ LET s == [out EXCEPT !.handover = FALSE] IN
        IF s.content = None
        THEN out' = s /\ sent' = {}
        ELSE out' = ContentGone(s) /\ sent' = ContentGoneEvents(s)
    /\ UNCHANGED <<published, followed, up, timers>>

----------------------------------------------------------------------------
(* The trial: journalled, sent, and kept only when the owner committed it.    *)

LiveIds == timers \cup {out.trial.journal.id : t \in {out.trial} \ {None}}
                  \cup {out.journal.id : j \in {out.journal} \ {None}}

TryRefused(s, choice) ==
    \/ ~HasOffer(s)
    \/ choice # Automatic /\ choice \notin Offers[s.snapshot.sink]

NewJournalFromDisk(s, id, choice) ==     \* mutant: previous read from output.json
    [id |-> id, sink |-> s.snapshot.sink,
     previous |-> IF s.stored \in Setting THEN s.stored ELSE s.kept,
     setting |-> [sink |-> s.snapshot.sink, choice |-> choice]]
NewJournal(s, id, choice) ==
    [id |-> id, sink |-> s.snapshot.sink, previous |-> s.kept,
     setting |-> [sink |-> s.snapshot.sink, choice |-> choice]]

StartTimerOnce(id) ==                    \* mutant: one task, armed by the first trial
    IF timers = {} THEN {id} ELSE timers
StartTimer(id) == timers \cup {id}

TrySetting(id, choice, ok) ==
    /\ up
    /\ id \notin LiveIds
    /\ LET s == Follow(ok) IN
        IF TryRefused(s, choice)
        THEN out' = s /\ sent' = Recovery /\ UNCHANGED timers
        ELSE LET journal == NewJournal(s, id, choice) IN
             IF ~ok      \* the journal cannot be written: nothing is sent
             THEN out' = [s EXCEPT !.content = None] /\ sent' = Recovery /\ UNCHANGED timers
             ELSE /\ out' = [s EXCEPT !.content = None, !.journal = journal,
                                      !.trial = [journal |-> journal, applied |-> FALSE]]
                  /\ sent' = Recovery \cup FollowEvents \cup {Apply(journal.sink, journal.setting, id)}
                  /\ timers' = StartTimer(id)
    /\ Followed

KeepRefusedBlind(s, id) ==               \* mutant: kept before the owner committed it
    \/ s.trial = None
    \/ s.trial.journal.id # id
    \/ s.snapshot = None \/ s.snapshot.sink # s.trial.journal.sink
KeepRefused(s, id) ==
    \/ s.trial = None
    \/ s.trial.journal.id # id
    \/ s.snapshot = None \/ s.snapshot.sink # s.trial.journal.sink
    \/ ~s.trial.applied

\* The setting is written, then the journal goes.
Keep(id, ok) ==
    /\ up
    /\ LET s == Follow(ok) IN
        IF KeepRefused(s, id) \/ ~ok
        THEN out' = s /\ sent' = Recovery
        ELSE LET setting == s.trial.journal.setting IN
             /\ out' = WritePlan([s EXCEPT !.stored = setting, !.journal = None,
                                           !.trial = None, !.kept = setting])
             /\ sent' = Recovery \cup FollowEvents \cup {KeptEvent(id)}
    /\ Followed
    /\ UNCHANGED timers

EndTrial(id) == /\ out.trial # None /\ out.trial.journal.id = id
                /\ out'  = TakeTrialBack(out)
                /\ sent' = TakenBack(out.trial)

Revert(id) ==
    /\ up
    /\ EndTrial(id)
    /\ UNCHANGED <<published, followed, up, timers>>

TimeUp(id) ==
    /\ up
    /\ id \in timers
    /\ timers' = timers \ {id}
    /\ \/ EndTrial(id)
       \/ /\ ~(out.trial # None /\ out.trial.journal.id = id)
          /\ UNCHANGED out /\ sent' = {}
    /\ UNCHANGED <<published, followed, up>>

OwnerChanging ==
    /\ up
    /\ out'  = LetGo(out)
    /\ sent' = IF out.trial = None THEN {} ELSE TakenBack(out.trial)
    /\ UNCHANGED <<published, followed, up, timers>>

----------------------------------------------------------------------------
(* What the owner of the display reports.                                     *)

\* The owner answers an Apply only for the display it drives, and passes the
\* trial of the Apply on: a report never names a trial of another display
\* (mediabox-tv/src/main.rs, output_event and follow_output).
OwnTrial(sink, trial) ==
    out.trial # None /\ out.trial.journal.id = trial => out.trial.journal.sink = sink

ReportRefused(s, sink) == s.snapshot = None \/ s.snapshot.sink # sink

TrialAsAskedAnyReport(s, sink, trial, mode) ==   \* mutant: the mode alone confirms it
    /\ s.trial # None
    /\ HasOffer(s)
    /\ mode = Resolve(sink, s.trial.journal.setting.choice)

\* The trial after a report: committed as asked, ended, or untouched.
TrialAsAsked(s, sink, trial, mode) ==
    /\ s.trial # None /\ trial = s.trial.journal.id
    /\ HasOffer(s)
    /\ mode = Resolve(sink, s.trial.journal.setting.choice)
TrialEndedBy(s, sink, trial, mode) ==
    /\ s.trial # None
    /\ \/ trial = None
       \/ trial = s.trial.journal.id /\ ~TrialAsAsked(s, sink, trial, mode)

TrialAfter(s, sink, trial, mode) ==
    IF TrialAsAsked(s, sink, trial, mode) THEN [s EXCEPT !.trial.applied = TRUE]
    ELSE IF TrialEndedBy(s, sink, trial, mode) THEN TakeTrialBack(s)
    ELSE s

ContentAfter(s, sink, trial, mode) ==
    IF /\ trial = None /\ s.content # None
       /\ s.content.sink = sink /\ s.content.matched = mode
    THEN [s EXCEPT !.content.applied = TRUE]
    ELSE s

AfterApplied(s, sink, trial, mode) ==
    ContentAfter(TrialAfter(s, sink, trial, mode), sink, trial, mode)

ReportApplied(sink, trial, mode, ok) ==
    /\ up /\ OwnTrial(sink, trial)
    /\ LET s == Follow(ok) IN
        IF ReportRefused(s, sink) \/ (HasOffer(s) /\ mode \notin Offers[sink])
        THEN out' = s /\ sent' = Recovery
        ELSE /\ out' = AfterApplied(s, sink, trial, mode)
             /\ sent' = Recovery \cup FollowEvents \cup {Changed} \cup
                        (IF TrialEndedBy(s, sink, trial, mode) THEN TakenBack(s.trial) ELSE {})
    /\ Followed
    /\ UNCHANGED timers

ReportFailed(sink, trial, ok) ==
    /\ up /\ OwnTrial(sink, trial)
    /\ LET s == Follow(ok) IN
        IF ReportRefused(s, sink)
        THEN out' = s /\ sent' = Recovery
        ELSE LET ended == s.trial # None /\ trial = s.trial.journal.id IN
             /\ out' = IF ended THEN TakeTrialBack(s) ELSE s
             /\ sent' = Recovery \cup FollowEvents \cup {Changed} \cup
                        (IF ended THEN TakenBack(s.trial) ELSE {})
    /\ Followed
    /\ UNCHANGED timers

----------------------------------------------------------------------------
(* Crash and restart.  The runtime directory, and the plan in it, goes with   *)
(* the service; the setting, the journal and the matching switch are on disk. *)

Down(s) == [s EXCEPT !.plan = None, !.snapshot = None, !.kept = Unbound, !.trial = None,
                     !.content = None, !.handover = FALSE]

Crashed(s) == /\ out' = Down(s)
              /\ up' = FALSE
              /\ followed' = FALSE
              /\ timers' = {}
              /\ sent' = {}
              /\ UNCHANGED <<published>>

Crash == up /\ Crashed(out)

\* Between the journal and the event that sends the setting.  (What following
\* the snapshot did before is a Reconcile of its own.)
CrashInTry(id, choice) ==
    /\ up /\ UpToDate
    /\ id \notin LiveIds
    /\ ~TryRefused(out, choice)
    /\ Crashed([out EXCEPT !.journal = NewJournal(out, id, choice)])

\* Between writing the setting and removing the journal.
CrashInKeep(id) ==
    /\ up /\ UpToDate
    /\ ~KeepRefused(out, id)
    /\ Crashed([out EXCEPT !.stored = out.trial.journal.setting])

Restart ==
    /\ ~up
    /\ up' = TRUE
    /\ out' = [out EXCEPT !.journal = None]
    /\ sent' = {}
    /\ UNCHANGED <<published, followed, timers>>

----------------------------------------------------------------------------
(* The environment: the observer's publications.                              *)

Publish(snap) ==
    /\ snap # published
    /\ published' = snap
    /\ followed' = FALSE
    /\ sent' = {}
    /\ UNCHANGED <<up, out, timers>>

----------------------------------------------------------------------------
Init ==
    /\ published \in Snapshot \cup {None}
    /\ followed = FALSE
    /\ up = TRUE
    /\ \E stored \in Setting \cup {None, Legacy}, matching \in BOOLEAN :
        out = [stored |-> stored, journal |-> None, plan |-> None, snapshot |-> None,
               kept |-> Unbound, trial |-> None, content |-> None,
               matching |-> matching, handover |-> FALSE]
    /\ timers = {}
    /\ sent = {}

ContentStep ==
    \/ \E film \in Films, cadence \in Cadences, ok \in BOOLEAN : ContentStart(film, cadence, ok)
    \/ \E enabled \in BOOLEAN : SetMatching(enabled)
    \/ \E film \in Films : ContentEnd(film)
    \/ ContentHandover
    \/ ContentHandoverFailed

TrialStep ==
    \/ \E id \in TrialIds, choice \in Choices, ok \in BOOLEAN : TrySetting(id, choice, ok)
    \/ \E id \in TrialIds, ok \in BOOLEAN : Keep(id, ok)
    \/ \E id \in TrialIds : Revert(id)
    \/ \E id \in TrialIds : TimeUp(id)

OwnerStep ==
    \/ OwnerChanging
    \/ \E sink \in Sinks, trial \in TrialIds \cup {None}, mode \in Modes, ok \in BOOLEAN :
            ReportApplied(sink, trial, mode, ok)
    \/ \E sink \in Sinks, trial \in TrialIds \cup {None}, ok \in BOOLEAN :
            ReportFailed(sink, trial, ok)

CrashStep ==
    \/ Crash
    \/ \E id \in TrialIds, choice \in Choices : CrashInTry(id, choice)
    \/ \E id \in TrialIds : CrashInKeep(id)
    \/ Restart

Next ==
    \/ \E ok \in BOOLEAN : Reconcile(ok)
    \/ ContentStep
    \/ TrialStep
    \/ OwnerStep
    \/ CrashStep
    \/ \E snap \in Snapshot \cup {None} : Publish(snap)

Spec == Init /\ [][Next]_vars

----------------------------------------------------------------------------
(* Properties.                                                                *)

\* Every value the display setting holds, on disk and in memory, is one the
\* code could have put there.
TypeOK ==
    /\ published \in Snapshot \cup {None}
    /\ followed \in BOOLEAN /\ up \in BOOLEAN
    /\ out \in OutputState
    /\ timers \subseteq TrialIds

\* A trial in force is on disk exactly as it runs, and a daemon without one
\* has none on disk: whatever ended it -- the timer, a revert, the owner, the
\* sink, a keep -- took the journal too (Output::new, try_setting, taken_back).
TrialJournalled ==
    up => out.journal = IF out.trial = None THEN None ELSE out.trial.journal

\* A trial never runs without a timer that will end it, however many were
\* started and replaced before it (try_setting's task, end_trial's id check).
TrialTimed == out.trial # None => out.trial.journal.id \in timers

\* A person's change and a film's match never claim the wire together: the
\* change ends the match, and no match starts under a change (match_film).
OneClaimOnTheWire == out.trial = None \/ out.content = None

\* Kodi and the browser start from a plan only while the daemon sees a display
\* with an offer, and then from the setting kept for that very display, also
\* right after a keep or a change of display (follow, keep, write_plan).
PlanOfTheSink ==
    out.plan # None => HasOffer(out) /\ out.plan = out.kept /\ out.kept.sink = out.snapshot.sink

\* What a trial puts on the wire, and what ending it puts back, are both for
\* the display the trial was made on -- also after the kept record moved to
\* another display and back (try_setting's `previous`, resolve_kept).
TrialBound ==
    out.trial # None =>
        /\ out.trial.journal.setting.sink = out.trial.journal.sink
        /\ out.trial.journal.previous.sink = out.trial.journal.sink

\* The promise to the viewer, with the record on disk as the record, the sink
\* of the snapshot as the display, and the trial as the proposal.
Record == INSTANCE DisplayRecord WITH
    Settings <- Setting,
    Rebound  <- ForOffer,
    record   <- out.stored,
    sink     <- IF out.snapshot = None THEN None ELSE out.snapshot.sink,
    proposal <- IF out.trial = None THEN None
                ELSE [setting |-> out.trial.journal.setting, shown |-> out.trial.applied]
KeepsItsPromise == Record!Spec
=============================================================================
