---------------------------- MODULE DisplayProofs ----------------------------
(* The safety invariants of OutputSetting, and of DisplayOwner, which is      *)
(* OutputSetting with the interface that owns the display.                    *)
EXTENDS DisplayOwner, TLAPS

----------------------------------------------------------------------------

(* The safety invariants of OutputSetting hold for every set of displays,     *)
(* modes, films and trial ids.  `Sound` is the inductive strengthening of     *)
(* the state a handler works on; each handler is a composition of operators   *)
(* that keep it, so there is one lemma per operator and one step per action.  *)
(* None of them uses OwnerAssumption.                                         *)

\* What the kept setting of a display with an offer must be for a trial's
\* `previous`, the plan and a match to be settings of that display.
KeptBound(s) == HasOffer(s) => s.kept \in Setting /\ s.kept.sink = s.snapshot.sink

PlanSound(s) == s.plan # None => HasOffer(s) /\ s.plan = s.kept

TrialSound(s) ==
    /\ s.trial = None \/ s.content = None
    /\ s.journal = IF s.trial = None THEN None ELSE s.trial.journal
    /\ s.trial # None => /\ s.trial.journal.setting.sink = s.trial.journal.sink
                         /\ s.trial.journal.previous.sink = s.trial.journal.sink

Sound(s) == s \in OutputState /\ KeptBound(s) /\ PlanSound(s) /\ TrialSound(s)

Stopped(s) == /\ s \in OutputState
              /\ s.plan = None /\ s.snapshot = None /\ s.trial = None /\ s.content = None

IInv == /\ published \in Snapshot \cup {None}
        /\ followed \in BOOLEAN /\ up \in BOOLEAN
        /\ timers \subseteq TrialIds
        /\ IF up THEN Sound(out) ELSE Stopped(out)
        /\ out.trial # None => out.trial.journal.id \in timers

----------------------------------------------------------------------------
\* A setting as it applies to a display is a setting of that display.
LEMMA ForOfferBound ==
    ASSUME NEW stored \in Setting \cup {None, Legacy}, NEW sink \in Sinks
    PROVE  ForOffer(stored, sink) \in Setting /\ ForOffer(stored, sink).sink = sink
BY OffersAssumption, NoneAssumption DEF ForOffer, ForSink, Setting, Choices

\* Resolving the kept setting binds it to the display seen, and touches only
\* the record and the kept setting.
LEMMA ResolveKeptBinds ==
    ASSUME NEW s \in OutputState, NEW ok \in BOOLEAN
    PROVE  /\ ResolveKept(s, ok) \in OutputState
           /\ KeptBound(ResolveKept(s, ok))
           /\ ResolveKept(s, ok).trial = s.trial
           /\ ResolveKept(s, ok).journal = s.journal
           /\ ResolveKept(s, ok).content = s.content
<1>1. CASE ~HasOffer(s)
  BY <1>1 DEF ResolveKept, KeptBound
<1>2. CASE HasOffer(s)
  <2>1. s.snapshot.sink \in Sinks
    BY <1>2 DEF HasOffer, OutputState, Snapshot
  <2>2. s.stored \in Setting \cup {None, Legacy}
    BY DEF OutputState
  <2> DEFINE kept == ForOffer(s.stored, s.snapshot.sink)
  <2>3. kept \in Setting /\ kept.sink = s.snapshot.sink
    BY <2>1, <2>2, ForOfferBound
  <2> HIDE DEF kept
  <2>4. \E stored \in Setting \cup {None, Legacy} :
            ResolveKept(s, ok) = [s EXCEPT !.kept = kept, !.stored = stored]
    BY <1>2, <2>2, <2>3 DEF ResolveKept, kept
  <2> QED
    BY <2>3, <2>4 DEF OutputState, KeptBound, HasOffer
<1> QED BY <1>1, <1>2

\* Writing the plan leaves one only for the display seen.
LEMMA WritePlanSound ==
    ASSUME NEW s \in OutputState, KeptBound(s)
    PROVE  /\ WritePlan(s) \in OutputState
           /\ KeptBound(WritePlan(s))
           /\ PlanSound(WritePlan(s))
           /\ WritePlan(s).trial = s.trial
           /\ WritePlan(s).journal = s.journal
           /\ WritePlan(s).content = s.content
BY DEF OutputState, KeptBound, PlanSound, HasOffer, WritePlan

\* Taking a trial back, or letting go of everything a display or an owner
\* held, keeps the state sound and starts no trial.
LEMMA TakeTrialBackSound ==
    ASSUME NEW s, Sound(s)
    PROVE  Sound(TakeTrialBack(s)) /\ TakeTrialBack(s).trial = None
BY DEF Sound, OutputState, KeptBound, PlanSound, HasOffer, TrialSound, TakeTrialBack

LEMMA LetGoSound ==
    ASSUME NEW s, Sound(s)
    PROVE  Sound(LetGo(s)) /\ LetGo(s).trial = None
<1>1. Sound(TakeTrialBack(s)) /\ TakeTrialBack(s).trial = None
  BY TakeTrialBackSound
<1> QED
  BY <1>1 DEF LetGo, Sound, OutputState, KeptBound, PlanSound, HasOffer, TrialSound

\* Following the observer keeps the state sound; it never starts a trial.
LEMMA FollowSound ==
    ASSUME Sound(out), published \in Snapshot \cup {None}, NEW ok \in BOOLEAN
    PROVE  Sound(Follow(ok)) /\ Follow(ok).trial \in {out.trial, None}
<1>1. CASE published = None
  <2> DEFINE s == [out EXCEPT !.snapshot = None]
  <2>1. s \in OutputState /\ KeptBound(s) /\ TrialSound(s) /\ s.trial = out.trial
    BY DEF Sound, OutputState, KeptBound, HasOffer, TrialSound
  <2>2. Follow(ok) = WritePlan(s)
    BY <1>1 DEF Follow
  <2> HIDE DEF s
  <2> QED
    BY <2>1, <2>2, WritePlanSound DEF Sound, TrialSound
<1>2. CASE published # None /\ UpToDate
  BY <1>2 DEF Follow
<1>3. CASE published # None /\ ~UpToDate
  <2> DEFINE r == IF SinkChanged THEN LetGo(out) ELSE out
             s == [r EXCEPT !.snapshot = published]
             k == ResolveKept(s, ok)
  <2>1. Sound(r) /\ r.trial \in {out.trial, None}
    BY LetGoSound
  <2> HIDE DEF r
  <2>2. s \in OutputState /\ TrialSound(s) /\ s.trial = r.trial
    BY <2>1, <1>3 DEF Sound, OutputState, TrialSound
  <2>3. Follow(ok) = WritePlan(k)
    BY <1>3 DEF Follow, r
  <2> HIDE DEF s
  <2>4. k \in OutputState /\ KeptBound(k) /\ TrialSound(k) /\ k.trial = r.trial
    BY <2>2, ResolveKeptBinds DEF TrialSound
  <2> HIDE DEF k
  <2> QED
    BY <2>1, <2>3, <2>4, WritePlanSound DEF Sound, TrialSound
<1> QED BY <1>1, <1>2, <1>3

\* A match is a setting of the display seen.
LEMMA MatchedIsContent ==
    ASSUME NEW s, Sound(s), HasOffer(s), NEW film \in Films, NEW cadence \in Cadences
    PROVE  Matched(s, film, cadence) \in Content
<1>1. s.snapshot.sink \in Sinks /\ s.kept \in Setting
  BY DEF Sound, KeptBound, HasOffer, OutputState, Snapshot
<1>2. ContentMode(s.snapshot.sink, s.kept, cadence) \in Modes \cup {None}
  <2> DEFINE base == Resolve(s.snapshot.sink, s.kept.choice)
             mode == Fit[cadence, base]
  <2>1. mode \in Offers[s.snapshot.sink] => mode \in Modes
    BY <1>1, OffersAssumption
  <2> HIDE DEF mode
  <2> QED BY <2>1 DEF ContentMode, mode
<1> QED BY <1>1, <1>2 DEF Matched, Content, Setting, Choices

\* A match is made for the display seen, and never under a trial.
LEMMA MatchFilmSound ==
    ASSUME NEW s, Sound(s), NEW film \in Films, NEW cadence \in Cadences
    PROVE  Sound(MatchFilm(s, film, cadence)) /\ MatchFilm(s, film, cadence).trial = s.trial
<1>1. CASE MatchRefused(s)
  BY <1>1 DEF MatchFilm, Sound, OutputState, KeptBound, PlanSound, HasOffer, TrialSound
<1>2. CASE ~MatchRefused(s)
  <2>1. s.trial = None /\ HasOffer(s)
    BY <1>2 DEF MatchRefused
  <2>2. Matched(s, film, cadence) \in Content
    BY <2>1, MatchedIsContent
  <2> QED
    BY <1>2, <2>1, <2>2
    DEF MatchFilm, Sound, OutputState, KeptBound, PlanSound, HasOffer, TrialSound
<1> QED BY <1>1, <1>2

\* A new trial is made for the display seen, and goes back to its kept setting.
LEMMA NewJournalBound ==
    ASSUME NEW s, Sound(s), NEW id \in TrialIds, NEW choice \in Choices, HasOffer(s)
    PROVE  /\ NewJournal(s, id, choice) \in Journal
           /\ NewJournal(s, id, choice).id = id
           /\ NewJournal(s, id, choice).setting.sink = NewJournal(s, id, choice).sink
           /\ NewJournal(s, id, choice).previous.sink = NewJournal(s, id, choice).sink
<1>1. s.snapshot.sink \in Sinks /\ s.kept \in Setting /\ s.kept.sink = s.snapshot.sink
  BY DEF Sound, KeptBound, HasOffer, OutputState, Snapshot
<1> QED BY <1>1 DEF NewJournal, Journal, Setting

\* What a report does to the trial and to the match it is about: it starts no
\* trial, and a trial that goes on is the same one.
SameTrial(t, s) == t.trial = None \/ (s.trial # None /\ t.trial.journal = s.trial.journal)

LEMMA TrialAfterSound ==
    ASSUME NEW s, Sound(s), NEW sink, NEW trial, NEW mode
    PROVE  /\ Sound(TrialAfter(s, sink, trial, mode))
           /\ SameTrial(TrialAfter(s, sink, trial, mode), s)
<1>1. CASE TrialAsAsked(s, sink, trial, mode)
  <2>1. TrialAfter(s, sink, trial, mode) = [s EXCEPT !.trial.applied = TRUE]
    BY <1>1 DEF TrialAfter
  <2>2. s.trial # None /\ s.trial \in Trial
    BY <1>1 DEF TrialAsAsked, Sound, OutputState
  <2>3. /\ [s.trial EXCEPT !.applied = TRUE] \in Trial
        /\ [s.trial EXCEPT !.applied = TRUE].journal = s.trial.journal
    BY <2>2 DEF Trial
  <2> DEFINE c == [s.trial EXCEPT !.applied = TRUE]
             t == TrialAfter(s, sink, trial, mode)
  <2>4. t = [s EXCEPT !.trial = c] /\ c \in Trial /\ c.journal = s.trial.journal
    BY <2>1, <2>3
  <2> HIDE DEF c, t
  <2>5. t.trial = c /\ t \in OutputState
    BY <2>4 DEF Sound, OutputState
  <2>6. /\ t.journal = s.journal /\ t.plan = s.plan /\ t.kept = s.kept
        /\ t.snapshot = s.snapshot /\ t.content = s.content
    BY <2>4 DEF Sound, OutputState
  <2>7. TrialSound(t) /\ KeptBound(t) /\ PlanSound(t)
    BY <2>2, <2>4, <2>5, <2>6, NoneAssumption DEF Sound, KeptBound, PlanSound, HasOffer, TrialSound
  <2> QED
    BY <2>2, <2>4, <2>5, <2>7 DEF Sound, SameTrial, t
<1>2. CASE ~TrialAsAsked(s, sink, trial, mode) /\ TrialEndedBy(s, sink, trial, mode)
  BY <1>2, TakeTrialBackSound DEF TrialAfter, SameTrial
<1>3. CASE ~TrialAsAsked(s, sink, trial, mode) /\ ~TrialEndedBy(s, sink, trial, mode)
  BY <1>3 DEF TrialAfter, SameTrial
<1> QED BY <1>1, <1>2, <1>3

LEMMA ContentAfterSound ==
    ASSUME NEW s, Sound(s), NEW sink, NEW trial, NEW mode
    PROVE  /\ Sound(ContentAfter(s, sink, trial, mode))
           /\ ContentAfter(s, sink, trial, mode).trial = s.trial
<1>1. CASE s.content # None /\ ContentAfter(s, sink, trial, mode) # s
  <2>1. ContentAfter(s, sink, trial, mode) = [s EXCEPT !.content.applied = TRUE]
    BY <1>1 DEF ContentAfter
  <2>2. s.content \in Content
    BY <1>1 DEF Sound, OutputState
  <2>3. [s.content EXCEPT !.applied = TRUE] \in Content
    BY <2>2 DEF Content
  <2> DEFINE c == [s.content EXCEPT !.applied = TRUE]
  <2>4. ContentAfter(s, sink, trial, mode) = [s EXCEPT !.content = c]
    BY <2>1
  <2> HIDE DEF c
  <2> QED
    BY <1>1, <2>3, <2>4 DEF Sound, OutputState, KeptBound, PlanSound, HasOffer, TrialSound, c
<1>2. CASE ~(s.content # None /\ ContentAfter(s, sink, trial, mode) # s)
  BY <1>2 DEF ContentAfter
<1> QED BY <1>1, <1>2

LEMMA AfterAppliedSound ==
    ASSUME NEW s, Sound(s), NEW sink, NEW trial, NEW mode
    PROVE  /\ Sound(AfterApplied(s, sink, trial, mode))
           /\ SameTrial(AfterApplied(s, sink, trial, mode), s)
BY TrialAfterSound, ContentAfterSound DEF AfterApplied, SameTrial

----------------------------------------------------------------------------
\* The handlers.  Each step of the daemon keeps IInv; the state it works on is
\* Follow(ok), sound by FollowSound.
LEMMA InitSound == Init => IInv
<1> SUFFICES ASSUME Init PROVE IInv
  OBVIOUS
<1>1. PICK stored \in Setting \cup {None, Legacy}, matching \in BOOLEAN :
        out = [stored |-> stored, journal |-> None, plan |-> None, snapshot |-> None,
               kept |-> Unbound, trial |-> None, content |-> None,
               matching |-> matching, handover |-> FALSE]
  BY DEF Init
<1>2. out \in OutputState
  BY <1>1 DEF OutputState
<1>3. Sound(out) /\ out.trial = None
  BY <1>1, <1>2 DEF Sound, KeptBound, PlanSound, TrialSound, HasOffer
<1> QED BY <1>3 DEF Init, IInv

LEMMA FollowedUp ==
    ASSUME IInv, up, NEW ok \in BOOLEAN
    PROVE  /\ Sound(Follow(ok))
           /\ Follow(ok).trial # None => Follow(ok).trial.journal.id \in timers
BY FollowSound DEF IInv

LEMMA ContentStepSound == IInv /\ ContentStep => IInv'
<1> SUFFICES ASSUME IInv, ContentStep PROVE IInv'
  OBVIOUS
<1>1. ASSUME NEW film \in Films, NEW cadence \in Cadences, NEW ok \in BOOLEAN,
             ContentStart(film, cadence, ok)
      PROVE  IInv'
  <2>1. out' = MatchFilm(Follow(ok), film, cadence) /\ up' /\ timers' = timers
    BY <1>1 DEF ContentStart, Followed
  <2>2. Sound(out') /\ out'.trial = Follow(ok).trial
    BY <1>1, <2>1, FollowedUp, MatchFilmSound DEF ContentStart
  <2> QED
    BY <1>1, <2>1, <2>2, FollowedUp DEF ContentStart, IInv, Followed
<1>2. ASSUME NEW enabled \in BOOLEAN, SetMatching(enabled) PROVE IInv'
  <2> DEFINE s == [out EXCEPT !.matching = enabled]
  <2>1. Sound(s) /\ s.trial = out.trial
    BY <1>2 DEF IInv, SetMatching, Sound, OutputState, KeptBound, PlanSound, HasOffer, TrialSound
  <2>2. \/ out' = s
        \/ s.content # None /\ out' = MatchFilm(s, s.content.film, s.content.cadence)
    BY <1>2 DEF SetMatching
  <2> HIDE DEF s
  <2>3. s.content # None => s.content.film \in Films /\ s.content.cadence \in Cadences
    BY <2>1 DEF Sound, OutputState, Content
  <2>4. Sound(out') /\ out'.trial = out.trial
    BY <2>1, <2>2, <2>3, MatchFilmSound
  <2> QED BY <1>2, <2>4 DEF SetMatching, IInv
<1>3. ASSUME NEW film \in Films, ContentEnd(film) PROVE IInv'
  BY <1>3 DEF ContentEnd, ContentGone, IInv, Sound, OutputState, KeptBound, PlanSound, HasOffer,
              TrialSound
<1>4. CASE ContentHandover
  BY <1>4 DEF ContentHandover, IInv, Sound, OutputState, KeptBound, PlanSound, HasOffer,
              TrialSound
<1>5. CASE ContentHandoverFailed
  BY <1>5 DEF ContentHandoverFailed, ContentGone, IInv, Sound, OutputState, KeptBound, PlanSound,
              HasOffer, TrialSound
<1> QED BY <1>1, <1>2, <1>3, <1>4, <1>5 DEF ContentStep

LEMMA TrialStepSound == IInv /\ TrialStep => IInv'
<1> SUFFICES ASSUME IInv, TrialStep PROVE IInv'
  OBVIOUS
<1>1. ASSUME NEW id \in TrialIds, NEW choice \in Choices, NEW ok \in BOOLEAN,
             TrySetting(id, choice, ok)
      PROVE  IInv'
  <2> DEFINE s == Follow(ok)
             journal == NewJournal(s, id, choice)
             trial == [journal |-> journal, applied |-> FALSE]
  <2>1. Sound(s) /\ (s.trial # None => s.trial.journal.id \in timers)
    BY <1>1, FollowedUp DEF TrySetting
  <2>2. up' /\ up /\ followed' \in BOOLEAN /\ published' = published
    BY <1>1 DEF TrySetting, Followed
  <2>3. CASE out' = s /\ timers' = timers
    BY <2>1, <2>2, <2>3 DEF IInv
  <2>4. CASE out' = [s EXCEPT !.content = None] /\ timers' = timers
    <3> HIDE DEF s
    <3>1. Sound(out') /\ out'.trial = s.trial
      BY <2>1, <2>4 DEF Sound, OutputState, KeptBound, PlanSound, HasOffer, TrialSound
    <3> QED BY <2>1, <2>2, <2>4, <3>1 DEF IInv
  <2>5. CASE /\ HasOffer(s)
             /\ out' = [s EXCEPT !.content = None, !.journal = journal, !.trial = trial]
             /\ timers' = timers \cup {id}
    <3> HIDE DEF s
    <3>1. /\ journal \in Journal /\ journal.id = id
          /\ journal.setting.sink = journal.sink /\ journal.previous.sink = journal.sink
      BY <1>1, <2>1, <2>5, NewJournalBound
    <3> HIDE DEF journal
    <3>2. trial \in Trial /\ trial.journal = journal
      BY <3>1 DEF Trial
    <3> HIDE DEF trial
    <3>3. out' \in OutputState /\ out'.trial = trial /\ out'.journal = journal /\ out'.content = None
      BY <2>1, <2>5, <3>1, <3>2 DEF Sound, OutputState
    <3>4. KeptBound(out') /\ PlanSound(out')
      BY <2>1, <2>5 DEF Sound, OutputState, KeptBound, PlanSound, HasOffer
    <3>5. TrialSound(out')
      BY <3>1, <3>2, <3>3, NoneAssumption DEF TrialSound
    <3> QED
      BY <2>2, <2>5, <3>1, <3>2, <3>3, <3>4, <3>5 DEF IInv, Sound
  <2>6. \/ out' = s /\ timers' = timers
        \/ out' = [s EXCEPT !.content = None] /\ timers' = timers
        \/ /\ HasOffer(s)
           /\ out' = [s EXCEPT !.content = None, !.journal = journal, !.trial = trial]
           /\ timers' = timers \cup {id}
    BY <1>1 DEF TrySetting, TryRefused, StartTimer
  <2> QED BY <2>3, <2>4, <2>5, <2>6
<1>2. ASSUME NEW id \in TrialIds, NEW ok \in BOOLEAN, Keep(id, ok) PROVE IInv'
  <2> DEFINE s == Follow(ok)
             setting == s.trial.journal.setting
             k == [s EXCEPT !.stored = setting, !.journal = None, !.trial = None, !.kept = setting]
  <2>1. Sound(s) /\ (s.trial # None => s.trial.journal.id \in timers)
    BY <1>2, FollowedUp DEF Keep
  <2>2. up' /\ up /\ followed' \in BOOLEAN /\ published' = published /\ timers' = timers
    BY <1>2 DEF Keep, Followed
  <2>3. CASE out' = s
    BY <2>1, <2>2, <2>3 DEF IInv
  <2>4. CASE ~KeepRefused(s, id) /\ out' = WritePlan(k)
    <3> HIDE DEF s
    <3>1. s.trial # None /\ s.trial \in Trial /\ s.snapshot # None
      BY <2>1, <2>4 DEF KeepRefused, Sound, OutputState
    <3>2. setting \in Setting /\ setting.sink = s.snapshot.sink
      BY <2>1, <2>4, <3>1 DEF KeepRefused, Sound, TrialSound, Trial, Journal
    <3> HIDE DEF setting
    <3>3. k \in OutputState /\ KeptBound(k) /\ TrialSound(k) /\ k.trial = None
      BY <2>1, <3>1, <3>2 DEF Sound, OutputState, KeptBound, HasOffer, TrialSound
    <3> HIDE DEF k
    <3>4. Sound(out') /\ out'.trial = None
      BY <2>4, <3>3, WritePlanSound DEF Sound, TrialSound
    <3> QED BY <2>2, <3>4 DEF IInv
  <2> QED BY <1>2, <2>3, <2>4 DEF Keep
<1>3. ASSUME NEW id \in TrialIds, Revert(id) PROVE IInv'
  BY <1>3, TakeTrialBackSound DEF Revert, EndTrial, IInv
<1>4. ASSUME NEW id \in TrialIds, TimeUp(id) PROVE IInv'
  BY <1>4, TakeTrialBackSound DEF TimeUp, EndTrial, IInv
<1> QED BY <1>1, <1>2, <1>3, <1>4 DEF TrialStep

LEMMA OwnerStepSound == IInv /\ OwnerStep => IInv'
<1> SUFFICES ASSUME IInv, OwnerStep PROVE IInv'
  OBVIOUS
<1>1. CASE OwnerChanging
  BY <1>1, LetGoSound DEF OwnerChanging, IInv
<1>2. ASSUME NEW sink \in Sinks, NEW trial \in TrialIds \cup {None}, NEW mode \in Modes,
             NEW ok \in BOOLEAN, ReportApplied(sink, trial, mode, ok)
      PROVE  IInv'
  <2> DEFINE s == Follow(ok)
  <2>1. Sound(s) /\ (s.trial # None => s.trial.journal.id \in timers)
    BY <1>2, FollowedUp DEF ReportApplied
  <2>2. up' /\ up /\ followed' \in BOOLEAN /\ published' = published /\ timers' = timers
    BY <1>2 DEF ReportApplied, Followed
  <2>3. out' = s \/ out' = AfterApplied(s, sink, trial, mode)
    BY <1>2 DEF ReportApplied
  <2> HIDE DEF s
  <2>4. Sound(out') /\ SameTrial(out', s)
    BY <2>1, <2>3, AfterAppliedSound DEF SameTrial
  <2> QED BY <2>1, <2>2, <2>4 DEF IInv, SameTrial
<1>3. ASSUME NEW sink \in Sinks, NEW trial \in TrialIds \cup {None}, NEW ok \in BOOLEAN,
             ReportFailed(sink, trial, ok)
      PROVE  IInv'
  <2> DEFINE s == Follow(ok)
  <2>1. Sound(s) /\ (s.trial # None => s.trial.journal.id \in timers)
    BY <1>3, FollowedUp DEF ReportFailed
  <2>2. up' /\ up /\ followed' \in BOOLEAN /\ published' = published /\ timers' = timers
    BY <1>3 DEF ReportFailed, Followed
  <2>3. out' = s \/ out' = TakeTrialBack(s)
    BY <1>3 DEF ReportFailed
  <2> HIDE DEF s
  <2> QED BY <2>1, <2>2, <2>3, TakeTrialBackSound DEF IInv
<1> QED BY <1>1, <1>2, <1>3 DEF OwnerStep

\* Whatever was on its way to disk, a crash leaves nothing in memory.
LEMMA DownStopped ==
    ASSUME NEW s \in OutputState
    PROVE  Stopped(Down(s))
BY DEF Stopped, Down, OutputState

LEMMA CrashedStopped ==
    ASSUME IInv, NEW s \in OutputState, Crashed(s)
    PROVE  IInv'
<1>1. Stopped(out')
  BY DownStopped DEF Crashed
<1> QED BY <1>1 DEF Crashed, IInv, Stopped

LEMMA CrashStepSound == IInv /\ CrashStep => IInv'
<1> SUFFICES ASSUME IInv, CrashStep PROVE IInv'
  OBVIOUS
<1>1. CASE Crash
  BY <1>1, CrashedStopped DEF Crash, IInv, Sound
<1>2. ASSUME NEW id \in TrialIds, NEW choice \in Choices, CrashInTry(id, choice) PROVE IInv'
  <2>1. NewJournal(out, id, choice) \in Journal
    BY <1>2, NewJournalBound DEF CrashInTry, TryRefused, IInv
  <2>2. [out EXCEPT !.journal = NewJournal(out, id, choice)] \in OutputState
    BY <1>2, <2>1 DEF CrashInTry, IInv, Sound, OutputState
  <2> QED BY <1>2, <2>2, CrashedStopped DEF CrashInTry
<1>3. ASSUME NEW id \in TrialIds, CrashInKeep(id) PROVE IInv'
  <2>1. out \in OutputState /\ out.trial \in Trial
    BY <1>3 DEF CrashInKeep, KeepRefused, IInv, Sound, OutputState
  <2>2. out.trial.journal.setting \in Setting
    BY <2>1 DEF Trial, Journal
  <2>3. [out EXCEPT !.stored = out.trial.journal.setting] \in OutputState
    BY <2>1, <2>2 DEF OutputState
  <2> QED BY <1>3, <2>3, CrashedStopped DEF CrashInKeep
<1>4. CASE Restart
  BY <1>4 DEF Restart, IInv, Stopped, Sound, OutputState, KeptBound, PlanSound, HasOffer, TrialSound
<1> QED BY <1>1, <1>2, <1>3, <1>4 DEF CrashStep

----------------------------------------------------------------------------
\* IInv is inductive.
LEMMA StepSound == IInv /\ [Next]_vars => IInv'
<1> SUFFICES ASSUME IInv, [Next]_vars PROVE IInv'
  OBVIOUS
<1>1. ASSUME NEW ok \in BOOLEAN, Reconcile(ok) PROVE IInv'
  BY <1>1, FollowedUp DEF Reconcile, Followed, IInv
<1>2. CASE ContentStep
  BY <1>2, ContentStepSound
<1>3. CASE TrialStep
  BY <1>3, TrialStepSound
<1>4. CASE OwnerStep
  BY <1>4, OwnerStepSound
<1>5. CASE CrashStep
  BY <1>5, CrashStepSound
<1>6. ASSUME NEW snap \in Snapshot \cup {None}, Publish(snap) PROVE IInv'
  BY <1>6 DEF Publish, IInv
<1>7. CASE UNCHANGED vars
  BY <1>7 DEF vars, IInv
<1> QED BY <1>1, <1>2, <1>3, <1>4, <1>5, <1>6, <1>7 DEF Next

\* IInv holds in every reachable state.
THEOREM Invariance == Spec => []IInv
BY InitSound, StepSound, PTL DEF Spec

\* The display setting never holds a value the code could not have put there.
THEOREM TypeCorrect == Spec => []TypeOK
<1>1. IInv => TypeOK
  BY DEF IInv, TypeOK, Sound, Stopped
<1> QED BY <1>1, Invariance, PTL

\* A running trial is on disk exactly as it runs, and only a running one: a
\* daemon killed at any point finds the trial it must take back.
THEOREM TrialsAreJournalled == Spec => []TrialJournalled
<1>1. IInv => TrialJournalled
  BY DEF IInv, TrialJournalled, Sound, TrialSound
<1> QED BY <1>1, Invariance, PTL

\* A running trial always has its own timer: none can be forgotten.
THEOREM TrialsAreTimed == Spec => []TrialTimed
<1>1. IInv => TrialTimed
  BY DEF IInv, TrialTimed
<1> QED BY <1>1, Invariance, PTL

\* A person's change and a film's match never claim the wire together.
THEOREM OneClaim == Spec => []OneClaimOnTheWire
<1>1. IInv => OneClaimOnTheWire
  BY DEF IInv, OneClaimOnTheWire, Sound, TrialSound, Stopped
<1> QED BY <1>1, Invariance, PTL

\* The plan the other owners start from is for the display seen.
THEOREM PlansAreOfTheSink == Spec => []PlanOfTheSink
<1>1. IInv => PlanOfTheSink
  BY DEF IInv, PlanOfTheSink, Sound, PlanSound, KeptBound, Stopped
<1> QED BY <1>1, Invariance, PTL

\* What a trial puts on the wire and what ending it puts back are of one display.
THEOREM TrialsAreBound == Spec => []TrialBound
<1>1. IInv => TrialBound
  BY DEF IInv, TrialBound, Sound, TrialSound, Stopped
<1> QED BY <1>1, Invariance, PTL

----------------------------------------------------------------------------
(* The display setting implements DisplayRecord.  Every handler looks at the  *)
(* display (FollowLooks), does nothing else to the record (SameLook), and     *)
(* proposes, shows, withdraws or leaves alone; keep, and a crash in it,       *)
(* accept.                                                                    *)

Sink(s) == IF s.snapshot = None THEN None ELSE s.snapshot.sink

SameLook(s, t) == t.stored = s.stored /\ t.snapshot = s.snapshot

\* Resolving the kept setting leaves the record, or moves it to the display seen.
LEMMA ResolveKeptMoves ==
    ASSUME NEW s \in OutputState, NEW ok \in BOOLEAN
    PROVE  LET k == ResolveKept(s, ok) IN
           /\ k.snapshot = s.snapshot
           /\ \/ k.stored = s.stored
              \/ Sink(s) \in Sinks /\ k.stored = ForOffer(s.stored, Sink(s))
<1>1. CASE ~HasOffer(s)
  BY <1>1 DEF ResolveKept
<1>2. CASE HasOffer(s)
  <2>1. s.snapshot # None /\ s.snapshot.sink \in Sinks /\ Sink(s) = s.snapshot.sink
    BY <1>2 DEF HasOffer, OutputState, Snapshot, Sink
  <2> DEFINE kept == ForOffer(s.stored, s.snapshot.sink)
  <2>2. \E stored \in {s.stored, kept} :
            ResolveKept(s, ok) = [s EXCEPT !.kept = kept, !.stored = stored]
    BY <1>2 DEF ResolveKept
  <2> HIDE DEF kept
  <2>3. /\ ResolveKept(s, ok).snapshot = s.snapshot
        /\ ResolveKept(s, ok).stored \in {s.stored, kept}
    BY <2>2 DEF OutputState
  <2> QED
    BY <2>1, <2>3 DEF kept
<1> QED BY <1>1, <1>2

\* Neither taking a trial back nor letting go touches the record.
LEMMA LetGoKeepsRecord ==
    ASSUME NEW s, Sound(s)
    PROVE  SameLook(s, TakeTrialBack(s)) /\ SameLook(s, LetGo(s))
<1>1. SameLook(s, TakeTrialBack(s)) /\ TakeTrialBack(s) \in OutputState
  BY TakeTrialBackSound DEF SameLook, TakeTrialBack, Sound, OutputState
<1> QED BY <1>1 DEF SameLook, LetGo, OutputState

\* Following the observer is a look: nothing else moves the record.
LEMMA FollowLooks ==
    ASSUME Sound(out), published \in Snapshot \cup {None}, NEW ok \in BOOLEAN
    PROVE  LET s == Follow(ok) IN
           \/ s.stored = out.stored
           \/ Sink(s) \in Sinks /\ s.stored = ForOffer(out.stored, Sink(s))
<1>1. CASE published = None
  BY <1>1 DEF Follow, WritePlan, Sound, OutputState
<1>2. CASE published # None /\ UpToDate
  BY <1>2 DEF Follow
<1>3. CASE published # None /\ ~UpToDate
  <2> DEFINE r == IF SinkChanged THEN LetGo(out) ELSE out
             s == [r EXCEPT !.snapshot = published]
             k == ResolveKept(s, ok)
  <2>1. Sound(r) /\ r.stored = out.stored
    BY LetGoSound, LetGoKeepsRecord DEF SameLook
  <2> HIDE DEF r
  <2>2. s \in OutputState /\ s.stored = out.stored
    BY <2>1 DEF Sound, OutputState
  <2>3. Follow(ok) = WritePlan(k)
    BY <1>3 DEF Follow, r
  <2> HIDE DEF s
  <2>4. /\ k \in OutputState /\ k.snapshot = s.snapshot
        /\ \/ k.stored = out.stored
           \/ Sink(s) \in Sinks /\ k.stored = ForOffer(out.stored, Sink(s))
    BY <2>2, ResolveKeptBinds, ResolveKeptMoves
  <2> HIDE DEF k
  <2>5. Follow(ok).stored = k.stored /\ Follow(ok).snapshot = k.snapshot
    BY <2>3, <2>4 DEF WritePlan, OutputState
  <2> QED BY <2>4, <2>5 DEF Sink
<1> QED BY <1>1, <1>2, <1>3

\* A handler that only follows has looked.
LEMMA Looks ==
    ASSUME IInv, up, NEW ok \in BOOLEAN, SameLook(Follow(ok), out')
    PROVE  Record!Look
<1>1. \/ out'.stored = out.stored
      \/ Sink(out') \in Sinks /\ out'.stored = ForOffer(out.stored, Sink(out'))
  <2>1. Sound(out) /\ published \in Snapshot \cup {None}
    BY DEF IInv
  <2> QED BY <2>1, FollowLooks DEF SameLook, Sink
<1> QED BY <1>1 DEF Record!Look, Sink

\* What is left of a trial: the trial there was, or none.
LEMMA Leaves ==
    ASSUME out'.trial \in {out.trial, None}
    PROVE  Record!Withdraw \/ UNCHANGED (IF out.trial = None THEN None
                ELSE [setting |-> out.trial.journal.setting, shown |-> out.trial.applied])
BY DEF Record!Withdraw

RecordStep == [Record!Next]_(Record!vars)

\* A look that leaves at most the trial there was is a step of the record.
LEMMA LooksAndLeaves ==
    ASSUME Record!Look, out'.trial \in {out.trial, None}
    PROVE  RecordStep
BY Leaves DEF RecordStep, Record!Next

\* Nothing of the record's changes when the daemon only looks up what it has.
LEMMA SameLooks ==
    ASSUME SameLook(out, out')
    PROVE  Record!Look
BY DEF SameLook, Record!Look

\* Showing a proposal changes nothing else of it.
LEMMA ShownIs ==
    ASSUME NEW p \in [setting : Setting, shown : BOOLEAN],
           NEW q \in [setting : Setting, shown : BOOLEAN],
           q.setting = p.setting, q.shown = TRUE
    PROVE  q = [p EXCEPT !.shown = TRUE]
OBVIOUS

\* A trial is a proposal.
LEMMA ProposalIsOne ==
    ASSUME NEW s, Sound(s), s.trial # None
    PROVE  [setting |-> s.trial.journal.setting, shown |-> s.trial.applied] # None
<1>1. s.trial.journal.setting \in Setting /\ s.trial.applied \in BOOLEAN
  BY DEF Sound, OutputState, Trial, Journal
<1> QED BY <1>1, NoneAssumption

\* A match, or its end, leaves the record and the trial.
LEMMA MatchFilmLooks ==
    ASSUME NEW s, Sound(s), NEW film, NEW cadence
    PROVE  SameLook(s, MatchFilm(s, film, cadence)) /\ MatchFilm(s, film, cadence).trial = s.trial
BY DEF SameLook, MatchFilm, Sound, OutputState

LEMMA ContentStepRecord ==
    ASSUME IInv, ContentStep
    PROVE  RecordStep
<1>1. ASSUME NEW film \in Films, NEW cadence \in Cadences, NEW ok \in BOOLEAN,
             ContentStart(film, cadence, ok)
      PROVE  RecordStep
  <2>1. /\ IInv /\ up /\ Sound(out) /\ published \in Snapshot \cup {None}
        /\ out' = MatchFilm(Follow(ok), film, cadence)
    BY <1>1 DEF ContentStart, IInv
  <2>2. Sound(Follow(ok)) /\ Follow(ok).trial \in {out.trial, None}
    BY <2>1, FollowSound
  <2>3. SameLook(Follow(ok), out') /\ out'.trial = Follow(ok).trial
    BY <2>1, <2>2, MatchFilmLooks
  <2> QED BY <2>1, <2>2, <2>3, Looks, LooksAndLeaves
<1>2. ASSUME NEW enabled \in BOOLEAN, SetMatching(enabled) PROVE RecordStep
  <2> DEFINE s == [out EXCEPT !.matching = enabled]
  <2>1. Sound(s) /\ s.trial = out.trial /\ SameLook(out, s)
    BY <1>2 DEF IInv, SetMatching, Sound, OutputState, KeptBound, PlanSound, HasOffer, TrialSound,
                SameLook
  <2>2. \/ out' = s
        \/ out' = MatchFilm(s, s.content.film, s.content.cadence)
    BY <1>2 DEF SetMatching
  <2> HIDE DEF s
  <2>3. SameLook(out, out') /\ out'.trial = out.trial
    BY <2>1, <2>2, MatchFilmLooks DEF SameLook
  <2> QED BY <2>3, SameLooks, LooksAndLeaves
<1>3. CASE (\E film \in Films : ContentEnd(film)) \/ ContentHandover \/ ContentHandoverFailed
  <2>1. Sound(out)
    BY <1>3 DEF IInv, ContentEnd, ContentHandover, ContentHandoverFailed
  <2>2. SameLook(out, out') /\ out'.trial = out.trial
    BY <1>3, <2>1 DEF ContentEnd, ContentHandover, ContentHandoverFailed, ContentGone, SameLook,
                      Sound, OutputState
  <2> QED BY <2>2, SameLooks, LooksAndLeaves
<1> QED BY <1>1, <1>2, <1>3 DEF ContentStep

\* Ending a trial, or letting everything go, withdraws what was proposed.
LEMMA LetGoRecord ==
    ASSUME Sound(out), out' \in {out, TakeTrialBack(out), LetGo(out)}
    PROVE  RecordStep
<1>1. SameLook(out, out') /\ out'.trial \in {out.trial, None}
  BY TakeTrialBackSound, LetGoSound, LetGoKeepsRecord DEF SameLook
<1> QED BY <1>1, SameLooks, LooksAndLeaves

LEMMA TrialStepRecord ==
    ASSUME IInv, TrialStep
    PROVE  RecordStep
<1>1. ASSUME NEW id \in TrialIds, NEW choice \in Choices, NEW ok \in BOOLEAN,
             TrySetting(id, choice, ok)
      PROVE  RecordStep
  <2> DEFINE s == Follow(ok)
             journal == NewJournal(s, id, choice)
             trial == [journal |-> journal, applied |-> FALSE]
  <2>1. up /\ Sound(out) /\ published \in Snapshot \cup {None}
    BY <1>1 DEF TrySetting, IInv
  <2>2. Sound(s) /\ s.trial \in {out.trial, None}
    BY <2>1, FollowSound
  <2>3. CASE out' = s \/ out' = [s EXCEPT !.content = None]
    <3> HIDE DEF s
    <3>1. SameLook(s, out') /\ out'.trial = s.trial
      BY <2>2, <2>3 DEF SameLook, Sound, OutputState
    <3> QED BY <2>1, <2>2, <3>1, Looks, LooksAndLeaves DEF s
  <2>4. CASE /\ HasOffer(s)
             /\ out' = [s EXCEPT !.content = None, !.journal = journal, !.trial = trial]
    <3>1. SameLook(s, out') /\ out'.trial = trial
      <4> HIDE DEF s, journal, trial
      <4> QED BY <2>2, <2>4 DEF SameLook, Sound, OutputState
    <3>2. journal \in Journal /\ journal.setting.sink = journal.sink
      <4> HIDE DEF s
      <4> QED BY <1>1, <2>2, <2>4, NewJournalBound
    <3>3. journal.sink = Sink(out')
      BY <2>4, <3>1 DEF NewJournal, HasOffer, SameLook, Sink
    <3>4. Record!Look
      BY <2>1, <3>1, Looks
    <3> HIDE DEF s, journal
    <3>5. trial # None
      <4>1. trial \in Trial
        BY <3>2 DEF Trial
      <4> QED BY <4>1, NoneAssumption
    <3>6. journal.setting \in Setting
      BY <3>2 DEF Journal
    <3>7. Record!Propose
      <4>1. out'.trial # None /\ out'.trial.journal.setting = journal.setting
            /\ out'.trial.applied = FALSE
        BY <3>1, <3>5
      <4>2. journal.setting.sink = IF out'.snapshot = None THEN None ELSE out'.snapshot.sink
        BY <3>2, <3>3 DEF Sink
      <4> QED BY <3>6, <4>1, <4>2 DEF Record!Propose
    <3> QED BY <3>4, <3>7 DEF RecordStep, Record!Next
  <2> QED
    BY <1>1, <2>3, <2>4 DEF TrySetting, TryRefused
<1>2. ASSUME NEW id \in TrialIds, NEW ok \in BOOLEAN, Keep(id, ok) PROVE RecordStep
  <2> DEFINE s == Follow(ok)
             setting == s.trial.journal.setting
             k == [s EXCEPT !.stored = setting, !.journal = None, !.trial = None, !.kept = setting]
  <2>1. up /\ Sound(out) /\ published \in Snapshot \cup {None}
    BY <1>2 DEF Keep, IInv
  <2>2. Sound(s) /\ s.trial \in {out.trial, None}
    BY <2>1, FollowSound
  <2>3. CASE out' = s
    BY <2>1, <2>2, <2>3, Looks, LooksAndLeaves DEF SameLook
  <2>4. CASE ~KeepRefused(s, id) /\ out' = WritePlan(k)
    <3> HIDE DEF s
    <3>1. /\ s.trial # None /\ s.trial = out.trial /\ out.trial.applied = TRUE
          /\ s.snapshot # None /\ setting.sink = s.snapshot.sink
          /\ setting = out.trial.journal.setting
      BY <2>2, <2>4 DEF KeepRefused, Sound, TrialSound, OutputState, Trial
    <3> HIDE DEF setting
    <3>2. out'.stored = setting /\ out'.trial = None /\ out'.snapshot = s.snapshot
      BY <2>2, <2>4 DEF WritePlan, Sound, OutputState
    <3>3. [setting |-> out.trial.journal.setting, shown |-> out.trial.applied] # None
      BY <2>1, <3>1, ProposalIsOne
    <3>4. Record!Accept
      BY <3>1, <3>2, <3>3 DEF Record!Accept
    <3> QED BY <3>4 DEF RecordStep, Record!Next
  <2> QED BY <1>2, <2>3, <2>4 DEF Keep
<1>3. CASE \E id \in TrialIds : Revert(id) \/ TimeUp(id)
  BY <1>3, LetGoRecord DEF Revert, TimeUp, EndTrial, IInv
<1> QED BY <1>1, <1>2, <1>3 DEF TrialStep

\* What a report leaves of the trial: it, gone, or it and shown -- then on the
\* display seen, since the report is of that display and names the trial.
LEMMA AfterAppliedRecord ==
    ASSUME NEW s, Sound(s), NEW sink, NEW trial, NEW mode, ~ReportRefused(s, sink),
           s.trial # None => (s.trial.journal.id = trial => s.trial.journal.sink = sink)
    PROVE  LET t == AfterApplied(s, sink, trial, mode) IN
           /\ SameLook(s, t)
           /\ \/ t.trial \in {s.trial, None}
              \/ /\ s.trial # None /\ t.trial # None
                 /\ t.trial.journal = s.trial.journal /\ t.trial.applied = TRUE
                 /\ t.trial.journal.setting.sink = Sink(t)
<1> DEFINE r == TrialAfter(s, sink, trial, mode)
           t == AfterApplied(s, sink, trial, mode)
<1>1. Sound(r)
  BY TrialAfterSound
<1>2. SameLook(s, r)
  BY LetGoKeepsRecord DEF TrialAfter, SameLook, Sound, OutputState
<1>3. \/ r.trial \in {s.trial, None}
      \/ /\ s.trial # None /\ r.trial # None
         /\ r.trial.journal = s.trial.journal /\ r.trial.applied = TRUE
         /\ r.trial.journal.setting.sink = Sink(s)
  <2>1. CASE TrialAsAsked(s, sink, trial, mode)
    <3>1. r = [s EXCEPT !.trial.applied = TRUE] /\ s.trial # None /\ s.trial \in Trial
      BY <2>1 DEF TrialAfter, TrialAsAsked, Sound, OutputState
    <3> HIDE DEF r
    <3>2. r.trial = [s.trial EXCEPT !.applied = TRUE]
      BY <3>1 DEF Sound, OutputState
    <3>3. r.trial \in Trial /\ r.trial.journal = s.trial.journal /\ r.trial.applied = TRUE
      BY <3>1, <3>2 DEF Trial
    <3>4. s.trial.journal.setting.sink = Sink(s)
      BY <2>1, <3>1 DEF TrialAsAsked, ReportRefused, Sink, Sound, TrialSound
    <3> QED BY <3>1, <3>3, <3>4, NoneAssumption
  <2>2. CASE ~TrialAsAsked(s, sink, trial, mode)
    BY <2>2, TakeTrialBackSound DEF TrialAfter
  <2> QED BY <2>1, <2>2
<1>4. t = ContentAfter(r, sink, trial, mode)
  BY DEF AfterApplied
<1> HIDE DEF r, t
<1>5. SameLook(r, t) /\ t.trial = r.trial
  BY <1>1, <1>4 DEF ContentAfter, SameLook, Sound, OutputState
<1> QED BY <1>2, <1>3, <1>5 DEF SameLook, Sink, t

LEMMA OwnerStepRecord ==
    ASSUME IInv, OwnerStep
    PROVE  RecordStep
<1>1. CASE OwnerChanging
  BY <1>1, LetGoRecord DEF OwnerChanging, IInv
<1>2. ASSUME NEW sink \in Sinks, NEW trial \in TrialIds \cup {None}, NEW mode \in Modes,
             NEW ok \in BOOLEAN, ReportApplied(sink, trial, mode, ok)
      PROVE  RecordStep
  <2> DEFINE s == Follow(ok)
  <2>1. up /\ Sound(out) /\ published \in Snapshot \cup {None}
    BY <1>2 DEF ReportApplied, IInv
  <2>2. Sound(s) /\ s.trial \in {out.trial, None}
    BY <2>1, FollowSound
  <2>3. CASE out' = s
    BY <2>1, <2>2, <2>3, Looks, LooksAndLeaves DEF SameLook
  <2>4. CASE ~ReportRefused(s, sink) /\ out' = AfterApplied(s, sink, trial, mode)
    <3>1. s.trial # None => (s.trial.journal.id = trial => s.trial.journal.sink = sink)
      BY <1>2, <2>2 DEF ReportApplied, OwnTrial
    <3>2. /\ SameLook(s, out')
          /\ \/ out'.trial \in {s.trial, None}
             \/ /\ s.trial # None /\ out'.trial # None
                /\ out'.trial.journal = s.trial.journal /\ out'.trial.applied = TRUE
                /\ out'.trial.journal.setting.sink = Sink(out')
      <4> DEFINE t == AfterApplied(s, sink, trial, mode)
      <4> HIDE DEF s
      <4>1. /\ SameLook(s, t)
            /\ \/ t.trial \in {s.trial, None}
               \/ /\ s.trial # None /\ t.trial # None
                  /\ t.trial.journal = s.trial.journal /\ t.trial.applied = TRUE
                  /\ t.trial.journal.setting.sink = Sink(t)
        BY <2>2, <2>4, <3>1, AfterAppliedRecord
      <4>2. out' = t
        BY <2>4
      <4> HIDE DEF t
      <4> QED BY <4>1, <4>2
    <3>3. Record!Look
      BY <2>1, <3>2, Looks
    <3>4. CASE out'.trial \in {s.trial, None}
      BY <2>2, <3>3, <3>4, LooksAndLeaves
    <3>5. CASE /\ s.trial # None /\ out'.trial # None
               /\ out'.trial.journal = s.trial.journal /\ out'.trial.applied = TRUE
               /\ out'.trial.journal.setting.sink = Sink(out')
      <4> HIDE DEF s
      <4>1. out.trial # None /\ out'.trial.journal = out.trial.journal
        BY <2>2, <3>5
      <4>2. Record!Show
        <5>1. out.trial.journal.setting.sink = IF out'.snapshot = None THEN None ELSE out'.snapshot.sink
          BY <3>5, <4>1 DEF Sink
        <5>2. [setting |-> out'.trial.journal.setting, shown |-> out'.trial.applied]
                = [[setting |-> out.trial.journal.setting, shown |-> out.trial.applied]
                       EXCEPT !.shown = TRUE]
          <6> DEFINE p == [setting |-> out.trial.journal.setting, shown |-> out.trial.applied]
                     q == [setting |-> out'.trial.journal.setting, shown |-> out'.trial.applied]
          <6>1. out.trial.journal.setting \in Setting /\ out.trial.applied \in BOOLEAN
            BY <2>1, <4>1 DEF Sound, OutputState, Trial, Journal
          <6>2. p \in [setting : Setting, shown : BOOLEAN]
            BY <6>1
          <6>3. /\ q \in [setting : Setting, shown : BOOLEAN]
                /\ q.setting = p.setting /\ q.shown = TRUE
            BY <6>1, <3>5, <4>1
          <6> HIDE DEF p, q
          <6>4. q = [p EXCEPT !.shown = TRUE]
            BY <6>2, <6>3, ShownIs
          <6> QED BY <6>4 DEF p, q
        <5>3. [setting |-> out.trial.journal.setting, shown |-> out.trial.applied] # None
          BY <2>1, <4>1, ProposalIsOne
        <5> QED BY <3>5, <4>1, <5>1, <5>2, <5>3 DEF Record!Show
      <4> QED BY <3>3, <4>2 DEF RecordStep, Record!Next
    <3> QED BY <3>2, <3>4, <3>5
  <2> QED BY <1>2, <2>3, <2>4 DEF ReportApplied
<1>3. ASSUME NEW sink \in Sinks, NEW trial \in TrialIds \cup {None}, NEW ok \in BOOLEAN,
             ReportFailed(sink, trial, ok)
      PROVE  RecordStep
  <2> DEFINE s == Follow(ok)
  <2>1. up /\ Sound(out) /\ published \in Snapshot \cup {None}
    BY <1>3 DEF ReportFailed, IInv
  <2>2. Sound(s) /\ s.trial \in {out.trial, None}
    BY <2>1, FollowSound
  <2>3. out' = s \/ out' = TakeTrialBack(s)
    BY <1>3 DEF ReportFailed
  <2>4. SameLook(s, out') /\ out'.trial \in {s.trial, None}
    <3> HIDE DEF s
    <3> QED BY <2>2, <2>3, LetGoKeepsRecord, TakeTrialBackSound DEF SameLook
  <2> QED BY <2>1, <2>2, <2>4, Looks, LooksAndLeaves
<1> QED BY <1>1, <1>2, <1>3 DEF OwnerStep

\* A crash withdraws a trial that was not being kept, and the record stays.
LEMMA CrashedRecord ==
    ASSUME NEW s \in OutputState, Crashed(s), s.stored = out.stored
    PROVE  RecordStep
<1>1. out'.stored = out.stored /\ out'.trial = None
  BY DEF Crashed, Down, OutputState
<1>2. Record!Look
  BY <1>1 DEF Record!Look
<1> QED BY <1>1, <1>2, LooksAndLeaves

LEMMA CrashStepRecord ==
    ASSUME IInv, CrashStep
    PROVE  RecordStep
<1>1. CASE Crash
  BY <1>1, CrashedRecord DEF Crash, IInv, Sound
<1>2. ASSUME NEW id \in TrialIds, NEW choice \in Choices, CrashInTry(id, choice)
      PROVE  RecordStep
  <2> DEFINE s == [out EXCEPT !.journal = NewJournal(out, id, choice)]
  <2>1. NewJournal(out, id, choice) \in Journal
    BY <1>2, NewJournalBound DEF CrashInTry, TryRefused, IInv
  <2>2. s \in OutputState /\ s.stored = out.stored
    BY <1>2, <2>1 DEF CrashInTry, IInv, Sound, OutputState
  <2> QED BY <1>2, <2>2, CrashedRecord DEF CrashInTry
<1>3. ASSUME NEW id \in TrialIds, CrashInKeep(id) PROVE RecordStep
  <2> DEFINE setting == out.trial.journal.setting
  <2>1. /\ Sound(out) /\ out.trial # None /\ out.trial.applied = TRUE
        /\ out.snapshot # None /\ setting.sink = out.snapshot.sink
    BY <1>3 DEF CrashInKeep, KeepRefused, IInv, Sound, TrialSound, OutputState, Trial
  <2>2. out'.stored = setting /\ out'.trial = None
    BY <1>3, <2>1 DEF CrashInKeep, Crashed, Down, Sound, OutputState
  <2>3. [setting |-> setting, shown |-> out.trial.applied] # None
    BY <2>1, ProposalIsOne
  <2>4. Record!Accept
    BY <2>1, <2>2, <2>3 DEF Record!Accept
  <2> QED BY <2>4 DEF RecordStep, Record!Next
<1>4. CASE Restart
  <2>1. SameLook(out, out') /\ out'.trial = out.trial
    BY <1>4 DEF Restart, IInv, Stopped, OutputState, SameLook
  <2> QED BY <2>1, SameLooks, LooksAndLeaves
<1> QED BY <1>1, <1>2, <1>3, <1>4 DEF CrashStep

\* Every step of the daemon, or of what it observes, is a step of the record.
LEMMA StepRecord == IInv /\ [Next]_vars => RecordStep
<1> SUFFICES ASSUME IInv, [Next]_vars PROVE RecordStep
  OBVIOUS
<1>1. ASSUME NEW ok \in BOOLEAN, Reconcile(ok) PROVE RecordStep
  <2>1. up /\ Sound(out) /\ published \in Snapshot \cup {None} /\ out' = Follow(ok)
    BY <1>1 DEF Reconcile, IInv
  <2> QED BY <2>1, FollowSound, Looks, LooksAndLeaves DEF SameLook
<1>2. CASE ContentStep
  BY <1>2, ContentStepRecord
<1>3. CASE TrialStep
  BY <1>3, TrialStepRecord
<1>4. CASE OwnerStep
  BY <1>4, OwnerStepRecord
<1>5. CASE CrashStep
  BY <1>5, CrashStepRecord
<1>6. CASE (\E snap \in Snapshot \cup {None} : Publish(snap)) \/ UNCHANGED vars
  <2>1. out' = out
    BY <1>6 DEF Publish, vars
  <2> QED BY <2>1, SameLooks, LooksAndLeaves DEF SameLook
<1> QED BY <1>1, <1>2, <1>3, <1>4, <1>5, <1>6 DEF Next

\* The record kept on disk changes only as a viewer was promised it does: to a
\* setting shown and accepted on the display looked at, or, at its default, to
\* another display -- through reports that cross, crashes and lost displays.
THEOREM PromiseKept == Spec => KeepsItsPromise
<1>1. Init => Record!Init
  BY DEF Init, Record!Init
<1> QED
  BY <1>1, StepRecord, Invariance, PTL DEF Spec, KeepsItsPromise, Record!Spec, RecordStep

----------------------------------------------------------------------------
(* The safety invariants of DisplayOwner hold for every number of requests,   *)
(* trials, modes and settings.  The daemon's half is OutputSetting, whose     *)
(* invariant and whose refinement carry over action by action (`Handled`);    *)
(* what is new is what travels: an event, an answer and a report say only     *)
(* what was so when they were sent, so the invariant is about what a trial    *)
(* and a mode must have been for them to be under way at all.                 *)

Here == [sink |-> Display, offer |-> TRUE]

Events == [type : {"Apply"}, sink : Sinks, setting : Setting, trial : TrialIds \cup {None}]
          \cup [type : {"Reverted", "Kept"}, trial : TrialIds]
          \cup {Changed, Recover}

\* The daemon's state is sound, and the display it sees is the one there is.
Sighted == IInv /\ published = Here /\ out.snapshot \in {None, Here}

\* What was on the wire once: the kernel took its mode, and its trial, if it is
\* one, is among those the interface has had there.
Taken(mode)  == troubled => mode \notin Refused
Had(trial)   == trial \in committed \cup {None}
Proper(setting) == Taken(Resolve(Display, setting.choice))

\* A trial counted as applied was on the wire; so what is kept was there too.
DaemonSound ==
    /\ Sighted
    /\ out.stored # Legacy
    /\ out.stored \in Setting => Proper(out.stored)
    /\ out.trial # None /\ out.trial.applied =>
            Had(out.trial.journal.id) /\ Proper(out.trial.journal.setting)

\* The interface drives, and says it has applied, only what was on the wire;
\* what is on its way to it is well formed.
InterfaceSound ==
    /\ OwnerTypeOK
    /\ channel \subseteq Events
    /\ tv # None => Had(tv.trial) /\ Proper(tv.setting)
    /\ \A r \in reports : r.type = "Applied" => Had(r.trial) /\ Taken(r.mode)

OwnerInv == DaemonSound /\ InterfaceSound

----------------------------------------------------------------------------
(* What a handler of the daemon leaves, and what it sends.                    *)

\* What every handler keeps; what it does to the record is a step of the
\* record's promise (OutputSettingProofs).
Handled ==
    /\ IInv' /\ RecordStep
    /\ published' = published /\ out'.snapshot \in {None, Here}
    /\ sent' \subseteq Events

TrialStays == out'.trial \in {out.trial, None}

\* Following the observer, the daemon sees the display there is; a trial it
\* lets go of is the one it had.
LEMMA FollowHere ==
    ASSUME Sighted, up, NEW ok \in BOOLEAN
    PROVE  /\ Sound(Follow(ok)) /\ Follow(ok).trial \in {out.trial, None}
           /\ Follow(ok).snapshot = Here
<1>1. Sound(out) /\ published \in Snapshot \cup {None} /\ published = Here /\ published # None
  <2>1. Here \in Snapshot
    BY OwnerAssumption, NoneAssumption DEF Here, Snapshot
  <2> QED BY <2>1, NoneAssumption DEF Sighted, IInv
<1>2. Sound(Follow(ok)) /\ Follow(ok).trial \in {out.trial, None}
  BY <1>1, FollowSound
<1>3. CASE UpToDate
  BY <1>1, <1>2, <1>3 DEF Follow, UpToDate, Sighted
<1>4. CASE ~UpToDate
  <2> DEFINE r == IF SinkChanged THEN LetGo(out) ELSE out
             s == [r EXCEPT !.snapshot = published]
             k == ResolveKept(s, ok)
  <2>1. Sound(r)
    BY <1>1, LetGoSound
  <2>2. Follow(ok) = WritePlan(k)
    BY <1>1, <1>4 DEF Follow
  <2> HIDE DEF r
  <2>3. s \in OutputState /\ s.snapshot = Here
    BY <1>1, <2>1 DEF Sound, OutputState
  <2> HIDE DEF s
  <2>4. k \in OutputState /\ k.snapshot = Here
    BY <2>3, ResolveKeptBinds, ResolveKeptMoves
  <2> HIDE DEF k
  <2>5. WritePlan(k).snapshot = k.snapshot
    BY <2>4 DEF WritePlan, OutputState
  <2> QED BY <1>2, <2>2, <2>4, <2>5
<1> QED BY <1>3, <1>4

\* Ending a trial sends the setting it replaced, for the display it was made on.
LEMMA TakenBackEvents ==
    ASSUME NEW s, Sound(s), s.trial # None
    PROVE  TakenBack(s.trial) \subseteq Events
<1>1. s.trial.journal \in Journal
  BY DEF Sound, OutputState, Trial
<1>2. /\ s.trial.journal.sink \in Sinks /\ s.trial.journal.previous \in Setting
      /\ s.trial.journal.id \in TrialIds
  BY <1>1 DEF Journal
<1> QED BY <1>2 DEF TakenBack, Apply, Reverted, Events

LEMMA FollowEventsSent ==
    ASSUME Sound(out)
    PROVE  FollowEvents \subseteq Events /\ Recovery \subseteq Events
<1>1. {Changed, Recover} \subseteq Events
  BY DEF Events
<1> QED BY <1>1, TakenBackEvents DEF FollowEvents, Recovery

\* What is in force is a setting, wherever a display with an offer is seen.
LEMMA KeptHere ==
    ASSUME NEW s, Sound(s), s.snapshot \in {None, Here}
    PROVE  s.snapshot # None => HasOffer(s) /\ s.kept \in Setting /\ s.snapshot.sink = Display
BY DEF Sound, KeptBound, HasOffer, Here

\* Every handler the composition uses is one of OutputSetting's.
LEMMA Handles ==
    ASSUME Sighted,
           \/ ContentStep \/ TrialStep \/ OwnerStep \/ CrashStep
           \/ \E ok \in BOOLEAN : Reconcile(ok)
    PROVE  IInv' /\ RecordStep
BY StepSound, StepRecord DEF Sighted, Next

\* A trial begins unapplied; a refused one leaves what following left.
LEMMA TrySettingHandled ==
    ASSUME Sighted, NEW id \in TrialIds, NEW choice \in Choices, NEW ok \in BOOLEAN,
           TrySetting(id, choice, ok)
    PROVE  Handled /\ (TrialStays \/ (out'.trial # None /\ out'.trial.applied = FALSE))
<1> DEFINE s == Follow(ok)
           journal == NewJournal(s, id, choice)
           trial == [journal |-> journal, applied |-> FALSE]
<1>1. IInv' /\ RecordStep /\ published' = published /\ up
  BY Handles DEF TrialStep, TrySetting, Followed
<1>2. Sound(out) /\ Sound(s) /\ s.trial \in {out.trial, None} /\ s.snapshot = Here
  BY <1>1, FollowHere DEF Sighted, IInv
<1>3. FollowEvents \subseteq Events /\ Recovery \subseteq Events
  BY <1>2, FollowEventsSent
<1>4. CASE (out' = s \/ out' = [s EXCEPT !.content = None]) /\ sent' = Recovery
  <2>1. out'.trial = s.trial /\ out'.snapshot = s.snapshot
    BY <1>2, <1>4 DEF Sound, OutputState
  <2> QED BY <1>1, <1>2, <1>3, <1>4, <2>1 DEF Handled, TrialStays
<1>5. CASE /\ HasOffer(s)
           /\ out' = [s EXCEPT !.content = None, !.journal = journal, !.trial = trial]
           /\ sent' = Recovery \cup FollowEvents \cup {Apply(journal.sink, journal.setting, id)}
  <2> HIDE DEF s
  <2>1. journal \in Journal
    BY <1>2, <1>5, NewJournalBound
  <2> HIDE DEF journal
  <2>2. trial \in Trial /\ trial # None /\ trial.applied = FALSE
    <3>1. trial \in Trial /\ trial.applied = FALSE
      BY <2>1 DEF Trial
    <3> HIDE DEF trial
    <3> QED BY <3>1, NoneAssumption
  <2> HIDE DEF trial
  <2>3. out'.trial = trial /\ out'.snapshot = s.snapshot
    BY <1>2, <1>5 DEF Sound, OutputState
  <2>4. Apply(journal.sink, journal.setting, id) \in Events
    BY <2>1 DEF Apply, Events, Journal
  <2> QED BY <1>1, <1>2, <1>3, <1>5, <2>2, <2>3, <2>4 DEF Handled
<1> QED BY <1>4, <1>5 DEF TrySetting, TryRefused

\* Keeping a trial ends it.
LEMMA KeepHandled ==
    ASSUME Sighted, NEW id \in TrialIds, NEW ok \in BOOLEAN, Keep(id, ok)
    PROVE  Handled /\ TrialStays
<1> DEFINE s == Follow(ok)
           setting == s.trial.journal.setting
           k == [s EXCEPT !.stored = setting, !.journal = None, !.trial = None, !.kept = setting]
<1>1. IInv' /\ RecordStep /\ published' = published /\ up
  BY Handles DEF TrialStep, Keep, Followed
<1>2. Sound(out) /\ Sound(s) /\ s.trial \in {out.trial, None} /\ s.snapshot = Here
  BY <1>1, FollowHere DEF Sighted, IInv
<1>3. FollowEvents \subseteq Events /\ Recovery \subseteq Events /\ KeptEvent(id) \in Events
  BY <1>2, FollowEventsSent DEF Events, KeptEvent
<1> HIDE DEF s
<1>4. out'.trial \in {s.trial, None} /\ out'.snapshot = s.snapshot
  BY <1>2 DEF Keep, WritePlan, Sound, OutputState, s
<1>5. sent' \subseteq Events
  BY <1>3 DEF Keep
<1> QED BY <1>1, <1>2, <1>4, <1>5 DEF Handled, TrialStays

\* A trial taken back, by the viewer, its timer or a change of owner.
LEMMA EndHandled ==
    ASSUME Sighted, \/ \E id \in TrialIds : Revert(id) \/ TimeUp(id)
                    \/ OwnerChanging
    PROVE  Handled /\ TrialStays
<1>1. IInv' /\ RecordStep /\ published' = published /\ Sound(out)
  BY Handles DEF TrialStep, OwnerStep, Revert, TimeUp, OwnerChanging, Sighted, IInv
<1>2. out' \in {out, TakeTrialBack(out), LetGo(out)}
  BY DEF Revert, TimeUp, OwnerChanging, EndTrial
<1>3. out'.trial \in {out.trial, None} /\ out'.snapshot = out.snapshot
  BY <1>1, <1>2, TakeTrialBackSound, LetGoSound, LetGoKeepsRecord DEF SameLook
<1>4. sent' \subseteq Events
  BY <1>1, TakenBackEvents DEF Revert, TimeUp, OwnerChanging, EndTrial
<1> QED BY <1>1, <1>3, <1>4 DEF Handled, TrialStays, Sighted

\* A film's match, refused under a trial, names the display seen.
LEMMA MatchEventsSent ==
    ASSUME NEW s, Sound(s), NEW film \in Films, NEW cadence \in Cadences,
           NEW before \in SUBSET Events
    PROVE  MatchEvents(s, film, cadence, before) \subseteq Events
<1> DEFINE content == Matched(s, film, cadence)
<1>1. CASE MatchRefused(s)
  BY <1>1 DEF MatchEvents
<1>2. CASE ~MatchRefused(s)
  <2>1. content \in Content
    BY <1>2, MatchedIsContent DEF MatchRefused
  <2> HIDE DEF content
  <2>2. Apply(content.sink, content.setting, None) \in Events /\ Changed \in Events
    BY <2>1 DEF Content, Apply, Events
  <2> QED BY <1>2, <2>2 DEF MatchEvents, content
<1> QED BY <1>1, <1>2

LEMMA ContentStartHandled ==
    ASSUME Sighted, NEW film \in Films, NEW cadence \in Cadences, NEW ok \in BOOLEAN,
           ContentStart(film, cadence, ok)
    PROVE  Handled /\ TrialStays
<1> DEFINE s == Follow(ok)
<1>1. IInv' /\ RecordStep /\ published' = published /\ up
  BY Handles DEF ContentStep, ContentStart, Followed
<1>2. Sound(out) /\ Sound(s) /\ s.trial \in {out.trial, None} /\ s.snapshot = Here
  BY <1>1, FollowHere DEF Sighted, IInv
<1>3. FollowEvents \subseteq Events /\ Recovery \subseteq Events
  BY <1>2, FollowEventsSent
<1>4. out' = MatchFilm(s, film, cadence)
      /\ sent' = Recovery \cup MatchEvents(s, film, cadence, FollowEvents)
  BY DEF ContentStart
<1> HIDE DEF s
<1>5. out'.trial = s.trial /\ out'.snapshot = s.snapshot
  BY <1>2, <1>4, MatchFilmLooks DEF SameLook
<1>6. sent' \subseteq Events
  BY <1>2, <1>3, <1>4, MatchEventsSent
<1> QED BY <1>1, <1>2, <1>5, <1>6 DEF Handled, TrialStays

\* The end of a match puts the kept setting of its display back on the wire.
LEMMA ContentEndHandled ==
    ASSUME Sighted, NEW film \in Films, ContentEnd(film)
    PROVE  Handled /\ TrialStays
<1>1. IInv' /\ RecordStep /\ published' = published /\ up
  BY Handles DEF ContentStep, ContentEnd
<1>2. Sound(out) /\ out.snapshot \in {None, Here}
  BY <1>1 DEF Sighted, IInv
<1>3. out'.trial = out.trial /\ out'.snapshot = out.snapshot
  BY <1>2 DEF ContentEnd, ContentGone, Sound, OutputState
<1>4. sent' = ContentGoneEvents(out) /\ out.content # None
  BY DEF ContentEnd
<1>5. out.snapshot # None => Apply(out.content.sink, out.kept, None) \in Events
  <2>1. out.content.sink \in Sinks
    BY <1>2, <1>4 DEF Sound, OutputState, Content
  <2>2. out.snapshot # None => out.kept \in Setting
    BY <1>2, KeptHere
  <2> QED BY <2>1, <2>2 DEF Apply, Events
<1>6. sent' \subseteq Events
  <2>1. Changed \in Events
    BY DEF Events
  <2> QED BY <1>4, <1>5, <2>1 DEF ContentGoneEvents
<1> QED BY <1>1, <1>2, <1>3, <1>6 DEF Handled, TrialStays

LEMMA ReconcileHandled ==
    ASSUME Sighted, NEW ok \in BOOLEAN, Reconcile(ok)
    PROVE  Handled /\ TrialStays /\ out'.snapshot = Here
<1>1. IInv' /\ RecordStep /\ published' = published /\ up /\ out' = Follow(ok)
      /\ sent' = Recovery \cup FollowEvents
  BY Handles DEF Reconcile, Followed
<1>2. Sound(out) /\ Follow(ok).trial \in {out.trial, None} /\ Follow(ok).snapshot = Here
  BY <1>1, FollowHere DEF Sighted, IInv
<1>3. FollowEvents \subseteq Events /\ Recovery \subseteq Events
  BY <1>2, FollowEventsSent
<1> QED BY <1>1, <1>2, <1>3 DEF Handled, TrialStays

\* A crash leaves nothing in memory, and sends nothing.
LEMMA CrashHandled ==
    ASSUME Sighted, Crash \/ Restart
    PROVE  Handled /\ TrialStays
<1>1. IInv' /\ RecordStep /\ published' = published /\ sent' = {}
  BY Handles DEF CrashStep, Crash, Crashed, Restart
<1>2. out \in OutputState /\ out.snapshot \in {None, Here}
  BY DEF Sighted, IInv, Sound, Stopped
<1>3. out'.trial \in {out.trial, None} /\ out'.snapshot \in {out.snapshot, None}
  BY <1>2 DEF Crash, Crashed, Down, Restart, OutputState
<1> QED BY <1>1, <1>2, <1>3 DEF Handled, TrialStays

\* A report confirms the trial it names, if the mode is the one asked for, ends
\* it, or leaves it.
LEMMA ReportAppliedHandled ==
    ASSUME Sighted, NEW trial \in TrialIds \cup {None}, NEW mode \in Modes, NEW ok \in BOOLEAN,
           ReportApplied(Display, trial, mode, ok)
    PROVE  /\ Handled
           /\ \/ TrialStays
              \/ /\ out.trial # None /\ out'.trial # None
                 /\ out'.trial.journal = out.trial.journal /\ out.trial.journal.id = trial
                 /\ mode = Resolve(Display, out.trial.journal.setting.choice)
<1> DEFINE s == Follow(ok)
           r == TrialAfter(s, Display, trial, mode)
           t == AfterApplied(s, Display, trial, mode)
<1>1. IInv' /\ RecordStep /\ published' = published /\ up
  BY OwnerAssumption, Handles DEF OwnerStep, ReportApplied, Followed
<1>2. Sound(out) /\ Sound(s) /\ s.trial \in {out.trial, None} /\ s.snapshot = Here
  BY <1>1, FollowHere DEF Sighted, IInv
<1>3. FollowEvents \subseteq Events /\ Recovery \subseteq Events /\ Changed \in Events
  BY <1>2, FollowEventsSent DEF Events
<1>4. out' \in {s, t}
  BY DEF ReportApplied
<1>5. sent' \subseteq Events
  <2>1. TrialEndedBy(s, Display, trial, mode) => TakenBack(s.trial) \subseteq Events
    BY <1>2, TakenBackEvents DEF TrialEndedBy
  <2> HIDE DEF s
  <2> QED BY <1>3, <2>1 DEF ReportApplied, s
<1> HIDE DEF s
<1>6. /\ Sound(r) /\ r.snapshot = s.snapshot
      /\ \/ r.trial \in {s.trial, None}
         \/ /\ s.trial # None /\ r.trial # None
            /\ r.trial.journal = s.trial.journal
            /\ TrialAsAsked(s, Display, trial, mode)
  <2>1. Sound(r) /\ SameTrial(r, s)
    BY <1>2, TrialAfterSound
  <2>2. r.snapshot = s.snapshot
    BY <1>2, LetGoKeepsRecord DEF TrialAfter, SameLook, Sound, OutputState
  <2>3. ~TrialAsAsked(s, Display, trial, mode) => r.trial \in {s.trial, None}
    BY <1>2, TakeTrialBackSound DEF TrialAfter
  <2> HIDE DEF r
  <2> QED BY <2>1, <2>2, <2>3 DEF SameTrial
<1>7. t = ContentAfter(r, Display, trial, mode)
  BY DEF AfterApplied
<1> HIDE DEF r, t
<1>8. t.trial = r.trial /\ t.snapshot = r.snapshot
  BY <1>6, <1>7 DEF ContentAfter, Sound, OutputState
<1>9. Handled
  BY <1>1, <1>2, <1>4, <1>5, <1>6, <1>8 DEF Handled
<1>10. CASE out'.trial \in {s.trial, None}
  BY <1>2, <1>9, <1>10 DEF TrialStays
<1>11. CASE out'.trial \notin {s.trial, None}
  BY <1>2, <1>4, <1>6, <1>8, <1>9, <1>11 DEF TrialAsAsked
<1> QED BY <1>10, <1>11

LEMMA ReportFailedHandled ==
    ASSUME Sighted, NEW trial \in TrialIds \cup {None}, NEW ok \in BOOLEAN,
           ReportFailed(Display, trial, ok)
    PROVE  Handled /\ TrialStays
<1> DEFINE s == Follow(ok)
<1>1. IInv' /\ RecordStep /\ published' = published /\ up
  BY OwnerAssumption, Handles DEF OwnerStep, ReportFailed, Followed
<1>2. Sound(out) /\ Sound(s) /\ s.trial \in {out.trial, None} /\ s.snapshot = Here
  BY <1>1, FollowHere DEF Sighted, IInv
<1>3. FollowEvents \subseteq Events /\ Recovery \subseteq Events /\ Changed \in Events
  BY <1>2, FollowEventsSent DEF Events
<1>4. s.trial # None => TakenBack(s.trial) \subseteq Events
  BY <1>2, TakenBackEvents
<1> HIDE DEF s
<1>5. out' \in {s, TakeTrialBack(s)} /\ sent' \subseteq Events
  BY <1>3, <1>4 DEF ReportFailed, s
<1>6. out'.trial \in {s.trial, None} /\ out'.snapshot = s.snapshot
  BY <1>2, <1>5, TakeTrialBackSound, LetGoKeepsRecord DEF SameLook
<1> QED BY <1>1, <1>2, <1>5, <1>6 DEF Handled, TrialStays

----------------------------------------------------------------------------
(* The daemon's half of the invariant.                                        *)

\* A setting left to the offer is one the kernel takes, and so is one bound to
\* another display: it is left to the offer.
LEMMA ForOfferProper ==
    ASSUME NEW stored \in Setting \cup {None}, NEW sink \in Sinks,
           stored \in Setting => Proper(stored)
    PROVE  Proper(ForOffer(stored, sink))
<1>1. stored # Legacy
  BY NoneAssumption
<1>2. Resolve(Display, Automatic) = Preferred[Display]
  BY OffersAssumption, OwnerAssumption, NoneAssumption DEF Resolve
<1>3. \/ ForOffer(stored, sink) = [sink |-> sink, choice |-> Automatic]
      \/ stored \in Setting /\ ForOffer(stored, sink) = stored
  BY <1>1 DEF ForOffer, ForSink
<1> QED BY <1>2, <1>3, OwnerAssumption DEF Proper, Taken

\* What a step of the record may do to what is on disk.
LEMMA StoredMoves ==
    ASSUME RecordStep
    PROVE  \/ out'.stored = out.stored
           \/ \E sink \in Sinks : out'.stored = ForOffer(out.stored, sink)
           \/ /\ out.trial # None /\ out.trial.applied
              /\ out'.stored = out.trial.journal.setting
<1>1. CASE Record!Accept
  BY <1>1 DEF Record!Accept
<1>2. CASE Record!Look
  BY <1>2 DEF Record!Look
<1>3. CASE UNCHANGED Record!vars
  BY <1>3 DEF Record!vars
<1> QED BY <1>1, <1>2, <1>3 DEF RecordStep, Record!Next

LEMMA StoredProper ==
    ASSUME DaemonSound, RecordStep, IInv'
    PROVE  out'.stored # Legacy /\ (out'.stored \in Setting => Proper(out'.stored))
<1>1. out.stored \in Setting \cup {None} /\ (out.stored \in Setting => Proper(out.stored))
  BY DEF DaemonSound, Sighted, IInv, Sound, Stopped, OutputState
<1>2. CASE out'.stored = out.stored
  BY <1>2 DEF DaemonSound
<1>3. ASSUME NEW sink \in Sinks, out'.stored = ForOffer(out.stored, sink)
      PROVE  out'.stored # Legacy /\ Proper(out'.stored)
  BY <1>1, <1>3, ForOfferBound, ForOfferProper, NoneAssumption
<1>4. CASE out.trial # None /\ out.trial.applied /\ out'.stored = out.trial.journal.setting
  <2>1. out.trial.journal.setting \in Setting
    BY <1>4 DEF DaemonSound, Sighted, IInv, Sound, Stopped, OutputState, Trial, Journal
  <2> QED BY <1>4, <2>1, NoneAssumption DEF DaemonSound
<1> QED BY <1>2, <1>3, <1>4, StoredMoves

\* A handler keeps the daemon's half if a trial it leaves applied was so
\* before, or was on the wire.
LEMMA DaemonStays ==
    ASSUME DaemonSound, Handled, committed' = committed, troubled' = troubled,
           \/ TrialStays
           \/ out'.trial # None /\ out'.trial.applied = FALSE
           \/ /\ out'.trial # None
              /\ Had(out'.trial.journal.id) /\ Proper(out'.trial.journal.setting)
    PROVE  DaemonSound'
<1>1. Sighted'
  BY DEF DaemonSound, Handled, Sighted, Here
<1>2. out'.stored # Legacy /\ (out'.stored \in Setting => Proper(out'.stored))
  BY StoredProper DEF Handled
<1>3. out'.trial # None /\ out'.trial.applied =>
          Had(out'.trial.journal.id) /\ Proper(out'.trial.journal.setting)
  BY DEF DaemonSound, TrialStays
<1> QED BY <1>1, <1>2, <1>3 DEF DaemonSound, Had, Proper, Taken

\* What the interface does leaves the daemon's half, and what it has had only
\* grows.
LEMMA DaemonUntouched ==
    ASSUME DaemonSound, UNCHANGED <<published, followed, up, out, timers, troubled>>,
           committed \subseteq committed'
    PROVE  DaemonSound'
BY DEF DaemonSound, Sighted, Here, IInv, Had, Proper, Taken

\* What a handler sends leaves what the interface has as it was.
LEMMA InterfaceHears ==
    ASSUME InterfaceSound, Handled, Emit,
           UNCHANGED <<tv, wanted, answers, reports, history>>,
           trying' \in Choices \cup {None}, requests' \in 0..MaxRequests
    PROVE  InterfaceSound'
<1>1. channel' \subseteq Events
  BY DEF InterfaceSound, Handled, Emit
<1>2. OwnerTypeOK'
  BY DEF InterfaceSound, OwnerTypeOK, history
<1> QED BY <1>1, <1>2 DEF InterfaceSound, Had, Proper, Taken, history

----------------------------------------------------------------------------
(* The steps.                                                                 *)

LEMMA OwnerInitSound == OwnerInit => OwnerInv
<1> SUFFICES ASSUME OwnerInit PROVE OwnerInv
  OBVIOUS
<1>1. IInv /\ published = Here /\ out.snapshot = None /\ out.trial = None /\ out.stored = None
  <2>1. \E stored \in Setting \cup {None, Legacy}, matching \in BOOLEAN :
            out = [stored |-> stored, journal |-> None, plan |-> None, snapshot |-> None,
                   kept |-> Unbound, trial |-> None, content |-> None,
                   matching |-> matching, handover |-> FALSE]
    BY DEF OwnerInit, Init
  <2> QED BY <2>1, InitSound DEF OwnerInit, Here
<1>2. DaemonSound
  BY <1>1, NoneAssumption DEF DaemonSound, Sighted
<1>3. InterfaceSound
  BY OwnerAssumption DEF OwnerInit, InterfaceSound, OwnerTypeOK
<1> QED BY <1>2, <1>3 DEF OwnerInv

LEMMA BudgetSpent ==
    ASSUME InterfaceSound, Budget
    PROVE  requests' \in 0..MaxRequests
BY OwnerAssumption DEF InterfaceSound, OwnerTypeOK, Budget

LEMMA FromOutsideSound == OwnerInv /\ FromOutside => OwnerInv'
<1> SUFFICES ASSUME OwnerInv, FromOutside PROVE OwnerInv'
  OBVIOUS
<1> USE DEF OwnerInv
<1>1. Sighted /\ OwnerTypeOK
  BY DEF DaemonSound, InterfaceSound
<1>2. ASSUME NEW choice \in Asked, AskForTrial(choice) PROVE OwnerInv'
  <2>1. DaemonSound'
    BY <1>2, DaemonUntouched DEF AskForTrial, history
  <2>2. OwnerTypeOK'
    BY <1>1, <1>2, BudgetSpent, OwnerAssumption DEF OwnerTypeOK, AskForTrial, history
  <2> QED BY <1>2, <2>1, <2>2 DEF InterfaceSound, AskForTrial, history, Had, Proper, Taken
<1>3. CASE Decide
  <2>1. Handled /\ TrialStays
    BY <1>1, <1>3, KeepHandled, EndHandled DEF Decide
  <2> QED
    BY <1>1, <1>3, <2>1, BudgetSpent, DaemonStays, InterfaceHears DEF Decide, history, OwnerTypeOK
<1>4. CASE PlayFilm
  <2>1. Handled /\ TrialStays
    BY <1>1, <1>4, ContentStartHandled, ContentEndHandled DEF PlayFilm
  <2> QED
    BY <1>1, <1>4, <2>1, BudgetSpent, DaemonStays, InterfaceHears DEF PlayFilm, history, OwnerTypeOK
<1>5. CASE TransitionBegins
  <2>1. Handled /\ TrialStays
    BY <1>1, <1>5, EndHandled DEF TransitionBegins
  <2> QED
    BY <1>1, <1>5, <2>1, BudgetSpent, DaemonStays, InterfaceHears
    DEF TransitionBegins, history, OwnerTypeOK
<1>6. CASE TvCrashes
  <2>1. DaemonSound'
    BY <1>6, DaemonUntouched DEF TvCrashes, TvGone, history
  <2>2. OwnerTypeOK'
    BY <1>1, <1>6, BudgetSpent DEF OwnerTypeOK, TvCrashes, TvGone, history
  <2> QED BY <1>6, <2>1, <2>2 DEF InterfaceSound, TvCrashes, TvGone, history, Had, Proper, Taken
<1>7. CASE DaemonCrashes
  <2>1. Handled /\ TrialStays
    BY <1>1, <1>7, CrashHandled DEF DaemonCrashes
  <2>2. DaemonSound'
    BY <1>7, <2>1, DaemonStays DEF DaemonCrashes, history
  <2>3. OwnerTypeOK'
    BY <1>1, <1>7, BudgetSpent DEF OwnerTypeOK, DaemonCrashes, history
  <2> QED BY <1>7, <2>2, <2>3 DEF InterfaceSound, DaemonCrashes, history, Had, Proper, Taken
<1> QED BY <1>2, <1>3, <1>4, <1>5, <1>6, <1>7 DEF FromOutside

\* What the daemon answers with is a setting, and a trial if it is one.
LEMMA InForceOnTheWire ==
    ASSUME NEW s, Sound(s), HasOffer(s)
    PROVE  InForce(s) \in OnTheWire
<1>1. s.trial # None => s.trial.journal \in Journal
  BY DEF Sound, OutputState, Trial
<1>2. s.content # None => s.content.setting \in Setting
  BY DEF Sound, OutputState, Content
<1>3. s.kept \in Setting
  BY DEF Sound, KeptBound
<1> QED BY <1>1, <1>2, <1>3 DEF InForce, OnTheWire, Journal

LEMMA ModeIsMode ==
    ASSUME NEW w \in OnTheWire
    PROVE  Mode(w) \in Modes
BY OffersAssumption, OwnerAssumption DEF Mode, Resolve

\* A report of what the interface drives says what was on the wire.
LEMMA AppliedReportSound ==
    ASSUME NEW w \in OnTheWire
    PROVE  /\ AppliedReport(w) \in Reports
           /\ AppliedReport(w).trial = w.trial /\ AppliedReport(w).mode = Mode(w)
BY ModeIsMode DEF AppliedReport, Reports, OnTheWire

\* A new interface drives what is on disk, which was on the wire before.
LEMMA StartsProper ==
    ASSUME DaemonSound
    PROVE  LET w == [setting |-> ForOffer(out.stored, Display), trial |-> None] IN
           w \in OnTheWire /\ Proper(w.setting)
<1>1. out.stored \in Setting \cup {None} /\ (out.stored \in Setting => Proper(out.stored))
  BY DEF DaemonSound, Sighted, IInv, Sound, Stopped, OutputState
<1>2. ForOffer(out.stored, Display) \in Setting
  BY <1>1, ForOfferBound, OwnerAssumption
<1> QED BY <1>1, <1>2, ForOfferProper, OwnerAssumption DEF OnTheWire

LEMMA SwitchOutputSound == OwnerInv /\ SwitchOutput => OwnerInv'
<1> SUFFICES ASSUME OwnerInv, SwitchOutput PROVE OwnerInv'
  OBVIOUS
<1>1. /\ tv \in OnTheWire /\ wanted \in OnTheWire /\ reports \subseteq Reports
      /\ committed \subseteq TrialIds /\ Had(tv.trial) /\ Proper(tv.setting)
      /\ wanted.trial \in TrialIds \cup {None}
  BY DEF OwnerInv, InterfaceSound, OwnerTypeOK, SwitchOutput, OnTheWire
<1>2. DaemonSound'
  BY DaemonUntouched DEF OwnerInv, SwitchOutput, history
<1>3. CASE Takes(wanted)
  <2>1. /\ tv' = wanted /\ wanted' = None /\ troubled' = troubled
        /\ reports' = reports \cup {AppliedReport(wanted)}
        /\ committed' = committed \cup ({wanted.trial} \ {None})
    BY <1>3 DEF SwitchOutput
  <2>2. wanted.trial \in committed' \cup {None} /\ Taken(Mode(wanted))
    BY <1>1, <1>3, <2>1 DEF Takes, Taken, Proper, Mode
  <2>3. OwnerTypeOK'
    BY <1>1, <2>1, AppliedReportSound DEF OwnerInv, InterfaceSound, OwnerTypeOK, SwitchOutput
  <2>4. \A r \in reports' : r.type = "Applied" => (Had(r.trial) /\ Taken(r.mode))'
    BY <1>1, <2>1, <2>2, AppliedReportSound DEF OwnerInv, InterfaceSound, Had, Taken
  <2>5. tv' # None => (Had(tv.trial) /\ Proper(tv.setting))'
    BY <2>1, <2>2 DEF Had, Taken, Proper, Mode
  <2> QED BY <1>2, <2>3, <2>4, <2>5 DEF OwnerInv, InterfaceSound, SwitchOutput
<1>4. CASE ~Takes(wanted)
  <2>1. /\ tv' = tv /\ wanted' = None /\ troubled' = troubled /\ committed' = committed
        /\ reports' = reports \cup {FailedReport(wanted), AppliedReport(tv)}
    BY <1>4 DEF SwitchOutput, history
  <2>2. Had(tv.trial) /\ Taken(Mode(tv))
    BY <1>1 DEF Proper, Mode
  <2>3. FailedReport(wanted) \in Reports /\ FailedReport(wanted).type # "Applied"
    BY <1>1 DEF FailedReport, Reports
  <2>4. OwnerTypeOK'
    BY <1>1, <2>1, <2>3, AppliedReportSound DEF OwnerInv, InterfaceSound, OwnerTypeOK, SwitchOutput
  <2>5. \A r \in reports' : r.type = "Applied" => (Had(r.trial) /\ Taken(r.mode))'
    BY <1>1, <2>1, <2>2, <2>3, AppliedReportSound DEF OwnerInv, InterfaceSound, Had, Taken
  <2>6. tv' # None => (Had(tv.trial) /\ Proper(tv.setting))'
    BY <1>1, <2>1 DEF Had, Taken, Proper
  <2> QED BY <1>2, <2>4, <2>5, <2>6 DEF OwnerInv, InterfaceSound, SwitchOutput
<1> QED BY <1>3, <1>4

\* What the interface hears, asks and answers puts nothing on the wire.
LEMMA HearsSound ==
    ASSUME OwnerInv,
           \/ \E event \in channel : Hear(event)
           \/ \E w \in answers : FollowOutput(w)
           \/ LoseApply \/ TvStops \/ Connect \/ TvStarts
    PROVE  OwnerInv'
<1>1. DaemonSound' /\ committed' = committed /\ troubled' = troubled
  <2>1. /\ UNCHANGED <<published, followed, up, out, timers, troubled>>
        /\ committed' = committed
    BY DEF Hear, FollowOutput, LoseApply, TvStops, TvGone, Connect, TvStarts, history
  <2> QED BY <2>1, DaemonUntouched DEF OwnerInv
<1>2. ASSUME NEW event \in channel, Hear(event) PROVE InterfaceSound'
  <2>1. event \in Events
    BY <1>2 DEF OwnerInv, InterfaceSound
  <2>2. event.type = "Apply" => [setting |-> event.setting, trial |-> event.trial] \in OnTheWire
    BY <2>1 DEF Events, OnTheWire, Changed, Recover
  <2>3. OwnerTypeOK'
    BY <1>1, <1>2, <2>2 DEF OwnerInv, InterfaceSound, OwnerTypeOK, Hear
  <2> QED BY <1>1, <1>2, <2>3 DEF OwnerInv, InterfaceSound, Hear, Had, Proper, Taken
<1>3. CASE (\E w \in answers : FollowOutput(w)) \/ LoseApply \/ TvStops
  <2>1. OwnerTypeOK'
    BY <1>1, <1>3
    DEF OwnerInv, InterfaceSound, OwnerTypeOK, FollowOutput, LoseApply, TvStops, TvGone
  <2> QED
    BY <1>1, <1>3, <2>1
    DEF OwnerInv, InterfaceSound, FollowOutput, LoseApply, TvStops, TvGone, Had, Proper, Taken
<1>4. CASE Connect \/ TvStarts
  <2>1. /\ tv' \in OnTheWire /\ reports' = reports \cup {AppliedReport(tv')}
        /\ Had(tv'.trial) /\ Proper(tv'.setting)
    <3>1. CASE Connect
      BY <3>1 DEF Connect, OwnerInv, InterfaceSound, OwnerTypeOK
    <3>2. CASE TvStarts
      <4>1. tv' = [setting |-> ForOffer(out.stored, Display), trial |-> None]
        BY <3>2 DEF TvStarts
      <4> QED BY <3>2, <4>1, StartsProper DEF TvStarts, OwnerInv, Had
    <3> QED BY <1>4, <3>1, <3>2
  <2>2. UNCHANGED <<wanted, channel, answers, trying, requests>>
    BY <1>4 DEF Connect, TvStarts
  <2>3. OwnerTypeOK'
    BY <1>1, <2>1, <2>2, AppliedReportSound DEF OwnerInv, InterfaceSound, OwnerTypeOK
  <2>4. \A r \in reports' : r.type = "Applied" => Had(r.trial) /\ Taken(r.mode)
    BY <2>1, AppliedReportSound DEF OwnerInv, InterfaceSound, Proper, Mode
  <2> QED BY <1>1, <2>1, <2>2, <2>3, <2>4 DEF OwnerInv, InterfaceSound, Had, Proper, Taken
<1> QED BY <1>1, <1>2, <1>3, <1>4 DEF OwnerInv

\* A report the daemon takes confirms only a trial that was on the wire.
LEMMA ReportArrivesSound ==
    ASSUME OwnerInv, NEW report \in reports, ReportArrives(report)
    PROVE  OwnerInv'
<1>1. report \in Reports /\ (report.type = "Applied" => Had(report.trial) /\ Taken(report.mode))
  BY DEF OwnerInv, InterfaceSound, OwnerTypeOK
<1>2. /\ UNCHANGED <<tv, wanted, answers, committed, troubled, trying, requests>>
      /\ reports' = reports \ {report} /\ Emit
  BY DEF ReportArrives, history
<1>3. OwnerTypeOK' /\ Sighted
  BY <1>2 DEF OwnerInv, DaemonSound, InterfaceSound, OwnerTypeOK
<1>4. DaemonSound' /\ sent' \subseteq Events
  <2>1. CASE report.type = "Applied" /\ ReportApplied(Display, report.trial, report.mode, TRUE)
    <3>1. report.trial \in TrialIds \cup {None} /\ report.mode \in Modes
      BY <1>1, <2>1 DEF Reports
    <3>2. /\ Handled
          /\ \/ TrialStays
             \/ /\ out'.trial # None
                /\ out'.trial.journal = out.trial.journal /\ out.trial.journal.id = report.trial
                /\ report.mode = Resolve(Display, out.trial.journal.setting.choice)
      BY <1>3, <2>1, <3>1, ReportAppliedHandled
    <3>3. out'.trial # None /\ ~TrialStays =>
              Had(out'.trial.journal.id) /\ Proper(out'.trial.journal.setting)
      BY <1>1, <2>1, <3>2 DEF Proper
    <3> QED BY <1>2, <3>2, <3>3, DaemonStays DEF OwnerInv, Handled
  <2>2. CASE report.type = "Failed" /\ ReportFailed(Display, report.trial, TRUE)
    <3>1. report.trial \in TrialIds \cup {None}
      BY <1>1, <2>2 DEF Reports
    <3>2. Handled /\ TrialStays
      BY <1>3, <2>2, <3>1, ReportFailedHandled
    <3> QED BY <1>2, <3>2, DaemonStays DEF OwnerInv, Handled
  <2>3. CASE sent' = {} /\ UNCHANGED <<published, followed, up, out, timers>>
    BY <1>2, <2>3, DaemonUntouched DEF OwnerInv
  <2> QED BY <2>1, <2>2, <2>3 DEF ReportArrives
<1>5. channel' \subseteq Events
  BY <1>2, <1>4 DEF OwnerInv, InterfaceSound, Emit
<1> QED BY <1>2, <1>3, <1>4, <1>5 DEF OwnerInv, InterfaceSound, Had, Proper, Taken

LEMMA ProgressSound == OwnerInv /\ (Progress \/ LoseApply) => OwnerInv'
<1> SUFFICES ASSUME OwnerInv, Progress \/ LoseApply PROVE OwnerInv'
  OBVIOUS
<1>1. Sighted /\ OwnerTypeOK /\ DaemonSound /\ InterfaceSound
  BY DEF OwnerInv, DaemonSound, InterfaceSound
<1>2. ASSUME NEW id \in TrialIds, NEW ok \in BOOLEAN, MakeTrial(id, ok) PROVE OwnerInv'
  <2>1. Handled /\ (TrialStays \/ (out'.trial # None /\ out'.trial.applied = FALSE))
    <3>1. trying \in Choices
      BY <1>1, <1>2 DEF OwnerTypeOK, MakeTrial
    <3> QED BY <1>1, <1>2, <3>1, TrySettingHandled DEF MakeTrial
  <2> QED
    BY <1>1, <1>2, <2>1, DaemonStays, InterfaceHears DEF MakeTrial, history, OwnerTypeOK, OwnerInv
<1>3. ASSUME NEW id \in TrialIds, TrialTimesOut(id) PROVE OwnerInv'
  <2>1. Handled /\ TrialStays
    BY <1>1, <1>3, EndHandled DEF TrialTimesOut
  <2> QED
    BY <1>1, <1>3, <2>1, DaemonStays, InterfaceHears
    DEF TrialTimesOut, history, OwnerTypeOK, OwnerInv
<1>4. CASE DaemonRestarts
  <2>1. Handled /\ TrialStays
    BY <1>1, <1>4, CrashHandled DEF DaemonRestarts
  <2>2. DaemonSound'
    BY <1>1, <1>4, <2>1, DaemonStays DEF DaemonRestarts, ownerVars
  <2> QED
    BY <1>1, <1>4, <2>2
    DEF DaemonRestarts, ownerVars, OwnerInv, InterfaceSound, OwnerTypeOK, Had, Proper, Taken
<1>5. CASE AnswerStatus
  <2>1. Handled /\ TrialStays /\ out'.snapshot = Here
    BY <1>1, <1>5, ReconcileHandled DEF AnswerStatus
  <2>2. DaemonSound'
    BY <1>1, <1>5, <2>1, DaemonStays DEF AnswerStatus, history
  <2>3. HasOffer(out') => InForce(out') \in OnTheWire
    <3>1. up' /\ IInv'
      BY <1>5, <2>1 DEF AnswerStatus, Reconcile, Followed, Handled
    <3>2. Sound(out')
      BY <3>1 DEF IInv
    <3> QED BY <3>2, InForceOnTheWire
  <2>4. OwnerTypeOK'
    BY <1>1, <1>5, <2>3 DEF OwnerTypeOK, AnswerStatus, history
  <2>5. channel' \subseteq Events
    BY <1>1, <1>5, <2>1 DEF AnswerStatus, Emit, Handled, InterfaceSound
  <2> QED
    BY <1>1, <1>5, <2>2, <2>4, <2>5
    DEF AnswerStatus, history, OwnerInv, InterfaceSound, Had, Proper, Taken
<1> QED
  BY <1>2, <1>3, <1>4, <1>5, HearsSound, SwitchOutputSound, ReportArrivesSound DEF Progress

----------------------------------------------------------------------------
\* OwnerInv holds in every reachable state.
THEOREM OwnerInvariance == OwnerSpec => []OwnerInv
<1>1. OwnerInv /\ UNCHANGED allVars => OwnerInv'
  <2> SUFFICES ASSUME OwnerInv, UNCHANGED allVars PROVE OwnerInv'
    OBVIOUS
  <2>1. DaemonSound'
    BY DaemonUntouched DEF OwnerInv, allVars, vars, ownerVars
  <2> QED
    BY <2>1
    DEF OwnerInv, InterfaceSound, OwnerTypeOK, Had, Proper, Taken, allVars, vars, ownerVars
<1>2. OwnerInv /\ [OwnerNext]_allVars => OwnerInv'
  BY <1>1, FromOutsideSound, ProgressSound DEF OwnerNext
<1> QED BY <1>2, OwnerInitSound, PTL DEF OwnerSpec

\* What travels between the daemon and the interface is always what their code
\* can send.
THEOREM OwnerTypeCorrect == OwnerSpec => []OwnerTypeOK
<1>1. OwnerInv => OwnerTypeOK
  BY DEF OwnerInv, InterfaceSound
<1> QED BY <1>1, OwnerInvariance, PTL

\* However reports cross, are late, repeated or lost, a trial counts as applied
\* only after the interface had it on the wire.
THEOREM AppliedShown == OwnerSpec => []AppliedWasShown
<1>1. OwnerInv => AppliedWasShown
  <2> SUFFICES ASSUME OwnerInv, out.trial # None, out.trial.applied
               PROVE  out.trial.journal.id \in committed
    BY DEF AppliedWasShown
  <2>1. out.trial.journal.id \in TrialIds
    BY DEF OwnerInv, DaemonSound, Sighted, IInv, Sound, Stopped, OutputState, Trial, Journal
  <2> QED BY <2>1, NoneAssumption DEF OwnerInv, DaemonSound, Had
<1> QED BY <1>1, OwnerInvariance, PTL

\* A mode the kernel refuses is never the one kept, however its failure, other
\* reports, crashes and the viewer's keep interleave.
THEOREM NeverRefused == OwnerSpec => []RefusedNeverKept
<1>1. OwnerInv => RefusedNeverKept
  BY DEF OwnerInv, DaemonSound, RefusedNeverKept, Proper, Taken
<1> QED BY <1>1, OwnerInvariance, PTL

----------------------------------------------------------------------------
(* The composition keeps the record's promise too.                            *)

\* What happens to the display setting is a step of OutputSetting: the
\* interface, its requests and its reports reach it by no other way.
LEMMA OnlyThroughTheDaemon == OwnerInv /\ OwnerNext => Next \/ out' = out
<1> SUFFICES ASSUME OwnerInv, OwnerNext PROVE Next \/ out' = out
  OBVIOUS
<1>1. OwnerTypeOK /\ Display \in Sinks
  BY OwnerAssumption DEF OwnerInv, InterfaceSound
<1>2. CASE FromOutside
  BY <1>2
  DEF FromOutside, AskForTrial, Decide, PlayFilm, TransitionBegins, TvCrashes, TvGone, DaemonCrashes,
      Next, TrialStep, ContentStep, OwnerStep, CrashStep
<1>3. ASSUME NEW id \in TrialIds, NEW ok \in BOOLEAN, MakeTrial(id, ok) PROVE Next
  <2>1. trying \in Choices /\ TrySetting(id, trying, ok)
    BY <1>1, <1>3 DEF OwnerTypeOK, MakeTrial
  <2> QED BY <2>1 DEF Next, TrialStep
<1>4. ASSUME NEW report \in reports, ReportArrives(report) PROVE Next \/ out' = out
  <2>1. report \in Reports
    BY <1>1 DEF OwnerTypeOK
  <2>2. report.trial \in TrialIds \cup {None} /\ (report.type = "Applied" => report.mode \in Modes)
    BY <2>1 DEF Reports
  <2> QED BY <1>1, <1>4, <2>2 DEF ReportArrives, Next, OwnerStep
<1>5. CASE \/ \E id \in TrialIds : TrialTimesOut(id)
           \/ DaemonRestarts \/ AnswerStatus
  BY <1>5 DEF TrialTimesOut, DaemonRestarts, AnswerStatus, Next, TrialStep, CrashStep
<1>6. CASE \/ TvStops \/ TvStarts \/ Connect \/ SwitchOutput \/ LoseApply
           \/ \E event \in channel : Hear(event)
           \/ \E w \in answers : FollowOutput(w)
  BY <1>6 DEF TvStops, TvGone, TvStarts, Connect, SwitchOutput, LoseApply, Hear, FollowOutput
<1> QED BY <1>2, <1>3, <1>4, <1>5, <1>6 DEF OwnerNext, Progress

\* With the interface that shows it, over reports and events that cross or are
\* lost, the record on disk still changes only as a viewer was promised.
THEOREM PromiseKeptTogether == OwnerSpec => KeepsItsPromise
<1>1. OwnerInit => Record!Init
  BY DEF OwnerInit, Init, Record!Init
<1>2. OwnerInv /\ [OwnerNext]_allVars => RecordStep
  <2> SUFFICES ASSUME OwnerInv, [OwnerNext]_allVars PROVE RecordStep
    OBVIOUS
  <2>1. IInv
    BY DEF OwnerInv, DaemonSound, Sighted
  <2>2. Next \/ out' = out
    BY OnlyThroughTheDaemon DEF allVars, vars
  <2>3. CASE Next
    BY <2>1, <2>3, StepRecord
  <2>4. CASE out' = out
    BY <2>4, SameLooks, LooksAndLeaves DEF SameLook
  <2> QED BY <2>2, <2>3, <2>4
<1> QED BY <1>1, <1>2, OwnerInvariance, PTL DEF OwnerSpec, KeepsItsPromise, Record!Spec, RecordStep
=============================================================================
