# Verification of rk3588-mediabox

TLA+ modules for the control plane of the MediaBox appliance, the TLC runs that
check them on small instances, and theorems that TLAPS checks for every value
of the constants. `PROJECT.json` maps each definition to the lines it models,
lists the runs, their properties and a mutant that breaks each of them, the
hazards of the code, and what was found.

## The system

The appliance is a television box. One process, `mediaboxd-rs`, is the control
plane: a multi-threaded tokio program with one Unix socket, on which every
request is a task of its own. Around it:

| part | state it keeps | talks to the others by |
|---|---|---|
| display setting, `mediaboxd-rs/src/output.rs` | the setting kept per display, a trial with its journal, a film's match, a plan file | requests, an event channel of 16, files |
| display owner, `mediabox-tv` | what is on the wire, what is wanted next | events, status answers, owner reports |
| observer, `mediabox-platform` | a snapshot of the display with a generation | a file that is stale after ten seconds |
| film starts, `playback.rs` | three atomics: begun, busy, called off | calls |
| playback supervisor, `playback.rs` | the film playing, how the last one ended | calls, effects run as tasks |
| starting films, `daemon.rs` and `player.rs` | the player's film number, its unit, the worker's sessions | systemd, the player's socket, the worker's HTTP |
| live television, `live.rs` | the receiver's token and lifecycle, its FIFO, `select.json` | systemd, files, a FIFO |
| display handover, `transition.rs`, `lifecycle.rs`, `owner.rs`; the scripts `mediabox-display-guard`, `-recover`, `-changed` | a gate, a file lock, the owner on record, where the remote goes | systemd, the lock file |
| media worker, `media/proxy` (Python) | sessions, ffmpeg children, a reaper thread | HTTP |
| receiver, `mediabox-dvb` | the search, the quarantine of a new stream, what is waited for | `select.json`, a status file, a FIFO, USB |
| sound, CEC, LEDs, fan, network, subtitles, web page | settings and small policies | files, sysfs, D-Bus, HTTP |

What is hard in it: requests interleave at every await; a film's start takes
seconds and may be overtaken by a newer one or by Back; reports, answers and
events cross on separate connections; the daemon or the interface may die at
any step and restart from what is on disk; trials have timers; the worker
answers after its client gave up; one systemd unit serves every player; Kodi may
end by itself while the television changes hands; a pipe can be read once and
has several readers; and a receiver must tell a signal that is gone from a
service that is not there, and the new stream from the tail of the old one.

What makes each part correct, in short:

* display setting: nothing is kept that the viewer did not accept after it was
  shown on that display; whatever else happens, the kept setting comes back;
* display owner: the wire comes to show what is in force;
* starts: only the newest goes on; Back has the last word;
* supervisor: each film ends once, for the reason the viewer would give;
* starting a film or a channel: what plays is what is on record, and nothing
  (player, session, receiver, matched mode) stays behind for nobody;
* handover: one owner of the display at a time, what was asked for is what is
  shown, and the console is never what is left;
* sessions: one encoder each that is not about to be ended, no reader cut off by
  another, none kept that nobody is counted of;
* receiver: what is let through is the channel's, and a signal that comes back
  brings the picture back.

## Modules

| module | models | action = |
|---|---|---|
| `OutputSetting` | `output.rs`, with the stored forms of `mediabox-core/src/output.rs` | one public method, under the state's lock |
| `DisplayRecord` | abstract: what a viewer is promised of the kept setting | |
| `DisplayOwner` | `OutputSetting` composed with `mediabox-tv`'s half (`main.rs`, `platform.rs`) | a method, a message delivered, a frame |
| `Starts` | `begin_start`, `call_off_starts`, the guard | one atomic operation |
| `Playback` | `Supervisor` and its effects | one method, or one effect carried out |
| `FilmStart` | `play_here`, `play_on_kodi`, Back, `handoff_to_kodi`, `cec_source_lost`, the followers, the sweep; INSTANCEs `Starts` and `Playback` | what a task does between two awaits |
| `LiveStart` | `play_live`, `LiveManager`, `reload_live`, Back, the followers of a channel, the display's match; INSTANCEs `Starts` and `Playback` | what a task does between two awaits |
| `Handover` | the gate, `switch`, `launch`, `restart`, `set_display_owner`, the daemon's start; `packaging/mediabox-display-guard`, `-recover`, `-changed`; the observer's hold; systemd | a step between two awaits, or of a script |
| `MediaSession` | `media/proxy/session.py` with its callers in `api.py` and `server.py` | what is done under one taking of the manager's lock |
| `Receiver` | `mediabox-dvb`: the loop of `service.rs`, `ts.rs`'s gate, `tune.rs`'s search | one decision of the loop |

`MC*` modules hold the values given to constants that are functions.
`*Proofs` modules hold theorems and lemmas.

### OutputSetting

`out` is `struct State` with the files it writes: the record, the journal, the
plan, the snapshot and what was made of it, the trial, the film's match.
`published` and `followed` are the observer's snapshot and whether the state's
copy is of its generation; `timers` the fifteen-second tasks; `sent` the events
of the last operation. A step of the code is a composition of operators named
for the functions (`Follow`, `ResolveKept`, `WritePlan`, `TakeTrialBack`,
`MatchFilm`), and each action is one method, trailing writes included. Failed
writes of the record and of the journal are a choice of the action; a failed
write of the plan file is not modelled. A crash keeps what is on disk.
Abstractions: colours are folded into the resolution's "choice"; what the owner
last reported (`applied`) is kept only as whether the trial and the match were
confirmed; notes, errors and wording are left out.

### DisplayOwner

Adds the interface: what it drives (`tv`), what it will put on next
(`wanted`), its connection, and the events, status answers and reports on
their way as sets, so that they arrive in any order and events may be lost
(the channel lags). It may crash and restart, and a transition may stop it.
`Refused` are modes the kernel does not take.

### Starts and Playback

`begin_start` is three atomics without a lock, so its three steps and the two
of `call_off_starts` interleave freely. `Playback` takes positions as the three
places a verdict tells apart; a signal of the player is one of four; each
effect is delivered by a task of its own, in any order. The two share nothing, so
`MCSupervisor` runs each with the other at rest: their interleavings are no more
than what each does.

### FilmStart and LiveStart

A task is where it stands between two awaits: `at[t]` in `FilmStart`, the steps
still to be taken, `todo[t]`, in `LiveStart`, where the same stop sequences
(`PlayerManager::stop`, `LiveManager::stop`) are spliced into several tasks.
The player's film number (`pnum`), what it is `playing` and its `unit` are
separate, because the code changes them at separate times. The worker may make
a session after its client gave up (`late`). Environment: systemd takes one
unit of a name at a time; the interface's unit conflicts with Kodi's and the
player's is bound to the interface's.

The follower of a channel (`End`) says that it is over when the player's film
number has moved on, when its unit is gone, and, where things may fail, when two
polls of the player went unanswered although it runs and the film is on: then it
takes the match back under the picture, as the code does.

Back, `cec_source_lost` and `handoff_to_kodi` are tasks beside the starts
(`Asides`); `MaxAsides` of them come in a run. They take the steps of a stop and
of a switch that the starts take.

Approximations in `FilmStart`: one sweep at a time; the sweep's window (four
times the worker's timeout) outlasts every late answer, so a sweep ends by
having looked once at a quiet moment, and the listing failing is left out.
In `LiveStart`: what may go wrong is divided into worlds (failures with the
display matched, or Back), since both together are ten million states; no tuner
retune is told apart from a change of service, since `switch` waits the same for
both; a failure is any of the reasons the code
gives up for, at once; `life = "Cleaned"` stands for "no token", whatever the
lifecycle is called.

### Handover

`unit[x]` is what systemd says of a unit: `On`, `Ending` (told to stop),
`Stopped`, `Ended` and `Crashed` (Kodi is gone and its `ExecStopPost=` has yet to
run), `Restarting`, `Off`. Starting one ends those it conflicts with: at the same
time, unless one is ordered after the other, which only screenbridge is
(`InTheWay`). `task[t]` is a handover in the daemon, `inside` the mutex and
`lock` the file's exclusive hold; the observer's shared hold is `reading`,
because `flock -n -s` of the guard is refused by the first and not by the
second. The stops are a sequence, as `switch` (one unit) and `launch` (every
owner of `config/mediabox-applications.json`) make it. A world says how often
each thing may happen (requests, restarts, Kodi's ends, displays plugged in,
deaths of the daemon, refusals), so that one run asks of each pair of them.

Approximations: the lock is waited for as long as it takes (the code goes on
without it after thirty seconds); the 600 ms after a stop is the unit being gone;
the preparation of a new display, and what `switch_surface` does to a film, are
left out; one systemd restart of a crashed Kodi.

### MediaSession

A request is where it stands between two takings of `SessionManager._lock`;
`session[i]` is the record; a child is running, being terminated, or has
exited; `stops` are the stops under way, which end their child outside the lock.
A rewind and a stop only let go of the child under the lock: it is then `due`, and
runs on until the thread that has it comes to its signal (`Tell`), with anything
in between, another request's start among it. Two threads may have the same child.
Idleness is a Boolean: the time to live has passed since `last_seen`. Forgetting
is five minutes later, when no request is still between two locks.
The answer whose client is gone before its header (`AnswerLost`) is bounded.
Not modelled: `shutdown`, and the building of the command.

### Receiver

One thread; each decision of a turn is an action of its own, taken in any
order, which includes the code's. Multiplexes, their transport stream numbers,
networks and programme lists, and what is locked at each offset, are a `world`.
The gate is `ts.rs`'s, with its counters as the set of what has been counted.
What the bridge still holds of the stream before is `tail`, delivered first. Its
sections carry no clock past the stop's, unless the stop was shorter than 200 ms
(`brief`): then the code takes any clock for the broadcast's (`ts.rs:861-867`), and
so does the gate here. On the air a clock is read with the first section, or
missed for its second and given up (`CLOCK_ABSENT`, `ts.rs:1099-1103`) by the second
one; the model takes it that the bridge has sent what it held within that second,
as the code's comment does.

Time: the ten seconds of a gate run from when it was made, and those of the
service from the stream's start or its selection (`ts.rs:1014`,
`service.rs:2015-2022`), whatever becomes of the signal. While it is lost they are
up at any moment (`TenSeconds`), and stay up when the lock is back; while it is
there they are up once what is on the air has been heard (`HeardEnough`), since
they are far more than a carrier's first tables take. So a signal that returns
after them, before a PAT, ends the receiver with `NoPat`, and between the PAT and
the PMT with `ServiceNotFound`.

Left out: the TKGS read, the scan, recordings, the writer, the ends for a stream
that carries nothing (`NoTransport`, a bridge that stops sending), the tables kept
of an access point over a change of channel on the same multiplex; a PAT that comes
broken (`PsiCorrupt`) is one with none.

## Runs

Bounds are constants of the configurations; every run ends in about three minutes at most.

| run | instance | shows |
|---|---|---|
| `setting` | 2 displays, 2 modes, 1 film, 2 trials alive | the safety invariants, and `OutputSetting` implements `DisplayRecord` |
| `owner` | 1 display, 2 requests, fair; a kernel that takes every mode, or one that refuses a mode with journal writes that fail | a trial counts as applied only if shown, a refused mode is never kept; with the first kernel every trial ends, the wire comes to agree and everything settles |
| `supervisor` | 4 starts, Backs; 2 films of every kind | only the newest goes on, none is called off ahead of itself, the count is exact; films end once and as asked; the account is never told of an end that was none |
| `film` | 2 starts here or on Kodi; Back, the television's leaving or a film handed to Kodi; failures | Back has the last word, the newest plays, no session stays behind, the sweep spares the film |
| `live` | 2 starts of 2 channels, with failures and matches, or with Back | the channel on record is what the receiver writes where the player reads; nothing plays unrecorded or after Back; no receiver without a player; its match is taken back under it by its own follower only |
| `handover` | 2 requests and one or two things that go wrong, fair | Kodi and the interface apart, handovers land, recovery only for a Kodi that ended, never a blank console, every handover ends |
| `session` | 2 readers, 1 session of a transformed or a direct source, 2 children, fair | no encoder beside one that nobody has in hand to end, readers counted and not cut off, what nobody is counted of is ended |
| `receiver` | 2 channels, 6 worlds, each with its own bounds: `select.json` written once (twice among the twins of two lists, never in the world of one channel), 1 loss (3 in the world of one channel, none with two writings), 1 unplugging in two of them, a tail of 3 sections, fair | a loss is no end of a channel found, a tail that is recognised is held back, only the channel's stream is let in, the picture comes back |
| `film_older_on_kodi` | 2 starts on Kodi | violated: the older is opened over the newer |
| `handover_recovery` | Kodi ends, the viewer asks for it again | violated: the recovery stops the Kodi that was asked for |
| `media_unread` | the instance of `session` | violated: a client gone before its header stays counted, and its session is kept |
| `receiver_offset` | a transponder beside its nominal frequency, the cable out at first | violated: it is never tried where it is |

Why the bounds are enough: a race of starts needs an older, a newer and Back;
`Starts` is checked with four and proved for any number. A third channel is
what distinguishes "another channel" from "the one before", and is where the
property of two fails. Two trials alive are one replaced by another while its
timer runs, the only way trials meet. Two displays with different mode lists
are one made for and one not. Back and a television that leaves in one run were
checked once (eighteen million states, nothing more found); the run takes one of
the three interruptions at a time.

A handover meets the lock, a Kodi that ends, a second handover and a recovery,
each once; the theorems hold for any number of them. Two readers are one that
reads and one that arrives; two children are an encoder and the one started in its
place. Two sessions were checked once (thirteen million states, readers
symmetric) with no more found; the liveness property is of one. Two channels
with two multiplexes, a neighbour that locks in the place of one, and twins are
what the gate and the search tell apart. What is kept of a loss is cleared by the
next channel, so one loss beside it is enough; a receiver left to its channel
loses the signal three times: before it is found, while it is searched for again,
and after.

`PlaysTheNewest` is stated for starts here only, with none handed to Kodi: with
Kodi among them the older start on Kodi takes the record from the newer film,
which is what `film_older_on_kodi` shows in its simplest form. `ChannelPlays`
holds until a start returns to a channel after another, which takes three, and
`ReceiverGoesWithPlayer` with Back or failures, not both; below is where they stop
to hold. `KodiUiApart`, `HandoverLands` and
`RecoveryOnlyWhenEnded` are stated until something changes hands past the gate
(`PastTheGate`), which the code does in four places, listed below too.

`handover_recovery`: Kodi ends; its guard finds the lock free and queues the
recovery; the viewer has asked for Kodi meanwhile. Either that switch is over
when the recovery looks at the lock once more, or it is waiting at the gate in
front of the recovery's own. Kodi is up again, and `surface switch ui` stops it.
The script calls this harmless.

`receiver_offset`: while there is no lock, every later try is a relock, which
tries one frequency, where the tuner last locked, and `locked_at` is 0 if it
never has. The search over the offsets is done once, without a signal.

`media_unread`: a reader is counted (`attach`, `read_direct`); its client closes
before the headers are written, which is before `_send_stream`'s `try`; nobody
reads or closes the stream, and the count stays. `AbandonedIsEnded`, which the code
keeps, is therefore of counts.

The violated properties quote a comment of the code that promises them; each
is a finding in `PROJECT.json`.

### Known disagreements without a run

The models also reach these, each in a few steps; no run is kept for them, and
the hazards of `PROJECT.json` give the lines.

* A display exchanged while the observer's snapshot is stale leaves the other
  display's trial running: `follow` takes the new one for the first.
* A request that is refused after `follow` ended a trial drops the events of it:
  nobody is told that the trial was taken back.
* `OutputTry` asks who holds the display and makes the trial an await later; a
  transition in between leaves a trial that nobody shows (its timer ends it).
* `try_setting` forgets the film's match before a journal write that may fail;
  the matched refresh then stays on the wire after the film.
* A start of a channel called off after it had the display matched leaves the
  match with no film, and the match is made under a film number the player's
  start then moves past.
* A film's match that the kernel refuses is asked for again after each report of
  the failure, for as long as the film plays; `Settles` is therefore stated of a
  kernel that takes every mode.
* `main.rs:147`: every effect of the supervisor is a task of its own, so a film's
  last position may be written to the account after its end, and a closed film
  stays open there (`playback.rs:28-32` says `closed` is sent when it ended).
* `daemon.rs:1409`: `handoff_to_kodi` reads which film plays, asks for its place
  and only then stops what plays and looks up its account entry. A film started in
  between is stopped, the older one opens in Kodi, and its progress is told to
  the newer one's entry (line 1440 says that "the film itself goes on, and so does
  what the account is told about it"). Not being a start, it is not called off by
  Back, nor by a newer film, whose record it then takes.
* `daemon.rs:826`: a film still opening when the television leaves goes on and
  plays to nobody; `cec_source_lost` calls no start off, as Back does.
* `daemon.rs:1114`: channel A, then B, then A at once. B's start has written
  `select.json` and is called off; A's finds A on record and answers that it is
  on already; the receiver goes to B and to a FIFO nobody reads.
* `daemon.rs:1225`: a start called off while the receiver is kept for a new
  player returns without stopping it, and Back, which saw neither a film nor a
  player, left it too: the LNB stays powered (`daemon.rs:1760` says it goes with
  its player).
* Handovers past the gate: `KodiRestart` is a `systemctl restart`
  (`daemon.rs:174`); screenbridge is started after the gate was let go
  (`daemon.rs:913`); a crashed Kodi is restarted by systemd, and reads as inactive
  to a switch while it waits; a daemon that dies leaves the unit it was stopping
  ending, and the next daemon's `stop_unit` passes it over as not active.
* Kodi that exits cleanly while `mediabox-display-changed`, or a transition that
  is nearly over, has the lock is taken for one that was stopped: nobody brings
  the interface back. (`NeverBlank` is of a Kodi that is gone with the lock free.)
* `ApplicationLaunch` never sets where the remote goes (`daemon.rs:477`;
  `switch_surface` does, and says why); `browser_open` does not record the owner;
  `SurfaceManager::switch` leaves stopping the browser to systemd.
* A reader whose session lost its child before it opened it (`session.py:396-399`
  fails before its `try`) stays counted as well: the session is never idle.
* Two encoders of one session may run at once. A rewind, or a stop, takes the child
  away under the lock and signals it afterwards (`session.py:382-394`,
  `464-477`); a second request's `_start` (428-441) may come in between. The docs
  say that this is "the failure this module exists to prevent"
  (`media-session-proxy.md:47-48`), and `session.py:10` "one child per session".
  `OneEncoderPerSession` is of children that nobody has in hand to end.
* A rewind, or a start after one, while `stop` waits outside the lock gives the
  session a child that the end of that stop forgets (`session.py:479-483`): it
  runs until nobody reads its pipe.
* A held session whose child exits is reaped (`session.py:547`; line 105 says a held
  session is never); a second `stop` of an old session takes the newer one of its
  source out of `_by_source`; a failed session is never forgotten.
* `service.rs:2481` says that the quarantine is decided "never by the tail of the
  transport stream left", and `ts.rs:802` that none of it may reach the selector.
  Where the channel is changed before an SDT of the first multiplex was read, and
  both are of one network, `network_verdict` (`ts.rs:1318`) cannot tell the network
  left from the channel's: a PAT of the tail is held for its SDT, the SDT confirms
  its number, and its next PAT is let in (the number the list expects is not
  compared there). It takes three sections of a tail, as the bound of `receiver`
  allows; the code's own measurement is of tails with one PAT. Without the left
  multiplex's programmes, or without a list and without a clock, one PAT does.
  `Recognised`, in `TailHeldBack`, names what it takes that it does not happen.
* A signal that comes back by itself after ten seconds is not waited for where the
  channel had not been found: with no PAT it is `NoPat` on the next turn
  (`service.rs:2607-2610`, then 2485-2511 and 2165-2167), between the PAT and the PMT
  a service not found (2015-2022). `service.rs:2640-2641` says that without a signal
  the service "cannot be found; that is no signal, not a service missing", and
  134-136 that the transponder is tried until it is back. `LossIsNoEnd` is of a
  receiver that has found its channel.
* A receiver started in standby and first asked, after ten seconds, for the very
  channel it was started for has used up the time of its service: it counts from
  the stream's start (`since`, 2385), which such a selection does not set again.
* After a stop shorter than 200 ms the tail passes for the broadcast; the code says
  so (`ts.rs:866-867`). `TailHeldBack` excepts it (`brief`).
* The player's own follower takes the display's match back after two unanswered
  polls, under a film that goes on (`daemon.rs:3153-3162`). `MatchStays` excepts it.
* `locked_at` is kept over a change of transponder, so the first relock of the
  new one is beside it; a second `select.json` for the same transponder gives its
  search up and can end it as a service not found; two quick changes forget the
  multiplex that was left; after an unplugging the channel the receiver was
  started for is tuned, not the one asked for last; out of standby the network is
  not asked about. `ComesBack` and `OnlyTheChannels` name these exceptions.

Fairness: `owner` assumes that a task that is due goes on: a timer's whose
sleep is over, an event, a report or an answer on its way, the interface's next
frame, a unit systemd restarts. `handover`: systemd finishes what it was told,
the daemon's tasks and the scripts run on, and who polls the lock (every ten
milliseconds, or `flock -w`) gets it between the observer's short holds: strong
fairness, of the two claims only. `session`: the reaper's thread runs on, time
passes, a child let go of is signalled and, signalled, gone (it is killed after
its grace). `receiver`: ten seconds pass; each decision of the loop is taken if it
stays due; `select.json` is looked at first in every turn, whatever the rest of
the turn does: strong fairness of that one. The signal, the viewer, Kodi and clients owe nothing. No safety property
uses fairness.
`CHECK_DEADLOCK FALSE` is said where a bounded instance stops when its requests
are used up.

## Proofs

* `DisplayProofs`, of `OutputSetting`: `Invariance` is `Spec => []IInv`. `IInv` says that the
  state a method works on is `Sound`: well typed; the kept setting is one of
  the display seen (`KeptBound`), without which neither a plan nor a trial's
  `previous` would be; the plan is the kept setting (`PlanSound`); the trial and
  its journal agree and exclude a match (`TrialSound`); and that the trial has
  a timer. None of the named invariants is inductive alone: `TrialBound` needs
  `KeptBound`, which needs what `Follow` does before anything else looks. There
  is a lemma per operator and one step per action. `TypeCorrect`,
  `TrialsAreJournalled`, `TrialsAreTimed`, `OneClaim`, `PlansAreOfTheSink` and
  `TrialsAreBound` follow. Assumptions: `OffersAssumption` and `NoneAssumption`
  (a display's preferred mode is one of its modes; the special values are not
  ordinary ones).
* `StartsProofs`: `StartsInv` adds to the five properties where each start is
  (numbered, counted or under way, and disjoint) and that whoever is under way
  has called off those before it; `OnlyTheNewest` is not inductive without it.
* `PlaybackProofs`: `PlayInv` adds that a verdict exists exactly for the films
  that are over, and that effects and account speak of films begun and say
  "closed" only of a film over; `ClosedMeansDone` needs both halves, because an
  effect posted at the end arrives after a newer film began.
* `HandoverProofs`: `HandoverInv` says where each task can be (`InStep`), that one
  is inside the mutex (`Mutex`), and, until something passes the gate: that the
  one inside, or the script, has the file (`GateHeld`); that whoever is inside has
  stopped, or has yet to stop, all that is in its way (`InOrder`); that a unit
  which is ending is waited for by the one inside (`Awaited`); and `Apart`.
  `KodiUiApart` alone is not inductive: a start is safe only because the stop
  before it was waited for, and only by the holder of the gate. One lemma per
  action and part. `HandoverLands` and `RecoveryOnlyWhenEnded` are steps from it:
  a unit that another stops is the one inside's, whose `lock` the guard sees.
* `MediaSessionProofs`: `SessionInv` adds to the types that a running child that no
  thread has in hand to end is its session's, or the session is over (`Attached`),
  that what is over has none (`Over`), and that a request's session is there while
  it is on its way (`Reached`); so a child is started only where none runs but what
  is `due`. `ReaderInv` adds that
  requests are for sessions made (`Known`), that the readers are counted (`Told`)
  and that they read the child there is (`Drawn`): a rewind needs a count of
  zero, and by `Told` nobody reads then. Assumption: `SessionAssumption` (bounds
  are numbers, readers are finite, `None` is none of the values).

* `DisplayProofs` also proves that `OutputSetting` implements
  `DisplayRecord` (`PromiseKept`): the abstract record is the one on disk, the
  display the one looked at, and every method is a step of the record, or a
  step that leaves it and the display alone. What a method first does is
  `Follow`, which may change the display and end a trial; the lemmas about it say
  what is left of the record when the rest of the method begins.
* `DisplayProofs`, of `DisplayOwner`: `OwnerInv` is `DaemonSound` and `InterfaceSound`.
  `DaemonSound` is `IInv`, and that what is kept, and what a trial that counts as
  applied would keep, is a mode the kernel took; `InterfaceSound` says the same of
  what the interface drives and of every report on its way. Neither
  `AppliedWasShown` nor `RefusedNeverKept` is inductive: a report is late, so
  what it says must have been true when it was made and stay so (`committed`
  only grows), and a setting is kept from the journal of a trial, not from what
  is on the wire. `AppliedShown`, `NeverRefused` and `OwnerTypeCorrect` follow;
  `PromiseKeptTogether` is the refinement of `DisplayRecord` for the composition.
* `FilmStartProofs`: `FilmStartInv` has thirteen parts, in four groups. The
  counters are exact and say where each start is (`Counters`, `CountersLinked`:
  whoever has passed `begin_start` has called off all before it). A film on record
  is of a start that has come to its end (`FilmOfAStart`), and a start is at
  stages of its own kind (`WaysApart`). Every session has somebody who will end it
  (`SessionsAccounted`: the film on record, the effect that lets it go, its start,
  or the sweep; `LateSwept`: a session that came late is always the sweep's, which
  has not looked for the last time; `SweepKnows`: what is on the sweep's list is
  nobody's any more, and a session is on no list before its start is done). Every
  unit that runs is looked at again by its start, is about to be stopped by
  somebody, or belongs to the film on record, whose follower would stop it
  (`UnitWatched`, `UnitOnRecord`, `StoppedBefore`). None of the four properties is
  inductive: they are of quiet states, and the parts say what is still going to
  happen in the others. There is a lemma per action. `NoSessionLeft`, `BackIsLast`,
  `NewestPlays` and `SweepSpares` follow, for any number of starts and of
  interruptions, and in any combination of Back, a television that leaves and a
  handoff to Kodi, of which the run takes one at a time. `StartsKept` and
  `SupervisorKept` are refinements: what is done to the counters and to the record
  is what `Starts` and `Playback` have (a handler does several things at once; to
  each of the two it is one step, or none), so what is proved there holds here.

* `LiveStartProofs`: a task of `LiveStart` is the sequence of the steps it still
  has to take, so the proof begins with what such sequences, its *plans*, can
  be: `Plan` says which step may come after which and which may be the last, for
  each kind of task, and every plan the actions write is one (`WarmMade`,
  `ColdMade`, ...). `LiveParts` adds to `PlansOK` and `HeldOK` (what the player,
  the receiver and the display hold): a start's plan tells where it is in
  `Starts`' counters, and the one start past its `Lock` step holds the lock
  (`Linked`); a film on record has its followers, and those to come have nothing
  to do (`FilmsFollowed`); a film that a task will take off the record has had
  its player told to go (`FinishLate`); a match is for a film the player has had
  or has next (`MatchOwned`); a unit that runs is to be stopped by some task, is
  about to be recorded, or is of the film on record (`UnitWatched`, and
  `LaunchAlone`: nothing runs when a player is launched); a match kept for the
  next channel is not of the player's last film (`HandoverOlder`); and once every
  start is called off Back is about to take what is on record (`BackTakes`). The
  counters and the record keep what `StartsProofs` and `PlaybackProofs` prove of
  them, because every step is one of theirs (`StartsKept` and `SupervisorKept`,
  as refinements). There is a lemma per action; most are instances of `WalkKeeps`
  (a task takes its next step and what the parts speak of moves with it).
  `NoPlayerStrays`, `BackHasLive` and `LiveTypeCorrect` follow from the invariant,
  and `MatchKeptOn` is a step from it: what takes a match back is either a
  hand-over that fails, and by `HandoverOlder` none is open while the matched film
  plays, or the end of a film that is not it, or its own follower, to whom the
  player has not answered. All of it is for any number of
  channels and starts and for every set of worlds, with Back, failures and
  matches in the same run, which the run of TLC keeps apart.

  `ReceiverLeaves` has an invariant of its own beside `Inv`, `Watching`. A receiver
  that is up is to be stopped by some task (`ToGo`), is for a start that will put
  its channel on or stop it again (`Tending`), streams to the film on (`FilmOn`),
  or, once Back can call nothing off any more (`Past`), is within reach of a start
  that is not called off (`Waiting`), which will do one or the other
  (`ReceiverWatched`). That does not carry itself over a step: a start that keeps
  the receiver for a new player must not be called off with nobody after it, so
  whoever came later than the holder of the lock is still to come (`Queued`), and
  until Back is past, in a world of Back, nothing fails and no start is between two
  players (`Calm`). The other parts say what a plan may hold when a film is on, or
  has gone. The theorem is of worlds with Back or failures, not both
  (`Apartness`), and cannot be of more: with both, TLC has the run of
  `daemon.rs:1225` above, forty steps long, for two starts.

  `ChannelPlays` has a third, `Tracking`. What the receiver streams to is the FIFO
  that is current (`StreamsTo`); a start that has asked for its channel has the
  receiver on it, or told to, until it is done (`Tuned`), and if it changes the
  film on record it is for another channel than the one shown (`Changing`); the
  channel shown is of a start no later than the one that decides (`Shown`); the
  film on has the follower of its receiver (`Sourced`). Then a film on and a
  receiver up are in step, or someone is to mend it: the start that puts a channel
  on, Back, or a start still to come that is not called off and is for another
  channel (`Followed`). That last part is where the return to a channel breaks it:
  a start for the channel shown takes it to be on and mends nothing. So
  `ChannelOnRecordPlays` is of `NoReturn`, any number of starts none of which asks
  for a channel again after another, with Back and failures in the same run; two
  starts never do (`ChannelOfTwoPlays`), and three that do are the run of
  `daemon.rs:1114` above. Starts that ask for the same channel any number of times
  in a row are no return.

* `ReceiverProofs`: what the gate's operators return is stated once each
  (`DecideTyped`, `NetworkTyped`, `FeedIs`, ...), and a step that is not a section's
  stops the stream, leaves gate and tail alone or closes a new gate (`GateSteps`).
  `TailHeldBack` is a step from `TailInv`: the tail is of one multiplex (`OfOne`), a
  gate in front of it is past no clock it knows, unless the stop was brief
  (`ClockAsked`), and one that can
  tell the multiplex left has nothing of it confirmed (`Unconfirmed`, with what is
  pending where no network is known; without it an SDT of the tail could confirm
  what an earlier one left). `TailHeld` is for a tail of any length, of any worlds.
  `LossNoEnd` is `LossIsNoEnd` for a first channel that is on its carrier
  (`InPlace`: its multiplex has its service, and no other locks where it is searched
  for; with another there, a service not found is one). Its invariant is `FirstOnly`:
  until another channel is asked for or the receiver unplugged, all that is known,
  locked, waited for or in the bridge is that channel's multiplex, a gate lets in
  the first PAT after a clock (`FirstGate`), and time stands as follows (`InTime`):
  a gate's ten seconds run out only while the signal is lost, and one lost after
  the channel was found is said to be back by its PAT alone, which is the gate's
  opening. So a deadline that finds the signal there finds a receiver that had
  not found its channel, and the end it says is none of a channel found; a
  relocked stream begins its ten seconds anew. `OnlyTheChannels` rests on `OwnInv`:
  a gate that knows the stream left is
  for the channel asked for, of which nothing has been seen (`ForTheChannel`);
  what the tuner has locked is what is there where it stands (`OnPlace`); and of
  all that can still reach the gate, from the bridge or the air, what has the
  number an SDT confirmed is of the channel's network (`Confirmed`). `OnlyOwnLetIn`
  takes two things for granted, both in `Distinct`: no other channel of the same
  transponder is asked for while the gate is closed, which keeps the first one's
  service; and the bridge does not hold, from before the stream left, one of the
  channel's network and of the number of what is tuned, which is another network's
  (`Mixed`), because its SDT would confirm what is on the air. In the worlds of
  `receiver` both hold in every state (TLC, `Distinct` as an invariant), so there
  the theorem is without condition. Assumption: `ReceiverAssumption` (a transponder
  has a multiplex on the air, what locks is one, bounds are numbers, `None` is
  neither a multiplex nor a transport stream).

Assumptions beyond the bounds being numbers are that `None` is none of the
values it is told apart from (`NoneAssumption` of `OutputSetting`, of `FilmStart`
and of `LiveStart`, `OwnerAssumption`): in the code it is `Option::None`, and TLC
evaluates them on every run. `OwnerAssumption` also says that the kernel takes a
display's preferred mode: every resolution falls back to it, and were it refused
too there would be nothing a setting could keep.

Only model-checked: liveness (`Settles`, `NeverBlank`, `AllEnd`,
`AbandonedIsEnded`, `ComesBack`), which is out of the prover's reach. Every
invariant and every action property that a passing run checks is stated by a
theorem, some under a condition the theorem names: `NoReturn` of `ChannelPlays`,
`Apartness` of `ReceiverGoesWithPlayer`, `InPlace` of `LossIsNoEnd`, `Distinct` of
`OnlyTheChannels`.

## Not modelled, and why

Drawing, planes, fonts and pages of `mediabox-tv`, the web page and the command
line: no state that others rely on. Registers, USB transfers and section
parsing of `mediabox-dvb`, and `mediabox-live`: drivers, byte formats and clock
recovery, numeric code. Sound, fan, LEDs, network: sequential settings.
Subtitles, CEC policy, the worker's policy and catalogue: candidates for later.
The opening of a film on the player's socket (`follow_film`, `read_mpv`): the plan
below.

## Plan

1. `OutputSetting`, `DisplayRecord`, proofs; `DisplayOwner` (done).
2. `Starts`, `Playback`, proofs; `FilmStart` with `handoff_to_kodi` and
   `cec_source_lost`, `LiveStart` (done).
3. `MediaSession`, `Handover`, proofs; `Receiver` (done).
4. `FilmFollow`: `read_mpv`'s answers, the hold and its release, the rematch;
   `Playback` as its abstract record.
5. `FilmStart` with its sessions replaced by `MediaSession` where they interact;
   `LiveStart` with `Receiver` as what follows `select.json`.
6. Proofs of `DisplayOwner`, `FilmStart` and `LiveStart`, with their refinements
   of `DisplayRecord`, `Starts` and `Playback` (done). `Receiver`: types, the tail,
   the loss, what is let in (done).
7. CEC policy, subtitle generations and the interface's video buffers.
