------------------------------ MODULE Receiver ------------------------------
(* The satellite receiver, mediabox-dvb: select.json followed, the carrier    *)
(* searched for, the new stream held back until it is known not to be the     *)
(* old one's tail, the signal lost and found again.  One thread does it all;  *)
(* its partners are the control plane, which writes select.json, the tuner,   *)
(* which locks what is there, and the bridge, which still holds the end of    *)
(* what it was sent before.  A turn of the loop is here its single decisions, *)
(* in any order.  The TKGS read and the channel scan are left out.            *)
EXTENDS Integers, Sequences, Functions

CONSTANTS
    Channels,       \* records: the transponder tp and the service of a channel
    First,          \* the channel the receiver is started for
    Worlds,         \* what may be on the air, see World
    SearchOffsets,  \* the offsets searched after the nominal one, 0
    MaxTail,        \* bound on the sections the bridge still holds
    Standby,        \* what select.json asks for when nobody watches
    None

(* A world: home[tp] is the transponder's multiplex, carrier[tp][offset] the  *)
(* one a tuner put there locks; of each multiplex its transport stream tsid,  *)
(* its network onid and the programmes of its PAT; listed: the channel list   *)
(* knows the channels' transport streams and networks; asks, losses, unplugs: *)
(* the bounds on how often select.json is written, the signal lost and the    *)
(* receiver unplugged in it.                                                  *)
Order == <<0>> \o SearchOffsets
Spots == Range(Order)
Transponders == {c.tp : c \in Channels}
Services     == {c.service : c \in Channels}

\* What is known of a multiplex of a world, if anything; the one left, and a gate.
Muxes(w) == DOMAIN w.tsid \cup {None}
Tsids(w) == Range(w.tsid) \cup {None}
Lefts(w) == [mux : DOMAIN w.tsid, told : BOOLEAN, lists : Range(w.programmes) \cup {{}}]
Gates(w) ==
    [left : Lefts(w) \cup {None}, want : Muxes(w), expect : Muxes(w), service : Services,
     clock : Muxes(w), fresh : BOOLEAN, repeated : Tsids(w), pending : Tsids(w),
     confirmed : Tsids(w), heard : Nat, brief : BOOLEAN, aged : BOOLEAN,
     counts : SUBSET {"old", "other", "twin", "awaiting", "wrong", "stale"}]

ASSUME ReceiverAssumption ==
    /\ First \in Channels /\ SearchOffsets \in Seq(Int)
    /\ MaxTail \in Nat
    /\ \A w \in Worlds :
         /\ None \notin Lefts(w) /\ None \notin Gates(w)
         /\ DOMAIN w.programmes = DOMAIN w.tsid
         /\ None \notin DOMAIN w.tsid /\ None \notin Range(w.tsid)
         /\ \A tp \in Transponders : w.home[tp] \in DOMAIN w.tsid
         /\ \A tp \in Transponders, o \in Spots : w.carrier[tp][o] \in Muxes(w)

VARIABLES
    world,
    ask,        \* select.json: its modification and what it wants
    rx,         \* the pipeline
    tuner,      \* the search, and where the tuner is
    air,        \* the dish's cable: is there a signal, and what is locked
    gate,       \* the quarantine of a new stream, None without
    tail,       \* sections of an earlier stream in the bridge
    state, end, \* what the status says
    spent       \* losses and unpluggings so far

vars == <<world, ask, rx, tuner, air, gate, tail, state, end, spent>>

Home(c)   == world.home[c.tp]
Expect(c) == IF world.listed THEN Home(c) ELSE None
Reachable == IF tuner.at = None THEN None ELSE world.carrier[tuner.tp][tuner.at]

----------------------------------------------------------------------------
(* TuneParams.  A relock goes to the one place, where the tuner last locked,  *)
(* and calls it offset 0.                                                     *)

Fresh(tp)    == [tp |-> tp, wrong |-> {}]
Offsets(par) == Spots \ par.wrong
Before(o, p) == \E i \in DOMAIN Order : Order[i] = o /\ \A j \in 1..i : Order[j] # p

Search(par)  == [tuner EXCEPT !.pc = "Search", !.tp = par.tp, !.todo = Offsets(par), !.relock = FALSE]
Relock(par)  == [tuner EXCEPT !.pc = "Search", !.tp = par.tp, !.todo = {tuner.lockedAt}, !.relock = TRUE]

Superseded == ask.n # rx.seen

----------------------------------------------------------------------------
(* A stream starts: quarantine_stream, and what the status says of the lock.  *)

NewGateUnclocked(r, want, brief) ==      \* mutant: the stop's clock is not asked about
    [left |-> r.left, want |-> want, expect |-> Expect(r.channel),
     service |-> r.channel.service, clock |-> IF r.left = None THEN r.clock ELSE None,
     fresh |-> TRUE, brief |-> brief, repeated |-> None, pending |-> None, confirmed |-> None,
     counts |-> {}, heard |-> 0, aged |-> FALSE]
NewGate(r, want, brief) ==
    [left |-> r.left, want |-> want, expect |-> Expect(r.channel),
     service |-> r.channel.service, clock |-> IF r.left = None THEN r.clock ELSE None,
     fresh |-> r.left # None \/ r.clock = None,
     brief |-> brief /\ r.left = None /\ r.clock # None /\ tail # <<>>,
     repeated |-> None, pending |-> None, confirmed |-> None,
     counts |-> {}, heard |-> 0, aged |-> FALSE]

\* Brief: a clock is read less than 200 ms after the stop, and is taken for the air's.
Quarantined(r) ==
    /\ \E brief \in BOOLEAN : gate' = NewGate(r, r.relock, brief)
    /\ rx' = [r EXCEPT !.running = TRUE, !.other = FALSE,
                       !.clock = IF r.left = None THEN None ELSE @]

\* The tuner is done searching, locked or not, and the stream begins.
EnterStream(locked, superseded) ==
    LET said == IF tuner.relock THEN 0 ELSE tuner'.at
        lostIt == ~locked /\ ~superseded /\ state # "NoSignal"
        backAgain == locked /\ state = "NoSignal" /\ rx.relock = None
        r == [rx EXCEPT !.unconfirmed = IF locked THEN said ELSE None,
                        !.relock = IF lostIt THEN None ELSE @,
                        !.due = IF lostIt THEN FALSE ELSE IF backAgain THEN TRUE ELSE @,
                        !.aged = FALSE]
    IN IF rx.standbyFirst
       THEN /\ rx' = [r EXCEPT !.standbyFirst = FALSE]
            /\ state' = Standby
            /\ UNCHANGED gate
       ELSE /\ Quarantined(r)
            /\ state' = IF lostIt \/ (state = "NoSignal" /\ ~backAgain) THEN "NoSignal" ELSE "Streaming"

(* lock_carrier: the next offset.  A select.json newer than the one read      *)
(* gives the search up.                                                       *)
TryOffset ==
    /\ tuner.pc = "Search"
    /\ \E o \in tuner.todo :
        /\ \A p \in tuner.todo \ {o} : Before(o, p)
        /\ LET mux  == IF air.signal THEN world.carrier[tuner.tp][o] ELSE None
               got  == mux # None /\ ~Superseded
               done == got \/ Superseded \/ tuner.todo = {o}
           IN /\ air' = [air EXCEPT !.lock = IF got THEN mux ELSE None]
              /\ tuner' = [tuner EXCEPT !.at = o, !.todo = IF done THEN {} ELSE @ \ {o},
                                        !.pc = IF done THEN "Stream" ELSE @,
                                        !.lockedAt = IF got /\ ~tuner.relock THEN o ELSE @,
                                        !.acquiring = got \/ Superseded]
              /\ IF done THEN EnterStream(got, Superseded) ELSE UNCHANGED <<rx, gate, state>>
    /\ UNCHANGED <<world, ask, tail, end, spent>>

\* The demodulator may lock by itself a carrier it has had, or was not given its
\* time for.
LocksLate ==
    /\ air.signal /\ air.lock = None /\ tuner.pc = "Stream" /\ tuner.acquiring /\ Reachable # None
    /\ air' = [air EXCEPT !.lock = Reachable]
    /\ UNCHANGED <<world, ask, rx, tuner, gate, tail, state, end, spent>>

----------------------------------------------------------------------------
(* A stream stops: the programme's clock, if its PMT has been read, is noted, *)
(* and what the bridge holds of it stays there.                               *)

Clocked(r) == [r EXCEPT !.running = FALSE, !.clock = IF r.ready THEN r.selected ELSE None]

Sections == IF air.lock = None THEN {} ELSE {<<air.lock, "PAT">>, <<air.lock, "SDT">>}
LeftInTheBridge ==
    {tail} \cup UNION {[1..n -> Sections] : n \in 0..MaxTail}

Stopped(r, next, s) ==
    /\ rx' = Clocked(r)
    /\ gate' = None
    /\ tuner' = next
    /\ tail' \in LeftInTheBridge
    /\ state' = s
InStream == tuner.pc = "Stream" /\ end = None

(* follow_select.                                                             *)
SameChannel(r, c) == c.service = r.channel.service /\ c.tp = r.tuned.tp
WasLeft(r) ==
    IF r.selected = None THEN None
    ELSE [mux |-> r.selected, told |-> r.net,
          lists |-> IF r.pat = None THEN {} ELSE world.programmes[r.pat]]

RetunedTo(r, c) ==
    IF c.tp = r.tuned.tp THEN [r EXCEPT !.left = None]
    ELSE [r EXCEPT !.left = WasLeft(r), !.pat = None, !.net = FALSE, !.tuned = Fresh(c.tp)]

Anew(r, c) == [r EXCEPT !.channel = c, !.relock = None, !.retunes = 0, !.due = TRUE,
                        !.selected = None, !.ready = FALSE, !.aged = FALSE]

Selected(r, c) ==
    IF SameChannel(r, c) THEN [r EXCEPT !.channel = c] ELSE Anew(RetunedTo(r, c), c)

Select(c) ==
    LET r == [Selected(rx, c) EXCEPT !.seen = ask.n] IN
    IF c.tp # rx.tuned.tp
    THEN Stopped(r, Search(r.tuned), "Tuning")
    ELSE IF rx.running
    THEN rx' = r /\ UNCHANGED <<gate, tuner, tail, state>>
    ELSE Quarantined(r) /\ state' = "Streaming" /\ UNCHANGED <<tuner, tail>>

StandsBy(r) == Stopped(r, tuner, Standby)

FollowSelect ==
    /\ InStream /\ Superseded
    /\ IF ask.want = Standby THEN StandsBy([rx EXCEPT !.seen = ask.n]) ELSE Select(ask.want)
    /\ UNCHANGED <<world, ask, air, end, spent>>

\* Nobody has read for the hold.
NobodyReads ==
    /\ InStream /\ rx.running
    /\ spent.holds = 0 /\ spent' = [spent EXCEPT !.holds = 1]
    /\ StandsBy(rx)
    /\ UNCHANGED <<world, ask, air, end>>

----------------------------------------------------------------------------
(* The gate: ts.rs, Gate::decide and Gate::network.  A verdict is a record of *)
(* the gate after it and what it comes to.                                    *)

Waiting(g)    == [gate |-> g, is |-> "Waiting"]
Admits(g)     == [gate |-> g, is |-> "Admitted"]
Counts(g, what) == [g EXCEPT !.counts = @ \cup {what}]
Twice(g, mux, is) ==
    IF g.repeated = world.tsid[mux] THEN [gate |-> g, is |-> is]
    ELSE Waiting([g EXCEPT !.repeated = world.tsid[mux]])

Told(g)          == g.expect # None \/ (g.left # None /\ g.left.told)
SameTsid(g, mux) == g.left # None /\ world.tsid[g.left.mux] = world.tsid[mux]
LikeLeft(g, mux) == SameTsid(g, mux) /\ g.left.lists = world.programmes[mux]
NoTwin(g, mux) == FALSE                  \* mutant: another programme list is no tail
Twin(g, mux) ==
    SameTsid(g, mux) /\ ~LikeLeft(g, mux) /\ Told(g) /\ g.service \in world.programmes[mux]
Alike(g, mux) == LikeLeft(g, mux) \/ Twin(g, mux)

\* A PAT like the left one's: the SDT of its network is waited for, if one is known.
Held(g, mux) ==
    LET h == [g EXCEPT !.repeated = None] IN
    Waiting(IF ~Told(g) THEN Counts(h, "old")
            ELSE IF Twin(g, mux)
            THEN [Counts(Counts(h, "awaiting"), "twin") EXCEPT !.pending = world.tsid[mux]]
            ELSE [Counts(h, "awaiting") EXCEPT !.pending = world.tsid[mux]])

Unlike(g, mux) ==
    LET tsid == world.tsid[mux] IN
    IF g.want # None
    THEN IF world.tsid[g.want] = tsid THEN Admits(g) ELSE Twice(Counts(g, "other"), mux, "Other")
    ELSE IF (g.expect # None => world.tsid[g.expect] = tsid) /\ g.service \in world.programmes[mux]
    THEN Admits(g)
    ELSE Twice(Counts(g, "other"), mux, "Admitted")

Decide(g, mux) ==
    IF ~g.fresh THEN Waiting([Counts(g, "stale") EXCEPT !.repeated = None])
    ELSE IF ~Alike(g, mux) THEN Unlike(g, mux)
    ELSE IF g.confirmed = world.tsid[mux] THEN Admits(g)
    ELSE Held(g, mux)

\* network_verdict: the left one's, the channel's, or another's.
Network(g, mux) ==
    LET onid == world.onid[mux]
        h    == [g EXCEPT !.pending = None]
        left == g.left # None /\ g.left.told /\ world.onid[g.left.mux] = onid
    IN IF g.pending # world.tsid[mux] THEN Waiting(g)
       ELSE IF left THEN Waiting(Counts(h, "old"))
       ELSE IF g.expect # None /\ world.onid[g.expect] # onid THEN Waiting(Counts(h, "wrong"))
       ELSE Waiting([h EXCEPT !.confirmed = world.tsid[mux]])

(* A section comes: first what the bridge held, then what is on the air, a    *)
(* PAT and an SDT by turns.  A clock is read, or is missed for its second,    *)
(* before the second section on the air; what the bridge held, it sends       *)
(* sooner, and its clock is past the stop's only if the stop was brief.       *)
Live    == tail = <<>> /\ air.lock # None
Section == IF tail # <<>> THEN Head(tail)
           ELSE <<air.lock, IF gate = None \/ gate.heard % 2 = 0 THEN "PAT" ELSE "SDT">>
HeardEnough == 5                         \* sections after which nothing new is said

\* The service's PMT comes after its PAT and before the next.
Passed(r, mux, kind) ==
    IF kind = "SDT" THEN [r EXCEPT !.net = @ \/ r.pat = mux]
    ELSE IF r.channel.service \in world.programmes[mux]
    THEN [r EXCEPT !.pat = mux, !.selected = mux, !.ready = r.selected = mux]
    ELSE [r EXCEPT !.pat = mux]

Heard(g, clock) ==
    [g EXCEPT !.fresh = @ \/ (Live /\ (clock \/ g.heard > 0)) \/ (g.brief /\ clock),
              !.heard = IF ~Live THEN @ ELSE IF @ < HeardEnough THEN @ + 1 ELSE HeardEnough - 1]

Verdict(g, mux, kind) == IF kind = "PAT" THEN Decide(g, mux) ELSE Network(g, mux)

Feed ==
    /\ InStream /\ rx.running /\ (tail # <<>> \/ Live)
    /\ tail' = IF tail = <<>> THEN <<>> ELSE Tail(tail)
    /\ LET mux  == Section[1]
           kind == Section[2]
       IN \/ /\ gate = None
             /\ rx' = Passed(rx, mux, kind)
             /\ UNCHANGED gate
          \/ /\ gate = None /\ Live
             /\ rx' = Passed(rx, mux, "SDT")
             /\ UNCHANGED gate
          \/ /\ gate # None
             /\ \E clock \in BOOLEAN :
                LET v == Verdict(Heard(gate, clock), mux, kind)
                IN CASE v.is = "Waiting"  -> gate' = v.gate /\ UNCHANGED rx
                     [] v.is = "Other"    -> gate' = v.gate /\ rx' = [rx EXCEPT !.other = TRUE]
                     [] v.is = "Admitted" ->
                          /\ gate' = None
                          /\ rx' = Passed([rx EXCEPT !.retunes = 0, !.left = None, !.net = FALSE], mux, "PAT")
    /\ UNCHANGED <<world, ask, tuner, air, state, end, spent>>

----------------------------------------------------------------------------
(* What the loop makes of it.                                                 *)

Ends(why) ==
    /\ end' = why
    /\ state' = "Failed"
    /\ rx' = Clocked(rx)
    /\ gate' = None
    /\ UNCHANGED <<world, ask, tuner, air, tail, spent>>

Retunes(r, next, s) ==
    /\ Stopped(r, next, s)
    /\ UNCHANGED <<world, ask, air, end, spent>>

(* The ten seconds of a gate, and those of the service from the stream's      *)
(* start or its selection, pass whatever becomes of the lock.  Locked, they   *)
(* are up when what is on the air has been heard; without it they are up some *)
(* time, and stay so when it is back.  What the bridge held is read by then.  *)
Waits == ~rx.running \/ (tail = <<>> /\ air.lock = None /\ state = "NoSignal")
Younger == (gate # None /\ ~gate.aged) \/ ~(rx.aged \/ rx.ready)

TenSeconds ==
    /\ InStream /\ Waits /\ Younger
    /\ gate' = IF gate = None THEN None ELSE [gate EXCEPT !.aged = TRUE]
    /\ rx' = [rx EXCEPT !.aged = ~rx.ready]
    /\ UNCHANGED <<world, ask, tuner, air, tail, state, end, spent>>

TimeUp == gate.aged \/ (Live /\ gate.heard >= HeardEnough - 1)
ServiceTimeUp == rx.aged \/ (Live /\ rx.pat = air.lock /\ rx.selected # air.lock)

(* at_deadline.                                                               *)
OnlyOld(g) == g.counts \cap {"other", "twin"} = {} /\ g.counts \cap {"old", "stale"} # {}
OnlyWrong(g) == "wrong" \in g.counts /\ "other" \notin g.counts
TriesAgain(g) == ~OnlyWrong(g) /\ (g.want # None \/ OnlyOld(g))

\* Lost, it is waited for whatever the gate makes of it; and so is a stream found
\* again that is not the one wanted.
Final(g) ==
    state # "NoSignal" /\ (~TriesAgain(g) \/ (rx.retunes > 0 /\ g.want = None))

\* Every PAT but the one let in is counted as something: nothing counted, none came.
\* (A PAT that came broken, PsiCorrupt, is one with it.)
WhyNot(g) ==
    IF OnlyWrong(g) THEN "WrongNetwork"
    ELSE IF OnlyOld(g) THEN "StaleTransport"
    ELSE IF g.counts = {} THEN "NoPat"
    ELSE IF "awaiting" \in g.counts /\ "other" \notin g.counts THEN "SdtMissing"
    ELSE "ServiceNotFound"

GateDeadline ==
    /\ InStream /\ gate # None /\ TimeUp
    /\ \/ /\ TriesAgain(gate) /\ rx.retunes = 0
          /\ Retunes([rx EXCEPT !.retunes = 1], Relock(rx.tuned), state)
       \/ Final(gate) /\ Ends(WhyNot(gate))

\* Found again, but another transport stream, twice: once away from it.
OtherStream ==
    /\ InStream /\ rx.other
    /\ IF rx.retunes = 0
       THEN Retunes([rx EXCEPT !.retunes = 1, !.other = FALSE], Relock(rx.tuned), state)
       ELSE /\ rx' = [rx EXCEPT !.other = FALSE]
            /\ UNCHANGED <<world, ask, tuner, air, gate, tail, state, end, spent>>

\* The channel's transport stream again, or not.
SignalBack ==
    /\ InStream /\ rx.running /\ rx.relock # None /\ rx.pat # None
    /\ IF world.tsid[rx.pat] = world.tsid[rx.relock]
       THEN /\ rx' = [rx EXCEPT !.relock = None, !.due = TRUE]
            /\ state' = "Streaming"
            /\ UNCHANGED <<world, ask, tuner, air, gate, tail, end, spent>>
       ELSE Retunes([rx EXCEPT !.pat = None, !.net = FALSE], Relock(rx.tuned), state)

\* A carrier is the transponder's only once its PAT has the service.
WrongCarrier ==
    /\ InStream /\ rx.running
    /\ rx.unconfirmed # None /\ rx.relock = None /\ rx.left = None /\ rx.pat # None
    /\ LET next == [rx.tuned EXCEPT !.wrong = @ \cup {rx.unconfirmed}]
           r    == [rx EXCEPT !.unconfirmed = None]
       IN IF rx.channel.service \notin world.programmes[rx.pat] /\ Offsets(next) # {}
          THEN Retunes([r EXCEPT !.pat = None, !.net = FALSE, !.tuned = next], Search(next), "Tuning")
          ELSE rx' = r /\ UNCHANGED <<world, ask, tuner, air, gate, tail, state, end, spent>>

\* The lock is asked for once a second; a lost signal is tuned again when due.
LockLostForgotten ==                     \* mutant: which stream it was is not kept
    /\ InStream /\ rx.running /\ air.lock = None /\ state # "NoSignal"
    /\ rx' = [rx EXCEPT !.due = FALSE, !.pat = None, !.net = FALSE]
    /\ state' = "NoSignal"
    /\ UNCHANGED <<world, ask, tuner, air, gate, tail, end, spent>>
LockLost ==
    /\ InStream /\ rx.running /\ air.lock = None /\ state # "NoSignal"
    /\ rx' = [rx EXCEPT !.relock = rx.selected, !.due = FALSE, !.pat = None, !.net = FALSE]
    /\ state' = "NoSignal"
    /\ UNCHANGED <<world, ask, tuner, air, gate, tail, end, spent>>

RetuneLostOnceShown ==                   \* mutant: what was never found is not tuned again
    /\ InStream /\ rx.running /\ air.lock = None /\ state = "NoSignal" /\ rx.due /\ rx.relock # None
    /\ Retunes([rx EXCEPT !.due = FALSE, !.pat = None, !.net = FALSE], Relock(rx.tuned), state)
RetuneLost ==
    /\ InStream /\ rx.running /\ air.lock = None /\ state = "NoSignal" /\ rx.due
    /\ Retunes([rx EXCEPT !.due = FALSE, !.pat = None, !.net = FALSE], Relock(rx.tuned), state)

LockBack ==
    /\ InStream /\ rx.running /\ air.lock # None /\ state = "NoSignal" /\ rx.relock = None
    /\ rx' = [rx EXCEPT !.due = TRUE]
    /\ state' = "Streaming"
    /\ UNCHANGED <<world, ask, tuner, air, gate, tail, end, spent>>

\* check_service: the service's time is up and its PMT has not been read.
ServiceNotFound ==
    /\ InStream /\ rx.running /\ gate = None /\ state # "NoSignal"
    /\ ~rx.ready /\ ServiceTimeUp
    /\ Ends("ServiceNotFound")

\* The device goes; found again, the session tunes what the service was started for.
Unplug ==
    /\ InStream /\ spent.unplugs < world.unplugs
    /\ spent' = [spent EXCEPT !.unplugs = @ + 1]
    /\ air' = [air EXCEPT !.lock = None]
    /\ rx' = Clocked(rx) /\ gate' = None /\ tail' = <<>>
    /\ tuner' = [tuner EXCEPT !.pc = "Unplugged"]
    /\ state' = "Reconnecting"
    /\ UNCHANGED <<world, ask, end>>

GivesUp ==
    /\ tuner.pc = "Unplugged" /\ end = None
    /\ end' = "UsbDisconnected" /\ state' = "Failed"
    /\ UNCHANGED <<world, ask, rx, tuner, air, gate, tail, spent>>

Replug ==
    /\ tuner.pc = "Unplugged" /\ end = None
    /\ tuner' = [Search(Fresh(First.tp)) EXCEPT !.lockedAt = 0]
    /\ state' = "Tuning"
    /\ UNCHANGED <<world, ask, rx, air, gate, tail, end, spent>>

----------------------------------------------------------------------------
(* The partners, and time.                                                    *)

Write(want) ==
    /\ ask.n < world.asks
    /\ ask' = [n |-> ask.n + 1, want |-> want]
    /\ UNCHANGED <<world, rx, tuner, air, gate, tail, state, end, spent>>

CableOut ==
    /\ air.signal /\ spent.losses < world.losses
    /\ spent' = [spent EXCEPT !.losses = @ + 1]
    /\ air' = [signal |-> FALSE, lock |-> None]
    /\ UNCHANGED <<world, ask, rx, tuner, gate, tail, state, end>>

CableIn ==
    /\ ~air.signal
    /\ air' = [air EXCEPT !.signal = TRUE]
    /\ UNCHANGED <<world, ask, rx, tuner, gate, tail, state, end, spent>>

Due ==
    /\ InStream /\ state = "NoSignal" /\ ~rx.due
    /\ rx' = [rx EXCEPT !.due = TRUE]
    /\ UNCHANGED <<world, ask, tuner, air, gate, tail, state, end, spent>>

----------------------------------------------------------------------------
ReceiverInit ==
    /\ world \in Worlds
    /\ ask = [n |-> 0, want |-> First]
    /\ \E early \in BOOLEAN :
         rx = [channel |-> First, tuned |-> Fresh(First.tp), seen |-> 0, left |-> None,
               relock |-> None, retunes |-> 0, unconfirmed |-> None, clock |-> None,
               pat |-> None, net |-> FALSE, selected |-> None, ready |-> FALSE,
               aged |-> FALSE, due |-> TRUE, running |-> FALSE, other |-> FALSE,
               standbyFirst |-> early]
    /\ tuner = [pc |-> "Search", tp |-> First.tp, todo |-> Offsets(Fresh(First.tp)),
                at |-> None, relock |-> FALSE, lockedAt |-> 0, acquiring |-> FALSE]
    /\ air \in [signal : BOOLEAN, lock : {None}]
    /\ gate = None /\ tail = <<>>
    /\ state = "Tuning" /\ end = None
    /\ spent = [losses |-> 0, unplugs |-> 0, holds |-> 0]

Works ==
    \/ TryOffset \/ FollowSelect \/ Feed \/ GateDeadline \/ OtherStream \/ SignalBack
    \/ WrongCarrier \/ LockLost \/ RetuneLost \/ LockBack \/ ServiceNotFound \/ Replug

ReceiverNext ==
    \/ Works \/ LocksLate \/ NobodyReads \/ Unplug \/ GivesUp
    \/ CableOut \/ CableIn \/ Due \/ TenSeconds
    \/ \E want \in Channels \cup {Standby} : Write(want)

ReceiverSpec == ReceiverInit /\ [][ReceiverNext]_vars

\* The loop turns, select.json read first in each turn, and ten seconds pass.
FairReceiver ==
    /\ ReceiverSpec
    /\ WF_vars(TryOffset) /\ SF_vars(FollowSelect) /\ WF_vars(Feed) /\ WF_vars(GateDeadline)
    /\ WF_vars(OtherStream) /\ WF_vars(SignalBack) /\ WF_vars(WrongCarrier) /\ WF_vars(LockLost)
    /\ WF_vars(RetuneLost) /\ WF_vars(LockBack) /\ WF_vars(ServiceNotFound) /\ WF_vars(Replug)
    /\ WF_vars(Due) /\ WF_vars(TenSeconds)

----------------------------------------------------------------------------
(* Properties                                                                 *)

TuneParams == [tp : Transponders, wrong : SUBSET Spots]
Pipelines ==
    [channel : Channels, tuned : TuneParams, seen : Nat, left : Lefts(world) \cup {None},
     relock : Muxes(world), retunes : {0, 1}, unconfirmed : Spots \cup {None},
     clock : Muxes(world), pat : Muxes(world), net : BOOLEAN, selected : Muxes(world),
     ready : BOOLEAN, aged : BOOLEAN, due : BOOLEAN, running : BOOLEAN, other : BOOLEAN, standbyFirst : BOOLEAN]
Tuners ==
    [pc : {"Search", "Stream", "Unplugged"}, tp : Transponders, todo : SUBSET Spots,
     at : Spots \cup {None}, relock : BOOLEAN, lockedAt : Spots, acquiring : BOOLEAN]

\* The type invariant: what is known of a multiplex, of the one left included, is
\* of one that is on the air.
ReceiverTypeOK ==
    /\ world \in Worlds
    /\ ask \in [n : Nat, want : Channels \cup {Standby}]
    /\ rx \in Pipelines
    /\ tuner \in Tuners
    /\ air \in [signal : BOOLEAN, lock : Muxes(world)]
    /\ gate \in Gates(world) \cup {None}
    /\ tail \in Seq((DOMAIN world.tsid) \X {"PAT", "SDT"})
    /\ spent \in [losses : Nat, unplugs : Nat, holds : 0..1]

Admission == gate # None /\ gate' = None /\ rx'.running /\ end' = None

\* What was left in the bridge ends no quarantine that knows the clock of a stop
\* that was not a brief one, or the multiplex left, with its programmes and, where
\* the channel's network is asked for, its network or that it is not the channel's.
Tells(g) == g.left.told \/ g.expect = None \/ world.onid[g.expect] # world.onid[g.left.mux]
Recognised(g) ==
    g.left # None /\ g.left.lists = world.programmes[g.left.mux] /\ Tells(g)
TailHeldBack ==
    [][Admission /\ tail # <<>>
          => (gate.clock = None \/ gate.brief) /\ (Recognised(gate) => Head(tail)[1] # gate.left.mux)]_vars

\* Where the multiplex left can be told and the list knows the channel's, what is
\* let in for the channel is its own, whatever twins of the one left, with the
\* channel's service, other networks have on the air.
TwinsOnly(c, left) ==
    \A mux \in DOMAIN world.tsid \ {Home(c)} :
        c.service \in world.programmes[mux]
            => world.tsid[mux] = world.tsid[left.mux] /\ world.onid[mux] # world.onid[Home(c)]
OnlyTheChannels ==
    [][Admission /\ gate.left # None /\ world.listed /\ Tells(gate) /\ TwinsOnly(rx.channel, gate.left)
          => rx'.selected \in {None, Home(rx.channel)}]_vars

Shown == rx.running /\ gate = None /\ rx.ready /\ state = "Streaming"

\* A signal lost and found, however often and whenever, is not a service missing:
\* a receiver that has found its channel, on its carrier, is not given up for it.
\* (One still looking for it is, if its time was up before the signal was back.)
LossIsNoEnd ==
    end \notin {None, "UsbDisconnected"} /\ rx.ready
        => ask.n > 0 \/ spent.unplugs > 0 \/ rx.channel.service \notin world.programmes[Home(rx.channel)]

\* "The same transponder is tried again until it is back, as a television does":
\* with a signal, and the receiver never unplugged, the channel asked for last is
\* shown in the end, or the end is said.
ComesBack ==
    <>[](\/ end # None \/ ~air.signal \/ spent.unplugs > 0
         \/ ~Superseded /\ (state = Standby \/ Shown))
=============================================================================
