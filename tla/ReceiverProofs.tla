--------------------------- MODULE ReceiverProofs ---------------------------
(* What holds of the receiver for any channels, worlds and search, however    *)
(* much the bridge still holds.                                               *)
EXTENDS Receiver, TLAPS

Kinds    == {"PAT", "SDT"}
Sectioned == (DOMAIN world.tsid) \X Kinds

\* The nominal frequency is among the spots searched.
LEMMA NominalIsASpot == 0 \in Spots
<1>1. Order \in Seq(Int) /\ 1 \in DOMAIN Order /\ Order[1] = 0
  BY ReceiverAssumption DEF Order
<1> QED BY <1>1 DEF Spots, Range

\* What the assumption says of the world there is.
LEMMA OfTheWorld ==
    ASSUME ReceiverTypeOK
    PROVE  /\ None \notin Lefts(world) /\ None \notin Gates(world)
           /\ \A mux \in DOMAIN world.tsid : world.tsid[mux] # None /\ world.tsid[mux] \in Tsids(world)
           /\ \A mux \in DOMAIN world.tsid : world.programmes[mux] \in Range(world.programmes)
           /\ \A tp \in Transponders : world.home[tp] \in DOMAIN world.tsid
           /\ \A tp \in Transponders, o \in Spots : world.carrier[tp][o] \in Muxes(world)
           /\ First \in Channels /\ \A c \in Channels : c.tp \in Transponders /\ c.service \in Services
  BY ReceiverAssumption DEF ReceiverTypeOK, Tsids, Range, Transponders, Services

\* The pipeline with some of it forgotten is one still.
LEMMA Forgets ==
    ASSUME NEW r \in Pipelines
    PROVE  /\ [r EXCEPT !.pat = None, !.net = FALSE] \in Pipelines
           /\ [r EXCEPT !.due = FALSE, !.pat = None, !.net = FALSE] \in Pipelines
           /\ [r EXCEPT !.due = TRUE] \in Pipelines
           /\ [r EXCEPT !.retunes = 1] \in Pipelines
           /\ [r EXCEPT !.retunes = 1, !.other = FALSE] \in Pipelines
<1>1. None \in Muxes(world)
  BY DEF Muxes
<1>2. [r EXCEPT !.pat = None, !.net = FALSE] \in Pipelines
  BY <1>1 DEF Pipelines
<1>3. [r EXCEPT !.due = FALSE, !.pat = None, !.net = FALSE] \in Pipelines
  BY <1>1 DEF Pipelines
<1>4. [r EXCEPT !.due = TRUE] \in Pipelines
  BY DEF Pipelines
<1>5. [r EXCEPT !.retunes = 1] \in Pipelines
  BY DEF Pipelines
<1>6. [r EXCEPT !.retunes = 1, !.other = FALSE] \in Pipelines
  BY DEF Pipelines
<1> QED BY <1>2, <1>3, <1>4, <1>5, <1>6

----------------------------------------------------------------------------
(* The operators the actions are built from.                                  *)

\* The searches and the relocks a tuner is given are a tuner's.
LEMMA SearchesTyped ==
    ASSUME ReceiverTypeOK, NEW par \in TuneParams
    PROVE  Search(par) \in Tuners /\ Relock(par) \in Tuners
  BY DEF ReceiverTypeOK, Search, Relock, Tuners, TuneParams, Offsets

LEMMA FreshTyped ==
    ASSUME ReceiverTypeOK, NEW c \in Channels
    PROVE  Fresh(c.tp) \in TuneParams
  BY OfTheWorld DEF Fresh, TuneParams

\* A new gate has said nothing yet, and knows the clock or what was left, not both.
LEMMA NewGateTyped ==
    ASSUME ReceiverTypeOK, NEW r \in Pipelines, NEW want \in Muxes(world), NEW brief \in BOOLEAN
    PROVE  /\ NewGate(r, want, brief) \in Gates(world)
           /\ LET g == NewGate(r, want, brief)
              IN  /\ g.left = r.left /\ g.want = want /\ g.expect = Expect(r.channel)
                  /\ g.service = r.channel.service /\ g.heard = 0 /\ ~g.aged
                  /\ g.confirmed = None /\ g.pending = None
                  /\ g.left # None \/ g.fresh => g.clock = None
<1>1. Expect(r.channel) \in Muxes(world) /\ r.channel.service \in Services
  BY OfTheWorld DEF Expect, Home, Muxes, Pipelines
<1>2. None \in Tsids(world) /\ None \in Muxes(world)
  BY DEF Tsids, Muxes
<1> DEFINE short == brief /\ r.left = None /\ r.clock # None /\ tail # <<>>
           fresh == r.left # None \/ r.clock = None
           clock == IF r.left = None THEN r.clock ELSE None
<1>3. short \in BOOLEAN /\ fresh \in BOOLEAN /\ clock \in Muxes(world)
      /\ (r.left # None \/ fresh => clock = None)
  BY <1>2 DEF Pipelines
<1>4. NewGate(r, want, brief) =
        [left |-> r.left, want |-> want, expect |-> Expect(r.channel),
         service |-> r.channel.service, clock |-> clock, fresh |-> fresh, brief |-> short,
         repeated |-> None, pending |-> None, confirmed |-> None,
         counts |-> {}, heard |-> 0, aged |-> FALSE]
  BY DEF NewGate
<1> HIDE DEF short, fresh, clock
<1> QED BY <1>1, <1>2, <1>3, <1>4 DEF Gates, Pipelines

LEMMA QuarantineTyped ==
    ASSUME ReceiverTypeOK, NEW r \in Pipelines, Quarantined(r)
    PROVE  /\ gate' \in Gates(world)
           /\ \E brief \in BOOLEAN : gate' = NewGate(r, r.relock, brief)
           /\ rx' \in Pipelines
<1>1. r.relock \in Muxes(world) /\ None \in Muxes(world)
  BY DEF Pipelines, Muxes
<1>2. \E brief \in BOOLEAN : gate' = NewGate(r, r.relock, brief)
  BY DEF Quarantined
<1>3. gate' \in Gates(world)
  BY <1>1, <1>2, NewGateTyped
<1>4. rx' = [r EXCEPT !.running = TRUE, !.other = FALSE,
                      !.clock = IF r.left = None THEN None ELSE @]
  BY DEF Quarantined
<1>5. rx' \in Pipelines
  BY <1>1, <1>4 DEF Pipelines
<1> QED BY <1>2, <1>3, <1>5

\* What a stream leaves in the bridge is of one multiplex, or was there before.
LEMMA LeftTyped ==
    ASSUME ReceiverTypeOK, tail' \in LeftInTheBridge
    PROVE  /\ tail' \in Seq(Sectioned)
           /\ \/ tail' = tail
              \/ \A i \in DOMAIN tail' : tail'[i][1] = air.lock /\ air.lock # None
<1>1. CASE tail' = tail
  BY <1>1 DEF ReceiverTypeOK, Sectioned, Kinds
<1>2. CASE tail' # tail
  <2>1. PICK n \in 0..MaxTail : tail' \in [1..n -> Sections]
    BY <1>2 DEF LeftInTheBridge
  <2>2. Sections \subseteq Sectioned /\ \A s \in Sections : s[1] = air.lock /\ air.lock # None
    BY DEF ReceiverTypeOK, Sections, Sectioned, Kinds, Muxes
  <2>3. n \in Nat
    BY ReceiverAssumption
  <2>4. tail' \in [1..n -> Sectioned]
    BY <2>1, <2>2
  <2> QED BY <2>1, <2>2, <2>3, <2>4
<1> QED BY <1>1, <1>2

\* A stopped pipeline notes the clock of a programme it has selected.
LEMMA ClockedTyped ==
    ASSUME NEW r \in Pipelines
    PROVE  /\ Clocked(r) \in Pipelines /\ ~Clocked(r).running
           /\ Clocked(r).clock \in {r.selected, None}
<1> DEFINE clock == IF r.ready THEN r.selected ELSE None
<1>1. clock \in Muxes(world) /\ clock \in {r.selected, None}
  BY DEF Pipelines, Muxes
<1>2. Clocked(r) = [r EXCEPT !.running = FALSE, !.clock = clock]
  BY DEF Clocked
<1> HIDE DEF clock
<1> QED BY <1>1, <1>2 DEF Pipelines

LEMMA StoppedTyped ==
    ASSUME ReceiverTypeOK, NEW r \in Pipelines, NEW next \in Tuners, NEW s, Stopped(r, next, s)
    PROVE  /\ rx' \in Pipelines /\ tuner' \in Tuners /\ gate' = None
           /\ tail' \in Seq(Sectioned)
<1>1. Clocked(r) \in Pipelines
  BY ClockedTyped
<1> QED BY <1>1, LeftTyped DEF Stopped

----------------------------------------------------------------------------
(* The gate's verdicts.                                                       *)

SameRule(h, g) ==
    /\ h.left = g.left /\ h.want = g.want /\ h.expect = g.expect /\ h.service = g.service
    /\ h.clock = g.clock /\ h.fresh = g.fresh /\ h.heard = g.heard
    /\ h.brief = g.brief /\ h.aged = g.aged

LEMMA CountsTyped ==
    ASSUME ReceiverTypeOK, NEW g \in Gates(world),
           NEW what \in {"old", "other", "twin", "awaiting", "wrong", "stale"}
    PROVE  LET h == Counts(g, what)
           IN  /\ h \in Gates(world) /\ SameRule(h, g) /\ h.pending = g.pending
               /\ h.confirmed = g.confirmed /\ h.repeated = g.repeated
  BY DEF Counts, Gates, SameRule

LEMMA TwiceTyped ==
    ASSUME ReceiverTypeOK, NEW g \in Gates(world), NEW mux \in DOMAIN world.tsid,
           NEW is
    PROVE  LET v == Twice(g, mux, is)
           IN  /\ v.gate \in Gates(world) /\ SameRule(v.gate, g) /\ v.gate.pending = g.pending
               /\ v.gate.confirmed = g.confirmed /\ v.is \in {"Waiting", is}
<1>1. CASE g.repeated = world.tsid[mux]
  BY <1>1 DEF Twice, SameRule
<1>2. CASE g.repeated # world.tsid[mux]
  <2> DEFINE h == [g EXCEPT !.repeated = world.tsid[mux]]
  <2>1. Twice(g, mux, is) = [gate |-> h, is |-> "Waiting"]
    BY <1>2 DEF Twice, Waiting
  <2>2. h \in Gates(world) /\ SameRule(h, g) /\ h.pending = g.pending /\ h.confirmed = g.confirmed
    BY OfTheWorld DEF Gates, SameRule
  <2> HIDE DEF h
  <2> QED BY <2>1, <2>2
<1> QED BY <1>1, <1>2

\* A PAT like the left one's is held for its network only where one is known.
LEMMA HeldTyped ==
    ASSUME ReceiverTypeOK, NEW g \in Gates(world), NEW mux \in DOMAIN world.tsid
    PROVE  LET v == Held(g, mux)
           IN  /\ v.gate \in Gates(world) /\ SameRule(v.gate, g) /\ v.is = "Waiting"
               /\ v.gate.confirmed = g.confirmed
               /\ v.gate.pending = g.pending \/ Told(g)
<1> DEFINE h == [g EXCEPT !.repeated = None]
<1>1. h \in Gates(world) /\ SameRule(h, g) /\ h.pending = g.pending /\ h.confirmed = g.confirmed
  BY DEF Gates, SameRule, Tsids
<1> HIDE DEF h
<1>2. CASE ~Told(g)
  <2>1. Held(g, mux) = [gate |-> Counts(h, "old"), is |-> "Waiting"]
    BY <1>2 DEF Held, Waiting, h
  <2> QED BY <2>1, <1>1, CountsTyped DEF SameRule
<1>3. CASE Told(g) /\ Twin(g, mux)
  <2> DEFINE k == Counts(Counts(h, "awaiting"), "twin")
             e == [k EXCEPT !.pending = world.tsid[mux]]
  <2>1. Held(g, mux) = [gate |-> e, is |-> "Waiting"]
    BY <1>3 DEF Held, Waiting, h
  <2>2. Counts(h, "awaiting") \in Gates(world) /\ SameRule(Counts(h, "awaiting"), h)
        /\ Counts(h, "awaiting").confirmed = h.confirmed
    BY <1>1, CountsTyped
  <2>3. k \in Gates(world) /\ SameRule(k, h) /\ k.confirmed = h.confirmed
    BY <2>2, CountsTyped DEF SameRule
  <2> HIDE DEF k
  <2>4. e \in Gates(world) /\ SameRule(e, k) /\ e.confirmed = k.confirmed
    BY <2>3, OfTheWorld DEF Gates, SameRule
  <2> HIDE DEF e
  <2> QED BY <1>1, <1>3, <2>1, <2>3, <2>4 DEF SameRule
<1>4. CASE Told(g) /\ ~Twin(g, mux)
  <2> DEFINE k == Counts(h, "awaiting")
             e == [k EXCEPT !.pending = world.tsid[mux]]
  <2>1. Held(g, mux) = [gate |-> e, is |-> "Waiting"]
    BY <1>4 DEF Held, Waiting, h
  <2>2. k \in Gates(world) /\ SameRule(k, h) /\ k.confirmed = h.confirmed
    BY <1>1, CountsTyped
  <2> HIDE DEF k
  <2>3. e \in Gates(world) /\ SameRule(e, k) /\ e.confirmed = k.confirmed
    BY <2>2, OfTheWorld DEF Gates, SameRule
  <2> HIDE DEF e
  <2> QED BY <1>1, <1>4, <2>1, <2>2, <2>3 DEF SameRule
<1> QED BY <1>2, <1>3, <1>4

\* Neither the left one nor its twin: it waits, or is let in, or is another's.
LEMMA UnlikeTyped ==
    ASSUME ReceiverTypeOK, NEW g \in Gates(world), NEW mux \in DOMAIN world.tsid
    PROVE  LET v == Unlike(g, mux)
           IN  /\ v.gate \in Gates(world) /\ SameRule(v.gate, g)
               /\ v.gate.pending = g.pending /\ v.gate.confirmed = g.confirmed
               /\ v.is \in {"Waiting", "Other", "Admitted"}
<1> DEFINE h == Counts(g, "other")
<1>1. h \in Gates(world) /\ SameRule(h, g) /\ h.pending = g.pending /\ h.confirmed = g.confirmed
  BY CountsTyped
<1> HIDE DEF h
<1>2. Unlike(g, mux) \in {Admits(g), Twice(h, mux, "Other"), Twice(h, mux, "Admitted")}
  BY DEF Unlike, h
<1>3. CASE Unlike(g, mux) = Admits(g)
  BY <1>3 DEF Admits, SameRule
<1>4. CASE Unlike(g, mux) = Twice(h, mux, "Other")
  BY <1>1, <1>4, TwiceTyped DEF SameRule
<1>5. CASE Unlike(g, mux) = Twice(h, mux, "Admitted")
  BY <1>1, <1>5, TwiceTyped DEF SameRule
<1> QED BY <1>2, <1>3, <1>4, <1>5

\* A PAT: what is like the left one is let in only once its network confirmed it.
LEMMA DecideTyped ==
    ASSUME ReceiverTypeOK, NEW g \in Gates(world), NEW mux \in DOMAIN world.tsid
    PROVE  LET v == Decide(g, mux)
           IN  /\ v.gate \in Gates(world) /\ SameRule(v.gate, g)
               /\ v.gate.confirmed = g.confirmed
               /\ v.gate.pending = g.pending \/ Told(g)
               /\ v.is \in {"Waiting", "Other", "Admitted"}
               /\ v.is = "Admitted" => /\ g.fresh
                                       /\ Alike(g, mux) => g.confirmed = world.tsid[mux]
<1>1. CASE ~g.fresh
  <2> DEFINE k == Counts(g, "stale")
             e == [k EXCEPT !.repeated = None]
  <2>1. Decide(g, mux) = [gate |-> e, is |-> "Waiting"]
    BY <1>1 DEF Decide, Waiting
  <2>2. k \in Gates(world) /\ SameRule(k, g) /\ k.pending = g.pending /\ k.confirmed = g.confirmed
    BY CountsTyped
  <2> HIDE DEF k
  <2>3. e \in Gates(world) /\ SameRule(e, k) /\ e.pending = k.pending /\ e.confirmed = k.confirmed
    BY <2>2 DEF Gates, SameRule, Tsids
  <2> HIDE DEF e
  <2> QED BY <2>1, <2>2, <2>3 DEF SameRule
<1>2. CASE g.fresh /\ ~Alike(g, mux)
  <2>1. Decide(g, mux) = Unlike(g, mux)
    BY <1>2 DEF Decide
  <2> QED BY <1>2, <2>1, UnlikeTyped
<1>3. CASE g.fresh /\ Alike(g, mux) /\ g.confirmed = world.tsid[mux]
  <2>1. Decide(g, mux) = Admits(g)
    BY <1>3 DEF Decide
  <2>2. Admits(g).gate = g /\ Admits(g).is = "Admitted" /\ SameRule(g, g)
    BY DEF Admits, SameRule
  <2> QED BY <1>3, <2>1, <2>2
<1>4. CASE g.fresh /\ Alike(g, mux) /\ g.confirmed # world.tsid[mux]
  <2>1. Decide(g, mux) = Held(g, mux)
    BY <1>4 DEF Decide
  <2> QED BY <1>4, <2>1, HeldTyped
<1> QED BY <1>1, <1>2, <1>3, <1>4

\* An SDT confirms what was held for it, if its network is the channel's, where
\* that is known, and not the one left.
LEMMA NetworkTyped ==
    ASSUME ReceiverTypeOK, NEW g \in Gates(world), NEW mux \in DOMAIN world.tsid
    PROVE  LET v == Network(g, mux)
           IN  /\ v.gate \in Gates(world) /\ SameRule(v.gate, g) /\ v.is = "Waiting"
               /\ v.gate.pending \in {g.pending, None}
               /\ \/ v.gate.confirmed = g.confirmed
                  \/ /\ g.pending = world.tsid[mux]
                     /\ ~(g.left # None /\ g.left.told /\ world.onid[g.left.mux] = world.onid[mux])
                     /\ g.expect # None => world.onid[g.expect] = world.onid[mux]
                     /\ v.gate.confirmed = world.tsid[mux]
<1> DEFINE h == [g EXCEPT !.pending = None]
           left == g.left # None /\ g.left.told /\ world.onid[g.left.mux] = world.onid[mux]
           other == g.expect # None /\ world.onid[g.expect] # world.onid[mux]
<1>1. h \in Gates(world) /\ SameRule(h, g) /\ h.pending = None /\ h.confirmed = g.confirmed
  BY DEF Gates, SameRule, Tsids
<1>2. CASE g.pending # world.tsid[mux]
  <2>1. Network(g, mux) = [gate |-> g, is |-> "Waiting"]
    BY <1>2 DEF Network, Waiting
  <2> QED BY <2>1 DEF SameRule
<1>3. CASE g.pending = world.tsid[mux] /\ left
  <2>1. Network(g, mux) = [gate |-> Counts(h, "old"), is |-> "Waiting"]
    BY <1>3 DEF Network, Waiting
  <2> HIDE DEF h
  <2> QED BY <1>1, <2>1, CountsTyped DEF SameRule
<1>4. CASE g.pending = world.tsid[mux] /\ ~left /\ other
  <2>1. Network(g, mux) = [gate |-> Counts(h, "wrong"), is |-> "Waiting"]
    BY <1>4 DEF Network, Waiting
  <2> HIDE DEF h
  <2> QED BY <1>1, <2>1, CountsTyped DEF SameRule
<1>5. CASE g.pending = world.tsid[mux] /\ ~left /\ ~other
  <2> DEFINE e == [h EXCEPT !.confirmed = world.tsid[mux]]
  <2>1. Network(g, mux) = [gate |-> e, is |-> "Waiting"]
    BY <1>5 DEF Network, Waiting
  <2> HIDE DEF h
  <2>2. /\ e \in Gates(world) /\ SameRule(e, h) /\ e.pending = h.pending
        /\ e.confirmed = world.tsid[mux]
    BY <1>1, OfTheWorld DEF Gates, SameRule
  <2> HIDE DEF e
  <2> QED BY <1>1, <1>5, <2>1, <2>2 DEF SameRule
<1> QED BY <1>2, <1>3, <1>4, <1>5

----------------------------------------------------------------------------
(* The type invariant.                                                        *)

LEMMA InitTyped == ReceiverInit => ReceiverTypeOK
<1> SUFFICES ASSUME ReceiverInit PROVE ReceiverTypeOK
  OBVIOUS
<1>1. /\ First \in Channels /\ First.tp \in Transponders /\ 0 \in Spots
  BY ReceiverAssumption, NominalIsASpot DEF Transponders
<1>2. world \in Worlds /\ ask \in [n : Nat, want : Channels \cup {Standby}]
  BY <1>1 DEF ReceiverInit
<1>3. Fresh(First.tp) \in TuneParams
  BY <1>1 DEF Fresh, TuneParams
<1>4. rx \in Pipelines
  BY <1>1, <1>3 DEF ReceiverInit, Pipelines, Muxes
<1>5. tuner \in Tuners
  BY <1>1 DEF ReceiverInit, Tuners, Offsets
<1>6. air \in [signal : BOOLEAN, lock : Muxes(world)]
  BY DEF ReceiverInit, Muxes
<1>7. tail \in Seq((DOMAIN world.tsid) \X {"PAT", "SDT"}) /\ gate \in Gates(world) \cup {None}
  BY DEF ReceiverInit
<1>8. spent \in [losses : Nat, unplugs : Nat, holds : 0..1]
  BY <1>1 DEF ReceiverInit
<1> QED BY <1>2, <1>4, <1>5, <1>6, <1>7, <1>8 DEF ReceiverTypeOK

\* A stream begins, of what the tuner locked or of nothing.
LEMMA EnterTyped ==
    ASSUME ReceiverTypeOK, tuner'.at \in Spots,
           NEW locked \in BOOLEAN, NEW superseded \in BOOLEAN, EnterStream(locked, superseded)
    PROVE  /\ rx' \in Pipelines /\ gate' \in Gates(world) \cup {None}
           /\ \/ gate' = gate
              \/ \E r \in Pipelines, brief \in BOOLEAN : gate' = NewGate(r, r.relock, brief)
<1> DEFINE said == IF tuner.relock THEN 0 ELSE tuner'.at
           lostIt == ~locked /\ ~superseded /\ state # "NoSignal"
           backAgain == locked /\ state = "NoSignal" /\ rx.relock = None
           r == [rx EXCEPT !.unconfirmed = IF locked THEN said ELSE None,
                           !.relock = IF lostIt THEN None ELSE @,
                           !.due = IF lostIt THEN FALSE ELSE IF backAgain THEN TRUE ELSE @,
                           !.aged = FALSE]
<1>1. said \in Spots
  BY NominalIsASpot
<1> HIDE DEF said, lostIt, backAgain
<1>2. r \in Pipelines
  <2> DEFINE found == IF locked THEN said ELSE None
             relock == IF lostIt THEN None ELSE rx.relock
             due == IF lostIt THEN FALSE ELSE IF backAgain THEN TRUE ELSE rx.due
  <2>1. rx \in Pipelines
    BY DEF ReceiverTypeOK
  <2>2. found \in Spots \cup {None} /\ relock \in Muxes(world) /\ due \in BOOLEAN
    BY <1>1, <2>1 DEF Pipelines, Muxes
  <2>3. r = [rx EXCEPT !.unconfirmed = found, !.relock = relock, !.due = due, !.aged = FALSE]
    BY <2>1 DEF Pipelines
  <2> HIDE DEF found, relock, due, r
  <2> QED BY <2>1, <2>2, <2>3 DEF Pipelines
<1>3. \/ rx' = [r EXCEPT !.standbyFirst = FALSE] /\ gate' = gate
      \/ Quarantined(r)
  BY DEF EnterStream, said, lostIt, backAgain
<1> HIDE DEF r
<1>4. CASE rx' = [r EXCEPT !.standbyFirst = FALSE] /\ gate' = gate
  BY <1>2, <1>4 DEF ReceiverTypeOK, Pipelines
<1>5. CASE Quarantined(r)
  <2>1. gate' \in Gates(world) /\ rx' \in Pipelines
    BY <1>2, <1>5, QuarantineTyped
  <2>2. \E brief \in BOOLEAN : gate' = NewGate(r, r.relock, brief)
    BY <1>2, <1>5, QuarantineTyped
  <2> QED BY <1>2, <2>1, <2>2
<1> QED BY <1>3, <1>4, <1>5

LEMMA TryTyped == ASSUME ReceiverTypeOK, TryOffset PROVE ReceiverTypeOK'
<1>1. PICK o \in tuner.todo :
        LET mux  == IF air.signal THEN world.carrier[tuner.tp][o] ELSE None
            got  == mux # None /\ ~Superseded
            done == got \/ Superseded \/ tuner.todo = {o}
        IN  /\ air' = [air EXCEPT !.lock = IF got THEN mux ELSE None]
            /\ tuner' = [tuner EXCEPT !.at = o, !.todo = IF done THEN {} ELSE @ \ {o},
                                      !.pc = IF done THEN "Stream" ELSE @,
                                      !.lockedAt = IF got /\ ~tuner.relock THEN o ELSE @,
                                      !.acquiring = got \/ Superseded]
            /\ IF done THEN EnterStream(got, Superseded) ELSE UNCHANGED <<rx, gate, state>>
  BY DEF TryOffset
<1> DEFINE mux  == IF air.signal THEN world.carrier[tuner.tp][o] ELSE None
           got  == mux # None /\ ~Superseded
           done == got \/ Superseded \/ tuner.todo = {o}
<1>2. o \in Spots /\ mux \in Muxes(world) /\ None \in Muxes(world)
  BY OfTheWorld DEF ReceiverTypeOK, Tuners, Muxes
<1>3. got \in BOOLEAN /\ done \in BOOLEAN /\ Superseded \in BOOLEAN
  BY DEF Superseded
<1> HIDE DEF mux
<1>4. air' = [air EXCEPT !.lock = IF got THEN mux ELSE None]
  BY <1>1 DEF mux
<1>5. tuner' = [tuner EXCEPT !.at = o, !.todo = IF done THEN {} ELSE @ \ {o},
                             !.pc = IF done THEN "Stream" ELSE @,
                             !.lockedAt = IF got /\ ~tuner.relock THEN o ELSE @,
                             !.acquiring = got \/ Superseded]
  BY <1>1 DEF mux
<1>6. IF done THEN EnterStream(got, Superseded) ELSE UNCHANGED <<rx, gate, state>>
  BY <1>1 DEF mux
<1> HIDE DEF got, done
<1>7. air' \in [signal : BOOLEAN, lock : Muxes(world)]
  BY <1>2, <1>4 DEF ReceiverTypeOK
<1>8. tuner' \in Tuners /\ tuner'.at = o
  BY <1>2, <1>3, <1>5 DEF ReceiverTypeOK, Tuners
<1>9. rx' \in Pipelines /\ gate' \in Gates(world) \cup {None}
  BY <1>2, <1>3, <1>6, <1>8, EnterTyped DEF ReceiverTypeOK
<1>10. UNCHANGED <<world, ask, tail, end, spent>>
  BY DEF TryOffset
<1> QED BY <1>7, <1>8, <1>9, <1>10 DEF ReceiverTypeOK, Pipelines, Tuners, Lefts, Muxes, Gates, Tsids

LEMMA TypedAgain ==
    ASSUME ReceiverTypeOK, world' = world, ask' \in [n : Nat, want : Channels \cup {Standby}],
           rx' \in Pipelines, tuner' \in Tuners, air' \in [signal : BOOLEAN, lock : Muxes(world)],
           gate' \in Gates(world) \cup {None}, tail' \in Seq(Sectioned),
           spent' \in [losses : Nat, unplugs : Nat, holds : 0..1]
    PROVE  ReceiverTypeOK'
  BY DEF ReceiverTypeOK, Pipelines, Tuners, Lefts, Muxes, Gates, Tsids, Sectioned, Kinds

LEMMA LateTyped == ASSUME ReceiverTypeOK, LocksLate PROVE ReceiverTypeOK'
<1>1. Reachable \in Muxes(world)
  BY OfTheWorld DEF Reachable, ReceiverTypeOK, Tuners, Muxes
<1>2. air' \in [signal : BOOLEAN, lock : Muxes(world)]
  BY <1>1 DEF LocksLate, ReceiverTypeOK
<1> QED BY <1>2, TypedAgain DEF LocksLate, ReceiverTypeOK, Sectioned, Kinds

\* What the change of channel makes of the pipeline.
LEMMA SelectedTyped ==
    ASSUME ReceiverTypeOK, NEW c \in Channels, NEW n \in Nat
    PROVE  LET r == [Selected(rx, c) EXCEPT !.seen = n]
           IN  /\ r \in Pipelines /\ r.seen = n /\ r.running = rx.running
               /\ r.tuned = rx.tuned \/ r.tuned = Fresh(c.tp)
<1> USE DEF ReceiverTypeOK
<1>1. Fresh(c.tp) \in TuneParams
  BY FreshTyped
<1>2. WasLeft(rx) \in Lefts(world) \cup {None}
  BY OfTheWorld DEF WasLeft, Lefts, Pipelines, Muxes
<1>3. /\ RetunedTo(rx, c) \in Pipelines /\ RetunedTo(rx, c).running = rx.running
      /\ RetunedTo(rx, c).tuned \in {rx.tuned, Fresh(c.tp)}
  BY <1>1, <1>2 DEF RetunedTo, Pipelines, Muxes
<1> DEFINE a == RetunedTo(rx, c)
<1> HIDE DEF a
<1>4. /\ Anew(a, c) \in Pipelines /\ Anew(a, c).running = a.running
      /\ Anew(a, c).tuned = a.tuned
  <2>1. a \in Pipelines /\ None \in Muxes(world)
    BY <1>3 DEF a, Muxes
  <2>2. Anew(a, c) \in Pipelines
    BY <2>1 DEF Anew, Pipelines
  <2> QED BY <2>1, <2>2 DEF Anew, Pipelines
<1>5. /\ Selected(rx, c) \in Pipelines /\ Selected(rx, c).running = rx.running
      /\ Selected(rx, c).tuned \in {rx.tuned, Fresh(c.tp)}
  <2>1. CASE SameChannel(rx, c)
    BY <2>1 DEF Selected, Pipelines
  <2>2. CASE ~SameChannel(rx, c)
    BY <1>3, <1>4, <2>2 DEF Selected, a
  <2> QED BY <2>1, <2>2
<1> QED BY <1>5 DEF Pipelines

LEMMA FollowTyped == ASSUME ReceiverTypeOK, FollowSelect PROVE ReceiverTypeOK'
<1>1. ask.n \in Nat /\ (ask.want # Standby => ask.want \in Channels)
  BY DEF ReceiverTypeOK
<1>2. CASE ask.want = Standby
  <2> DEFINE r == [rx EXCEPT !.seen = ask.n]
  <2>1. r \in Pipelines /\ Stopped(r, tuner, Standby)
    BY <1>1, <1>2 DEF FollowSelect, StandsBy, ReceiverTypeOK, Pipelines
  <2> HIDE DEF r
  <2>2. rx' \in Pipelines /\ tuner' \in Tuners /\ gate' = None /\ tail' \in Seq(Sectioned)
    BY <2>1, StoppedTyped DEF ReceiverTypeOK
  <2> QED BY <2>2, TypedAgain DEF FollowSelect, ReceiverTypeOK
<1>3. CASE ask.want # Standby
  <2> DEFINE c == ask.want
             r == [Selected(rx, c) EXCEPT !.seen = ask.n]
  <2>1. r \in Pipelines /\ r.tuned \in TuneParams
    BY <1>1, <1>3, SelectedTyped DEF Pipelines
  <2>2. Search(r.tuned) \in Tuners
    BY <2>1, SearchesTyped
  <2>3. \/ Stopped(r, Search(r.tuned), "Tuning")
        \/ rx' = r /\ UNCHANGED <<gate, tuner, tail, state>>
        \/ Quarantined(r) /\ UNCHANGED <<tuner, tail>>
    BY <1>3 DEF FollowSelect, Select
  <2>4. UNCHANGED <<world, ask, air, end, spent>>
    BY DEF FollowSelect
  <2> HIDE DEF c, r
  <2>5. CASE Stopped(r, Search(r.tuned), "Tuning")
    <3>1. rx' \in Pipelines /\ tuner' \in Tuners /\ gate' = None /\ tail' \in Seq(Sectioned)
      BY <2>1, <2>2, <2>5, StoppedTyped
    <3> QED BY <2>4, <3>1, TypedAgain DEF ReceiverTypeOK
  <2>6. CASE rx' = r /\ UNCHANGED <<gate, tuner, tail, state>>
    BY <2>1, <2>4, <2>6, TypedAgain DEF ReceiverTypeOK, Sectioned, Kinds
  <2>7. CASE Quarantined(r) /\ UNCHANGED <<tuner, tail>>
    BY <2>1, <2>4, <2>7, QuarantineTyped, TypedAgain DEF ReceiverTypeOK, Sectioned, Kinds
  <2> QED BY <2>3, <2>5, <2>6, <2>7
<1> QED BY <1>2, <1>3

LEMMA HoldTyped == ASSUME ReceiverTypeOK, NobodyReads PROVE ReceiverTypeOK'
<1>1. Stopped(rx, tuner, Standby) /\ rx \in Pipelines /\ tuner \in Tuners
  BY DEF NobodyReads, StandsBy, ReceiverTypeOK
<1>2. rx' \in Pipelines /\ tuner' \in Tuners /\ gate' = None /\ tail' \in Seq(Sectioned)
  BY <1>1, StoppedTyped
<1>3. spent' \in [losses : Nat, unplugs : Nat, holds : 0..1]
  BY DEF NobodyReads, ReceiverTypeOK
<1> QED BY <1>2, <1>3, TypedAgain DEF NobodyReads, ReceiverTypeOK

\* A stop, and a tune again.
LEMMA RetuneTyped ==
    ASSUME ReceiverTypeOK, NEW r \in Pipelines, NEW next \in Tuners, NEW s, Retunes(r, next, s)
    PROVE  ReceiverTypeOK'
<1>1. Stopped(r, next, s)
  BY DEF Retunes
<1>2. rx' \in Pipelines /\ tuner' \in Tuners /\ gate' = None /\ tail' \in Seq(Sectioned)
  BY <1>1, StoppedTyped
<1> QED BY <1>2, TypedAgain DEF Retunes, ReceiverTypeOK

LEMMA EndTyped == ASSUME ReceiverTypeOK, NEW why, Ends(why) PROVE ReceiverTypeOK'
<1>1. rx' \in Pipelines
  BY ClockedTyped DEF Ends, ReceiverTypeOK
<1> QED BY <1>1, TypedAgain DEF Ends, ReceiverTypeOK, Sectioned, Kinds

\* What only the pipeline notes.
LEMMA NotedTyped ==
    ASSUME ReceiverTypeOK, rx' \in Pipelines, UNCHANGED <<world, ask, tuner, air, gate, tail, spent>>
    PROVE  ReceiverTypeOK'
  BY TypedAgain DEF ReceiverTypeOK, Sectioned, Kinds

LEMMA DeadlineTyped == ASSUME ReceiverTypeOK, GateDeadline PROVE ReceiverTypeOK'
<1>1. [rx EXCEPT !.retunes = 1] \in Pipelines
  BY Forgets DEF ReceiverTypeOK
<1>2. Relock(rx.tuned) \in Tuners
  BY SearchesTyped DEF ReceiverTypeOK, Pipelines
<1> QED BY <1>1, <1>2, RetuneTyped, EndTyped DEF GateDeadline

LEMMA OtherTyped == ASSUME ReceiverTypeOK, OtherStream PROVE ReceiverTypeOK'
<1>1. [rx EXCEPT !.retunes = 1, !.other = FALSE] \in Pipelines
  BY Forgets DEF ReceiverTypeOK
<1>2. [rx EXCEPT !.other = FALSE] \in Pipelines
  BY DEF ReceiverTypeOK, Pipelines
<1>3. Relock(rx.tuned) \in Tuners
  BY SearchesTyped DEF ReceiverTypeOK, Pipelines
<1> QED BY <1>1, <1>2, <1>3, RetuneTyped, NotedTyped DEF OtherStream

LEMMA BackTyped == ASSUME ReceiverTypeOK, SignalBack PROVE ReceiverTypeOK'
<1>1. rx \in Pipelines /\ None \in Muxes(world)
  BY DEF ReceiverTypeOK, Muxes
<1>2. [rx EXCEPT !.relock = None, !.due = TRUE] \in Pipelines
  BY <1>1 DEF Pipelines
<1>3. [rx EXCEPT !.pat = None, !.net = FALSE] \in Pipelines
  BY <1>1, Forgets
<1>4. Relock(rx.tuned) \in Tuners
  BY SearchesTyped DEF ReceiverTypeOK, Pipelines
<1> QED BY <1>2, <1>3, <1>4, RetuneTyped, NotedTyped DEF SignalBack

LEMMA WrongTyped == ASSUME ReceiverTypeOK, WrongCarrier PROVE ReceiverTypeOK'
<1> DEFINE next == [rx.tuned EXCEPT !.wrong = @ \cup {rx.unconfirmed}]
           r    == [rx EXCEPT !.unconfirmed = None]
           again == [r EXCEPT !.pat = None, !.net = FALSE, !.tuned = next]
<1>1. rx \in Pipelines /\ rx.unconfirmed # None
  BY DEF WrongCarrier, ReceiverTypeOK
<1>2. next \in TuneParams /\ r \in Pipelines
  BY <1>1 DEF Pipelines, TuneParams
<1>3. IF rx.channel.service \notin world.programmes[rx.pat] /\ Offsets(next) # {}
      THEN Retunes(again, Search(next), "Tuning")
      ELSE rx' = r /\ UNCHANGED <<world, ask, tuner, air, gate, tail, state, end, spent>>
  BY DEF WrongCarrier
<1> HIDE DEF next, r
<1>4. again \in Pipelines /\ Search(next) \in Tuners
  BY <1>2, SearchesTyped DEF Pipelines, Muxes
<1> QED BY <1>2, <1>3, <1>4, RetuneTyped, NotedTyped

LEMMA LostTyped == ASSUME ReceiverTypeOK, LockLost PROVE ReceiverTypeOK'
<1>1. rx \in Pipelines /\ rx.selected \in Muxes(world) /\ None \in Muxes(world)
  BY DEF ReceiverTypeOK, Pipelines, Muxes
<1>2. rx' = [rx EXCEPT !.relock = rx.selected, !.due = FALSE, !.pat = None, !.net = FALSE]
  BY DEF LockLost
<1>3. rx' \in Pipelines
  BY <1>1, <1>2 DEF Pipelines
<1> QED BY <1>3, NotedTyped DEF LockLost

LEMMA RetuneLostTyped == ASSUME ReceiverTypeOK, RetuneLost PROVE ReceiverTypeOK'
<1>1. [rx EXCEPT !.due = FALSE, !.pat = None, !.net = FALSE] \in Pipelines
  BY Forgets DEF ReceiverTypeOK
<1>2. Relock(rx.tuned) \in Tuners
  BY SearchesTyped DEF ReceiverTypeOK, Pipelines
<1> QED BY <1>1, <1>2, RetuneTyped DEF RetuneLost

LEMMA DueTyped == ASSUME ReceiverTypeOK, LockBack \/ Due PROVE ReceiverTypeOK'
<1>1. rx' = [rx EXCEPT !.due = TRUE] /\ rx \in Pipelines
  BY DEF LockBack, Due, ReceiverTypeOK
<1>2. rx' \in Pipelines
  BY <1>1, Forgets
<1> QED BY <1>2, NotedTyped DEF LockBack, Due

LEMMA PlugTyped == ASSUME ReceiverTypeOK, Unplug \/ GivesUp \/ Replug PROVE ReceiverTypeOK'
<1>1. CASE Unplug
  <2>1. rx' \in Pipelines
    BY <1>1, ClockedTyped DEF Unplug, ReceiverTypeOK
  <2>3. tuner' \in Tuners
    BY <1>1 DEF Unplug, ReceiverTypeOK, Tuners
  <2>4. tail' \in Seq(Sectioned) /\ air' \in [signal : BOOLEAN, lock : Muxes(world)]
    BY <1>1 DEF Unplug, ReceiverTypeOK, Muxes
  <2>2. spent' \in [losses : Nat, unplugs : Nat, holds : 0..1]
    <3>1. spent.unplugs + 1 \in Nat
      BY DEF ReceiverTypeOK
    <3> QED BY <1>1, <3>1 DEF Unplug, ReceiverTypeOK
  <2> QED BY <1>1, <2>1, <2>2, <2>3, <2>4, TypedAgain DEF Unplug, ReceiverTypeOK
<1>2. CASE GivesUp
  BY <1>2, NotedTyped DEF GivesUp, ReceiverTypeOK
<1>3. CASE Replug
  <2>1. Search(Fresh(First.tp)) \in Tuners
    BY OfTheWorld, FreshTyped, SearchesTyped
  <2>2. tuner' \in Tuners
    BY <1>3, <2>1, NominalIsASpot DEF Replug, Tuners
  <2> QED BY <1>3, <2>2, TypedAgain DEF Replug, ReceiverTypeOK, Sectioned, Kinds
<1> QED BY <1>1, <1>2, <1>3

LEMMA PartnersTyped ==
    ASSUME ReceiverTypeOK,
           CableOut \/ CableIn \/ (\E want \in Channels \cup {Standby} : Write(want))
    PROVE  ReceiverTypeOK'
<1>1. CASE CableOut
  <2>1. spent.losses + 1 \in Nat
    BY DEF ReceiverTypeOK
  <2>2. spent' \in [losses : Nat, unplugs : Nat, holds : 0..1]
    BY <1>1, <2>1 DEF CableOut, ReceiverTypeOK
  <2>3. air' \in [signal : BOOLEAN, lock : Muxes(world)]
    BY <1>1 DEF CableOut, Muxes
  <2> QED BY <1>1, <2>2, <2>3, TypedAgain DEF CableOut, ReceiverTypeOK, Sectioned, Kinds
<1>2. CASE CableIn
  BY <1>2, TypedAgain DEF CableIn, ReceiverTypeOK, Sectioned, Kinds
<1>3. ASSUME NEW want \in Channels \cup {Standby}, Write(want) PROVE ReceiverTypeOK'
  BY <1>3, TypedAgain DEF Write, ReceiverTypeOK, Sectioned, Kinds
<1> QED BY <1>1, <1>2, <1>3

\* A section is the bridge's, of a stream left, or the locked multiplex's.
LEMMA SectionTyped ==
    ASSUME ReceiverTypeOK, tail # <<>> \/ Live
    PROVE  /\ Section[1] \in DOMAIN world.tsid
           /\ tail # <<>> => Section = Head(tail) /\ Tail(tail) \in Seq(Sectioned)
           /\ tail = <<>> => Section[1] = air.lock
<1>1. CASE tail # <<>>
  BY <1>1 DEF ReceiverTypeOK, Section, Sectioned, Kinds
<1>2. CASE tail = <<>>
  <2>1. air.lock \in DOMAIN world.tsid
    BY <1>2 DEF ReceiverTypeOK, Live, Muxes
  <2> QED BY <1>2, <2>1 DEF Section
<1> QED BY <1>1, <1>2

\* The gate as a section finds it: what is on the air may clear it, what the bridge
\* held only after a brief stop.
LEMMA HeardTyped ==
    ASSUME ReceiverTypeOK, NEW g \in Gates(world), NEW clock \in BOOLEAN
    PROVE  LET h == Heard(g, clock)
           IN  /\ h \in Gates(world)
               /\ h.left = g.left /\ h.want = g.want /\ h.expect = g.expect
               /\ h.service = g.service /\ h.clock = g.clock /\ h.counts = g.counts
               /\ h.confirmed = g.confirmed /\ h.pending = g.pending
               /\ h.brief = g.brief /\ h.aged = g.aged
               /\ h.fresh = (g.fresh \/ (Live /\ (clock \/ g.heard > 0)) \/ (g.brief /\ clock))
               /\ ~Live => h.heard = g.heard
               /\ Live /\ g.heard < 3 => h.heard = g.heard + 1
<1> DEFINE n == IF ~Live THEN g.heard
                ELSE IF g.heard < HeardEnough THEN g.heard + 1 ELSE HeardEnough - 1
           f == g.fresh \/ (Live /\ (clock \/ g.heard > 0)) \/ (g.brief /\ clock)
<1>1. n \in Nat /\ (~Live => n = g.heard) /\ (Live /\ g.heard < 3 => n = g.heard + 1)
  BY DEF Gates, HeardEnough
<1>2. f \in BOOLEAN
  OBVIOUS
<1>3. Heard(g, clock) = [g EXCEPT !.fresh = f, !.heard = n]
  BY DEF Heard, Gates
<1> HIDE DEF n
<1>4. f = (g.fresh \/ (Live /\ (clock \/ g.heard > 0)) \/ (g.brief /\ clock))
  OBVIOUS
<1> HIDE DEF f
<1> QED BY <1>1, <1>2, <1>3, <1>4 DEF Gates

\* What a section comes to.
LEMMA FeedIs ==
    ASSUME ReceiverTypeOK, Feed
    PROVE  /\ tail # <<>> \/ Live
           /\ tail' = IF tail = <<>> THEN <<>> ELSE Tail(tail)
           /\ UNCHANGED <<world, ask, tuner, air, state, end, spent>>
           /\ \/ /\ gate = None /\ gate' = gate
                 /\ \E kind \in {Section[2], "SDT"} : rx' = Passed(rx, Section[1], kind)
              \/ /\ gate # None
                 /\ \E clock \in BOOLEAN :
                    LET v == Verdict(Heard(gate, clock), Section[1], Section[2])
                    IN  \/ v.is = "Waiting" /\ gate' = v.gate /\ rx' = rx
                        \/ v.is = "Other" /\ gate' = v.gate /\ rx' = [rx EXCEPT !.other = TRUE]
                        \/ /\ v.is = "Admitted" /\ gate' = None
                           /\ rx' = Passed([rx EXCEPT !.retunes = 0, !.left = None, !.net = FALSE],
                                           Section[1], "PAT")
<1>1. /\ tail # <<>> \/ Live
      /\ tail' = IF tail = <<>> THEN <<>> ELSE Tail(tail)
      /\ UNCHANGED <<world, ask, tuner, air, state, end, spent>>
  BY DEF Feed
<1>2. CASE gate = None
  <2>1. gate' = gate /\ \/ rx' = Passed(rx, Section[1], Section[2])
                        \/ rx' = Passed(rx, Section[1], "SDT")
    BY <1>2 DEF Feed
  <2> QED BY <1>1, <1>2, <2>1
<1>3. CASE gate # None
  <2>0. PICK clock \in BOOLEAN :
          LET w == Verdict(Heard(gate, clock), Section[1], Section[2])
          IN  CASE w.is = "Waiting" -> gate' = w.gate /\ UNCHANGED rx
                [] w.is = "Other" -> gate' = w.gate /\ rx' = [rx EXCEPT !.other = TRUE]
                [] w.is = "Admitted" ->
                     /\ gate' = None
                     /\ rx' = Passed([rx EXCEPT !.retunes = 0, !.left = None, !.net = FALSE],
                                     Section[1], "PAT")
    BY <1>3 DEF Feed
  <2> DEFINE v == Verdict(Heard(gate, clock), Section[1], Section[2])
  <2>1. (CASE v.is = "Waiting" -> gate' = v.gate /\ rx' = rx
           [] v.is = "Other" -> gate' = v.gate /\ rx' = [rx EXCEPT !.other = TRUE]
           [] v.is = "Admitted" ->
                /\ gate' = None
                /\ rx' = Passed([rx EXCEPT !.retunes = 0, !.left = None, !.net = FALSE],
                                Section[1], "PAT"))
    BY <2>0
  <2>2. v.is \in {"Waiting", "Other", "Admitted"}
    <3>1. Section[1] \in DOMAIN world.tsid /\ Heard(gate, clock) \in Gates(world)
      BY <1>1, <1>3, SectionTyped, HeardTyped DEF ReceiverTypeOK
    <3> QED BY <3>1, DecideTyped, NetworkTyped DEF Verdict
  <2> HIDE DEF v
  <2>3. \/ v.is = "Waiting" /\ gate' = v.gate /\ rx' = rx
        \/ v.is = "Other" /\ gate' = v.gate /\ rx' = [rx EXCEPT !.other = TRUE]
        \/ /\ v.is = "Admitted" /\ gate' = None
           /\ rx' = Passed([rx EXCEPT !.retunes = 0, !.left = None, !.net = FALSE],
                           Section[1], "PAT")
    BY <2>1, <2>2
  <2> QED BY <1>1, <1>3, <2>3 DEF v
<1> QED BY <1>2, <1>3

LEMMA PassedTyped ==
    ASSUME ReceiverTypeOK, NEW r \in Pipelines, NEW mux \in DOMAIN world.tsid, NEW kind
    PROVE  Passed(r, mux, kind) \in Pipelines
<1>1. CASE kind = "SDT"
  <2>1. (r.net \/ r.pat = mux) \in BOOLEAN
    OBVIOUS
  <2>2. Passed(r, mux, kind) = [r EXCEPT !.net = r.net \/ r.pat = mux]
    BY <1>1 DEF Passed, Pipelines
  <2> DEFINE net == r.net \/ r.pat = mux
  <2> HIDE DEF net
  <2>3. net \in BOOLEAN /\ Passed(r, mux, kind) = [r EXCEPT !.net = net]
    BY <2>1, <2>2 DEF net
  <2> QED BY <2>3 DEF Pipelines
<1>2. CASE kind # "SDT"
  <2> DEFINE ready == r.selected = mux
  <2>1. mux \in Muxes(world) /\ ready \in BOOLEAN
    BY DEF Muxes
  <2>2. Passed(r, mux, kind) \in {[r EXCEPT !.pat = mux, !.selected = mux, !.ready = ready],
                                [r EXCEPT !.pat = mux]}
    BY <1>2 DEF Passed
  <2> HIDE DEF ready
  <2> QED BY <2>1, <2>2 DEF Pipelines
<1> QED BY <1>1, <1>2

LEMMA FeedTyped == ASSUME ReceiverTypeOK, Feed PROVE ReceiverTypeOK'
<1> DEFINE mux == Section[1]
<1>1. /\ mux \in DOMAIN world.tsid
      /\ tail' \in Seq(Sectioned)
  BY FeedIs, SectionTyped DEF ReceiverTypeOK, Sectioned, Kinds
<1>2. UNCHANGED <<world, ask, tuner, air, state, end, spent>>
  BY FeedIs
<1>3. rx \in Pipelines /\ [rx EXCEPT !.retunes = 0, !.left = None, !.net = FALSE] \in Pipelines
      /\ [rx EXCEPT !.other = TRUE] \in Pipelines
  BY DEF ReceiverTypeOK, Pipelines
<1>4. CASE gate = None
  <2>1. gate' = gate /\ \E kind \in {Section[2], "SDT"} : rx' = Passed(rx, mux, kind)
    BY <1>4, FeedIs
  <2>2. rx' \in Pipelines
    BY <1>1, <1>3, <2>1, PassedTyped
  <2> QED BY <1>1, <1>2, <1>4, <2>1, <2>2, TypedAgain DEF ReceiverTypeOK
<1>5. CASE gate # None
  <2>0. PICK clock \in BOOLEAN :
          LET w == Verdict(Heard(gate, clock), mux, Section[2])
          IN  \/ w.is = "Waiting" /\ gate' = w.gate /\ rx' = rx
              \/ w.is = "Other" /\ gate' = w.gate /\ rx' = [rx EXCEPT !.other = TRUE]
              \/ /\ w.is = "Admitted" /\ gate' = None
                 /\ rx' = Passed([rx EXCEPT !.retunes = 0, !.left = None, !.net = FALSE], mux, "PAT")
    BY <1>5, FeedIs
  <2> DEFINE v == Verdict(Heard(gate, clock), mux, Section[2])
  <2>1. Heard(gate, clock) \in Gates(world)
    BY <1>5, HeardTyped DEF ReceiverTypeOK
  <2>2. v.gate \in Gates(world)
    BY <1>1, <2>1, DecideTyped, NetworkTyped DEF Verdict
  <2>3. gate' \in Gates(world) \cup {None} /\ rx' \in Pipelines
    <3>1. \/ v.is = "Waiting" /\ gate' = v.gate /\ rx' = rx
          \/ v.is = "Other" /\ gate' = v.gate /\ rx' = [rx EXCEPT !.other = TRUE]
          \/ /\ v.is = "Admitted" /\ gate' = None
             /\ rx' = Passed([rx EXCEPT !.retunes = 0, !.left = None, !.net = FALSE], mux, "PAT")
      BY <2>0
    <3> HIDE DEF v, mux
    <3> QED BY <1>1, <1>3, <2>2, <3>1, PassedTyped
  <2> QED BY <1>1, <1>2, <2>3, TypedAgain DEF ReceiverTypeOK
<1> QED BY <1>4, <1>5

LEMMA TimeTyped == ASSUME ReceiverTypeOK, TenSeconds PROVE ReceiverTypeOK'
<1>1. rx' \in Pipelines
  <2> DEFINE aged == ~rx.ready
  <2>1. aged \in BOOLEAN /\ rx' = [rx EXCEPT !.aged = aged]
    BY DEF TenSeconds
  <2> HIDE DEF aged
  <2> QED BY <2>1 DEF ReceiverTypeOK, Pipelines
<1>2. gate' \in Gates(world) \cup {None}
  <2>1. gate # None => [gate EXCEPT !.aged = TRUE] \in Gates(world)
    BY DEF ReceiverTypeOK, Gates
  <2> QED BY <2>1 DEF TenSeconds
<1> QED BY <1>1, <1>2, TypedAgain DEF TenSeconds, ReceiverTypeOK, Sectioned, Kinds

LEMMA NextTyped == ReceiverTypeOK /\ [ReceiverNext]_vars => ReceiverTypeOK'
<1> SUFFICES ASSUME ReceiverTypeOK, [ReceiverNext]_vars PROVE ReceiverTypeOK'
  OBVIOUS
<1>1. CASE UNCHANGED vars
  BY <1>1, TypedAgain DEF vars, ReceiverTypeOK, Sectioned, Kinds
<1>2. CASE ServiceNotFound
  BY <1>2, EndTyped DEF ServiceNotFound
<1> QED
  BY <1>1, <1>2, TryTyped, FollowTyped, FeedTyped, DeadlineTyped, OtherTyped, BackTyped, WrongTyped,
     LostTyped, RetuneLostTyped, DueTyped, PlugTyped, LateTyped, HoldTyped, PartnersTyped,
     TimeTyped DEF ReceiverNext, Works

\* Type correctness: what the receiver keeps of a multiplex, in its pipeline, its
\* gate and the bridge, is of one that is on the air (follow_select, Gate).
THEOREM ReceiverTypeCorrect == ReceiverSpec => []ReceiverTypeOK
  BY InitTyped, NextTyped, PTL DEF ReceiverSpec

----------------------------------------------------------------------------
(* The bridge's tail is held back.                                            *)

\* What the bridge holds is of one multiplex.
OfOne == \A i, j \in DOMAIN tail : tail[i][1] = tail[j][1]

\* A gate in front of it is not past the stop's clock, where it knows one and the
\* stop was not a brief one ...
ClockAsked ==
    gate # None =>
        /\ gate.left # None => gate.clock = None
        /\ tail # <<>> /\ gate.fresh => gate.clock = None \/ gate.brief

\* ... and has not had it confirmed, where it is the one left and can be told.
Unconfirmed ==
    gate # None /\ tail # <<>> /\ gate.left # None /\ Tells(gate) /\ Head(tail)[1] = gate.left.mux
        => gate.confirmed = None /\ (~Told(gate) => gate.pending = None)

TailInv == OfOne /\ ClockAsked /\ Unconfirmed

\* What a step does to the gate, but for a section's: the stream stops, or what is
\* in front of it stays, or the gate grows older, or one is closed anew.
Stops ==
    /\ gate' = None /\ ~rx'.running
    /\ tail' \in LeftInTheBridge \cup {<<>>}
Stays == gate' = gate /\ tail' = tail
Ages  == tail' = tail /\ gate # None /\ gate' = [gate EXCEPT !.aged = TRUE]
Closes ==
    /\ tail' = tail
    /\ \E r \in Pipelines, brief \in BOOLEAN : gate' = NewGate(r, r.relock, brief)

LEMMA NotRunning ==
    ASSUME ReceiverTypeOK, NEW r \in Pipelines, NEW next, NEW s, Stopped(r, next, s)
    PROVE  Stops
  BY ClockedTyped DEF Stopped, Stops

LEMMA NotRunningAtTheEnd ==
    ASSUME ReceiverTypeOK, NEW why, Ends(why)
    PROVE  Stops
  BY ClockedTyped DEF Ends, Stops, LeftInTheBridge, ReceiverTypeOK

LEMMA TryGates == ASSUME ReceiverTypeOK, TryOffset PROVE Stays \/ Closes
<1>1. tail' = tail
  BY DEF TryOffset
<1>2. \/ gate' = gate
      \/ \E locked, superseded \in BOOLEAN : EnterStream(locked, superseded)
  <2>1. Superseded \in BOOLEAN
    BY DEF Superseded
  <2> QED BY <2>1 DEF TryOffset
<1>3. tuner'.at \in Spots
  <2>1. PICK o \in tuner.todo : tuner'.at = o
    BY DEF TryOffset, ReceiverTypeOK, Tuners
  <2> QED BY <2>1 DEF ReceiverTypeOK, Tuners
<1>4. ASSUME NEW locked \in BOOLEAN, NEW superseded \in BOOLEAN, EnterStream(locked, superseded)
      PROVE  \/ gate' = gate
             \/ \E r \in Pipelines, brief \in BOOLEAN : gate' = NewGate(r, r.relock, brief)
  BY <1>3, <1>4, EnterTyped
<1> QED BY <1>1, <1>2, <1>4 DEF Stays, Closes

LEMMA FollowGates == ASSUME ReceiverTypeOK, FollowSelect PROVE Stops \/ Stays \/ Closes
<1>1. ask.n \in Nat /\ (ask.want # Standby => ask.want \in Channels) /\ rx \in Pipelines
  BY DEF ReceiverTypeOK
<1>2. CASE ask.want = Standby
  <2> DEFINE r == [rx EXCEPT !.seen = ask.n]
  <2>1. r \in Pipelines /\ Stopped(r, tuner, Standby)
    BY <1>1, <1>2 DEF FollowSelect, StandsBy, Pipelines
  <2> HIDE DEF r
  <2> QED BY <2>1, NotRunning
<1>3. CASE ask.want # Standby
  <2> DEFINE c == ask.want
             r == [Selected(rx, c) EXCEPT !.seen = ask.n]
  <2>1. r \in Pipelines
    BY <1>1, <1>3, SelectedTyped
  <2>2. \/ Stopped(r, Search(r.tuned), "Tuning")
        \/ gate' = gate /\ tail' = tail
        \/ Quarantined(r) /\ tail' = tail
    BY <1>3 DEF FollowSelect, Select
  <2> HIDE DEF r
  <2> QED BY <2>1, <2>2, NotRunning DEF Quarantined, Stays, Closes
<1> QED BY <1>2, <1>3

LEMMA GateSteps ==
    ASSUME ReceiverTypeOK, [ReceiverNext]_vars
    PROVE  world' = world /\ (Stops \/ Stays \/ Ages \/ Closes \/ Feed)
<1>1. world' = world
  BY DEF ReceiverNext, Works, TryOffset, FollowSelect, Feed, GateDeadline, OtherStream, SignalBack,
         WrongCarrier, LockLost, RetuneLost, LockBack, ServiceNotFound, Replug, LocksLate,
         NobodyReads, Unplug, GivesUp, CableOut, CableIn, Due, TenSeconds, Write, Ends, Retunes, vars
<1> SUFFICES Stops \/ Stays \/ Ages \/ Closes \/ Feed
  BY <1>1
<1>2. CASE LocksLate \/ LockLost \/ LockBack \/ Replug \/ GivesUp \/ CableOut \/ CableIn \/ Due
           \/ (\E want \in Channels \cup {Standby} : Write(want)) \/ UNCHANGED vars
  BY <1>2 DEF LocksLate, LockLost, LockBack, Replug, GivesUp, CableOut, CableIn, Due, Write, vars, Stays
<1>3. rx \in Pipelines
  BY DEF ReceiverTypeOK
<1>4. CASE GateDeadline \/ ServiceNotFound \/ NobodyReads
  <2>1. [rx EXCEPT !.retunes = 1] \in Pipelines
    BY <1>3, Forgets
  <2>2. \/ \E why : Ends(why)
        \/ \E r \in {rx, [rx EXCEPT !.retunes = 1]} : \E next, s : Stopped(r, next, s)
    BY <1>4 DEF GateDeadline, ServiceNotFound, NobodyReads, Retunes, StandsBy
  <2>3. ASSUME NEW why, Ends(why) PROVE Stops
    BY <2>3, NotRunningAtTheEnd
  <2>4. ASSUME NEW r \in Pipelines, NEW next, NEW s, Stopped(r, next, s) PROVE Stops
    BY <2>4, NotRunning
  <2> QED BY <1>3, <2>1, <2>2, <2>3, <2>4
<1>5. CASE OtherStream \/ SignalBack \/ RetuneLost
  <2>1. /\ [rx EXCEPT !.retunes = 1, !.other = FALSE] \in Pipelines
        /\ [rx EXCEPT !.pat = None, !.net = FALSE] \in Pipelines
        /\ [rx EXCEPT !.due = FALSE, !.pat = None, !.net = FALSE] \in Pipelines
    BY <1>3, Forgets
  <2> QED BY <1>5, <2>1, NotRunning DEF OtherStream, SignalBack, RetuneLost, Retunes, Stays
<1>6. CASE WrongCarrier
  <2> DEFINE next == [rx.tuned EXCEPT !.wrong = @ \cup {rx.unconfirmed}]
             r     == [rx EXCEPT !.unconfirmed = None]
             again == [r EXCEPT !.pat = None, !.net = FALSE, !.tuned = next]
  <2>1. rx.tuned \in TuneParams /\ rx.unconfirmed \in Spots
    BY <1>3, <1>6 DEF WrongCarrier, Pipelines
  <2>2. next \in TuneParams
    BY <2>1 DEF TuneParams
  <2>3. \/ gate' = gate /\ tail' = tail
        \/ Stopped(again, Search(next), "Tuning")
    BY <1>6 DEF WrongCarrier, Retunes
  <2> HIDE DEF next
  <2>4. again \in Pipelines
    BY <1>3, <2>2 DEF Pipelines, Muxes
  <2> HIDE DEF again
  <2>5. CASE Stopped(again, Search(next), "Tuning")
    BY <2>4, <2>5, NotRunning
  <2> QED BY <2>3, <2>5 DEF Stays
<1>7. CASE Unplug
  BY <1>3, <1>7, ClockedTyped DEF Unplug, Stops
<1>8. CASE TenSeconds
  BY <1>8 DEF TenSeconds, Stays, Ages
<1> QED
  BY <1>2, <1>4, <1>5, <1>6, <1>7, <1>8, TryGates, FollowGates DEF ReceiverNext, Works

\* A gate closed anew has confirmed nothing yet.
LEMMA ClosedAnew ==
    ASSUME ReceiverTypeOK, world' = world, OfOne, Closes
    PROVE  TailInv' /\ gate' # None
<1>1. PICK r \in Pipelines, brief \in BOOLEAN : gate' = NewGate(r, r.relock, brief)
  BY DEF Closes
<1>2. r.relock \in Muxes(world)
  BY DEF Pipelines
<1>3. /\ gate' \in Gates(world)
      /\ gate'.left # None \/ gate'.fresh => gate'.clock = None
      /\ gate'.confirmed = None /\ gate'.pending = None
  BY <1>1, <1>2, NewGateTyped
<1>4. gate' # None
  BY <1>3, OfTheWorld
<1>5. OfOne'
  BY DEF OfOne, Closes
<1> QED BY <1>3, <1>4, <1>5 DEF TailInv, ClockAsked, Unconfirmed

\* What a section does to a gate it does not open.
LEMMA HeldBack ==
    ASSUME ReceiverTypeOK, TailInv, Feed, gate' # None
    PROVE  ClockAsked' /\ Unconfirmed'
<1>0. PICK clock \in BOOLEAN :
        LET w == Verdict(Heard(gate, clock), Section[1], Section[2])
        IN  gate # None /\ gate' = w.gate
  BY FeedIs
<1> DEFINE g == Heard(gate, clock)
           mux == Section[1]
           v == Verdict(g, mux, Section[2])
<1>1. /\ gate # None /\ gate' = v.gate /\ world' = world
      /\ tail # <<>> \/ Live
      /\ tail' = IF tail = <<>> THEN <<>> ELSE Tail(tail)
  BY <1>0, FeedIs
<1>2. mux \in DOMAIN world.tsid /\ gate \in Gates(world)
  BY <1>1, SectionTyped DEF ReceiverTypeOK
<1>3. /\ g \in Gates(world) /\ g.left = gate.left /\ g.expect = gate.expect /\ g.clock = gate.clock
      /\ g.confirmed = gate.confirmed /\ g.pending = gate.pending /\ g.brief = gate.brief
      /\ g.fresh => gate.fresh \/ Live \/ gate.brief
  BY <1>2, HeardTyped
<1> HIDE DEF g, mux
<1>4. /\ SameRule(v.gate, g)
      /\ Section[2] = "PAT" => v.gate.confirmed = g.confirmed /\ (v.gate.pending = g.pending \/ Told(g))
      /\ Section[2] # "PAT" =>
           /\ v.gate.pending \in {g.pending, None}
           /\ \/ v.gate.confirmed = g.confirmed
              \/ /\ g.pending = world.tsid[mux]
                 /\ ~(g.left # None /\ g.left.told /\ world.onid[g.left.mux] = world.onid[mux])
                 /\ g.expect # None => world.onid[g.expect] = world.onid[mux]
  BY <1>2, <1>3, DecideTyped, NetworkTyped DEF Verdict
<1> HIDE DEF v
<1>5. /\ gate'.left = gate.left /\ gate'.expect = gate.expect /\ gate'.clock = gate.clock
      /\ gate'.brief = gate.brief /\ (gate'.fresh => gate.fresh \/ Live \/ gate.brief)
  BY <1>1, <1>3, <1>4 DEF SameRule
<1>6. tail' # <<>> => tail # <<>> /\ ~Live
  BY <1>1 DEF Live
<1>7. ClockAsked'
  BY <1>1, <1>5, <1>6 DEF TailInv, ClockAsked
<1>8. ASSUME tail' # <<>>, gate'.left # None, Tells(gate'), Head(tail')[1] = gate'.left.mux
      PROVE  gate'.confirmed = None /\ (~Told(gate') => gate'.pending = None)
  <2>1. Head(tail')[1] = Head(tail)[1]
    <3>1. tail \in Seq(Sectioned) /\ tail # <<>> /\ tail' = Tail(tail) /\ Len(tail) > 1
      BY <1>1, <1>6, <1>8 DEF ReceiverTypeOK, Sectioned, Kinds
    <3>2. Head(tail') = tail[2] /\ Head(tail) = tail[1] /\ 1 \in DOMAIN tail /\ 2 \in DOMAIN tail
      BY <3>1
    <3> QED BY <3>2 DEF TailInv, OfOne
  <2>2. mux = gate.left.mux
    BY <1>5, <1>6, <1>8, <2>1, SectionTyped DEF mux
  <2>3. Tells(gate) /\ (Told(gate') <=> Told(gate)) /\ (Told(g) <=> Told(gate))
    BY <1>3, <1>5, <1>8 DEF Tells, Told
  <2>4. gate.confirmed = None /\ (~Told(gate) => gate.pending = None)
    BY <1>1, <1>5, <1>6, <1>8, <2>1, <2>3 DEF TailInv, Unconfirmed
  <2>5. CASE Section[2] = "PAT"
    BY <1>1, <1>3, <1>4, <2>3, <2>4, <2>5
  <2>6. CASE Section[2] # "PAT"
    <3>1. world.tsid[mux] # None
      BY <1>2, OfTheWorld
    <3>2. CASE v.gate.confirmed = g.confirmed
      BY <1>1, <1>3, <1>4, <2>3, <2>4, <2>6, <3>2
    <3>3. CASE /\ g.pending = world.tsid[mux]
               /\ ~(g.left # None /\ g.left.told /\ world.onid[g.left.mux] = world.onid[mux])
               /\ g.expect # None => world.onid[g.expect] = world.onid[mux]
      BY <1>3, <1>5, <1>8, <2>2, <2>3, <2>4, <3>1, <3>3 DEF Tells, Told
    <3> QED BY <1>4, <2>6, <3>2, <3>3
  <2> QED BY <2>5, <2>6
<1>9. Unconfirmed'
  <2>1. world' = world
    BY <1>1
  <2> QED BY <1>8, <2>1 DEF Unconfirmed, Tells, Told
<1> QED BY <1>7, <1>9

LEMMA TailStep ==
    ASSUME ReceiverTypeOK, TailInv, [ReceiverNext]_vars
    PROVE  TailInv'
<1>1. world' = world /\ (Stops \/ Stays \/ Ages \/ Closes \/ Feed)
  BY GateSteps
<1>6. CASE Ages
  <2>1. /\ gate'.left = gate.left /\ gate'.clock = gate.clock /\ gate'.fresh = gate.fresh
        /\ gate'.brief = gate.brief /\ gate'.expect = gate.expect
        /\ gate'.confirmed = gate.confirmed /\ gate'.pending = gate.pending
    BY <1>6 DEF Ages, ReceiverTypeOK, Gates
  <2> QED BY <1>1, <1>6, <2>1 DEF Ages, TailInv, OfOne, ClockAsked, Unconfirmed, Tells, Told
<1>2. CASE Stops
  <2>1. OfOne'
    <3>1. CASE tail' = <<>>
      BY <3>1 DEF OfOne
    <3>2. CASE tail' \in LeftInTheBridge
      BY <3>2, LeftTyped DEF OfOne, TailInv
    <3> QED BY <1>2, <3>1, <3>2 DEF Stops
  <2> QED BY <1>2, <2>1 DEF Stops, TailInv, ClockAsked, Unconfirmed
<1>3. CASE Stays
  BY <1>1, <1>3 DEF Stays, TailInv, OfOne, ClockAsked, Unconfirmed, Tells, Told
<1>4. CASE Closes
  BY <1>1, <1>4, ClosedAnew DEF TailInv
<1>5. CASE Feed
  <2>1. OfOne'
    <3>1. CASE tail = <<>>
      BY <1>5, <3>1, FeedIs DEF OfOne
    <3>2. CASE tail # <<>>
      <4>1. tail \in Seq(Sectioned) /\ tail' = Tail(tail)
        BY <1>5, <3>2, FeedIs DEF ReceiverTypeOK, Sectioned, Kinds
      <4>2. \A i \in DOMAIN tail' : tail'[i] = tail[i + 1] /\ i + 1 \in DOMAIN tail
        BY <3>2, <4>1
      <4> QED BY <4>2 DEF OfOne, TailInv
    <3> QED BY <3>1, <3>2
  <2>2. CASE gate' = None
    BY <2>1, <2>2 DEF TailInv, ClockAsked, Unconfirmed
  <2>3. CASE gate' # None
    BY <1>5, <2>1, <2>3, HeldBack DEF TailInv
  <2> QED BY <2>2, <2>3
<1> QED BY <1>1, <1>2, <1>3, <1>4, <1>5, <1>6

\* Only a section ends a quarantine with the stream running on.
LEMMA AdmissionIs ==
    ASSUME ReceiverTypeOK, [ReceiverNext]_vars, Admission
    PROVE  /\ Feed
           /\ \E clock \in BOOLEAN :
                Verdict(Heard(gate, clock), Section[1], Section[2]).is = "Admitted"
           /\ rx' = Passed([rx EXCEPT !.retunes = 0, !.left = None, !.net = FALSE], Section[1], "PAT")
<1>1. Feed
  <2>1. ~Stops /\ ~Stays
    BY DEF Admission, Stops, Stays
  <2>2. ~Closes
    <3> SUFFICES ASSUME NEW r \in Pipelines, NEW brief \in BOOLEAN,
                        gate' = NewGate(r, r.relock, brief)
                 PROVE  FALSE
      BY DEF Closes
    <3>1. NewGate(r, r.relock, brief) \in Gates(world)
      BY NewGateTyped DEF Pipelines
    <3> QED BY <3>1, OfTheWorld DEF Admission
  <2>3. ~Ages
    <3> SUFFICES ASSUME Ages PROVE FALSE
      OBVIOUS
    <3>1. gate' \in Gates(world)
      BY DEF Ages, ReceiverTypeOK, Gates
    <3> QED BY <3>1, OfTheWorld DEF Admission
  <2> QED BY <2>1, <2>2, <2>3, GateSteps
<1>2. gate \in Gates(world) /\ Section[1] \in DOMAIN world.tsid
  BY <1>1, FeedIs, SectionTyped DEF ReceiverTypeOK, Admission
<1>3. PICK clock \in BOOLEAN :
        LET w == Verdict(Heard(gate, clock), Section[1], Section[2])
        IN  \/ w.is = "Waiting" /\ gate' = w.gate /\ rx' = rx
            \/ w.is = "Other" /\ gate' = w.gate /\ rx' = [rx EXCEPT !.other = TRUE]
            \/ /\ w.is = "Admitted" /\ gate' = None
               /\ rx' = Passed([rx EXCEPT !.retunes = 0, !.left = None, !.net = FALSE],
                               Section[1], "PAT")
  BY <1>1, FeedIs DEF Admission
<1> DEFINE v == Verdict(Heard(gate, clock), Section[1], Section[2])
<1>4. v.gate # None
  <2>1. Heard(gate, clock) \in Gates(world)
    BY <1>2, HeardTyped
  <2> QED BY <1>2, <2>1, DecideTyped, NetworkTyped, OfTheWorld DEF Verdict
<1>5. /\ v.is = "Admitted"
      /\ rx' = Passed([rx EXCEPT !.retunes = 0, !.left = None, !.net = FALSE], Section[1], "PAT")
  <2> HIDE DEF v
  <2> QED BY <1>3, <1>4 DEF Admission, v
<1> QED BY <1>1, <1>5

LEMMA TailHeldStep ==
    ASSUME ReceiverTypeOK, TailInv, [ReceiverNext]_vars, Admission, tail # <<>>
    PROVE  /\ gate.clock = None \/ gate.brief
           /\ Recognised(gate) => Head(tail)[1] # gate.left.mux
<1>0. PICK clock \in BOOLEAN :
        Verdict(Heard(gate, clock), Section[1], Section[2]).is = "Admitted"
  BY AdmissionIs
<1> DEFINE g == Heard(gate, clock)
           mux == Head(tail)[1]
<1>1. gate # None /\ Feed /\ ~Live /\ Section[1] = mux /\ mux \in DOMAIN world.tsid
  BY AdmissionIs, SectionTyped DEF Admission, Live
<1>2. gate \in Gates(world)
  BY <1>1 DEF ReceiverTypeOK
<1>3. /\ g \in Gates(world) /\ g.left = gate.left /\ g.confirmed = gate.confirmed
      /\ g.fresh => gate.fresh \/ gate.brief
  BY <1>1, <1>2, HeardTyped
<1> HIDE DEF g
<1>4. Verdict(g, mux, Section[2]).is = "Admitted"
  BY <1>0, <1>1 DEF g
<1> HIDE DEF mux
<1>5. g.fresh /\ (Alike(g, mux) => g.confirmed = world.tsid[mux])
  BY <1>1, <1>3, <1>4, DecideTyped, NetworkTyped DEF Verdict
<1>6. gate.clock = None \/ gate.brief
  BY <1>1, <1>3, <1>5 DEF TailInv, ClockAsked
<1>7. ASSUME Recognised(gate), mux = gate.left.mux PROVE FALSE
  <2>1. LikeLeft(g, mux)
    BY <1>3, <1>7 DEF Recognised, LikeLeft, SameTsid
  <2>2. gate.confirmed = None
    BY <1>1, <1>7 DEF TailInv, Unconfirmed, Recognised, Tells, mux
  <2> QED BY <1>1, <1>3, <1>5, <2>1, <2>2, OfTheWorld DEF Alike
<1> QED BY <1>6, <1>7 DEF mux

\* What the bridge still holds of the transport stream left is let in neither past
\* the clock noted at its stop, unless the stop was a brief one, nor where its
\* multiplex is known (Gate::decide, Gate::network).
THEOREM TailHeld == ReceiverSpec => TailHeldBack
<1>1. ReceiverInit => TailInv
  BY DEF ReceiverInit, TailInv, OfOne, ClockAsked, Unconfirmed
<1>2. ReceiverTypeOK /\ TailInv /\ [ReceiverNext]_vars => TailInv'
  BY TailStep
<1>3. ReceiverTypeOK /\ TailInv /\ [ReceiverNext]_vars
        => [Admission /\ tail # <<>>
              => /\ gate.clock = None \/ gate.brief
                 /\ Recognised(gate) => Head(tail)[1] # gate.left.mux]_vars
  BY TailHeldStep
<1> QED BY <1>1, <1>2, <1>3, ReceiverTypeCorrect, PTL DEF ReceiverSpec, TailHeldBack

----------------------------------------------------------------------------
(* A signal lost and found is not a service missing.                          *)

\* The channel the receiver is started for is on its carrier: its multiplex has its
\* service, and no other is found where it is searched for.
InPlace ==
    /\ First.service \in world.programmes[Home(First)]
    /\ \A o \in Spots : world.carrier[First.tp][o] \in {Home(First), None}

\* Nobody asked for another channel, nor was the receiver unplugged.
Undisturbed == ask.n = 0 /\ spent.unplugs = 0

\* All the receiver then knows is its channel's multiplex; the first PAT heard is let
\* in once a clock has been heard, by the second section on the air at the latest.
FirstRx(r) ==
    /\ r.channel = First /\ r.tuned = Fresh(First.tp) /\ r.seen = 0 /\ r.left = None
    /\ {r.relock, r.clock, r.pat, r.selected} \subseteq {Home(First), None}
    /\ r.pat # None \/ r.ready => r.selected # None
    /\ ~r.other
FirstRule(g) ==
    /\ g.left = None /\ {g.want, g.expect} \subseteq {Home(First), None}
    /\ g.service = First.service /\ g.pending = None
FirstGate(g) == FirstRule(g) /\ g.heard \in 0..2 /\ (g.heard = 2 => g.fresh)
FirstTail == \A i \in DOMAIN tail : tail[i][1] = Home(First)

\* A gate's time is up only while the signal is lost.  Back by itself in the stream
\* it was lost in, the signal is said to be back before the gate opens only where
\* nothing was found before the loss: what was, is waited for.
InTime ==
    /\ tuner.pc # "Unplugged"
    /\ tuner.pc = "Search" => rx.pat = None /\ gate = None
    /\ tuner.pc = "Stream" /\ air.lock # None => tuner.acquiring
    /\ gate # None =>
         /\ rx.running /\ rx.pat = None
         /\ state = "NoSignal" /\ rx.relock = None /\ tuner.acquiring => rx.selected = None
         /\ state # "NoSignal" /\ gate.aged => rx.selected = None
    /\ end # None => tuner.pc = "Stream" /\ ~rx.ready

FirstOnly ==
    /\ FirstRx(rx) /\ FirstTail /\ (gate # None => FirstGate(gate))
    /\ air.lock \in {Home(First), None} /\ tuner.tp = First.tp
    /\ InTime
FirstInv == InPlace /\ Undisturbed => FirstOnly

LEMMA FirstHome ==
    ASSUME ReceiverTypeOK
    PROVE  Home(First) \in DOMAIN world.tsid
  BY OfTheWorld DEF Home

\* What is locked where the tuner searches for it.
LEMMA FirstLocked ==
    ASSUME ReceiverTypeOK, InPlace, FirstOnly, NEW o \in Spots
    PROVE  world.carrier[tuner.tp][o] \in {Home(First), None}
  BY DEF InPlace, FirstOnly

LEMMA FirstNewGate ==
    ASSUME ReceiverTypeOK, NEW r \in Pipelines, FirstRx(r), NEW brief \in BOOLEAN
    PROVE  FirstGate(NewGate(r, r.relock, brief)) /\ ~NewGate(r, r.relock, brief).aged
<1>1. r.relock \in Muxes(world)
  BY DEF Pipelines
<1>2. Expect(First) \in {Home(First), None}
  BY DEF Expect
<1> QED BY <1>1, <1>2, NewGateTyped DEF FirstRx, FirstGate, FirstRule

\* A stopped pipeline knows what it knew.
LEMMA FirstClocked ==
    ASSUME NEW r \in Pipelines, FirstRx(r)
    PROVE  /\ FirstRx(Clocked(r)) /\ Clocked(r).pat = r.pat /\ Clocked(r).ready = r.ready
<1>1. /\ Clocked(r).channel = r.channel /\ Clocked(r).tuned = r.tuned /\ Clocked(r).seen = r.seen
      /\ Clocked(r).left = r.left /\ Clocked(r).relock = r.relock /\ Clocked(r).pat = r.pat
      /\ Clocked(r).selected = r.selected /\ Clocked(r).ready = r.ready /\ Clocked(r).other = r.other
  BY DEF Clocked, Pipelines
<1>2. Clocked(r).clock \in {r.selected, None}
  BY ClockedTyped
<1> HIDE DEF Clocked
<1> QED BY <1>1, <1>2 DEF FirstRx

LEMMA FirstStopped ==
    ASSUME ReceiverTypeOK, FirstOnly, NEW r \in Pipelines, FirstRx(r), NEW next, next.tp = First.tp,
           next.pc = "Search" => r.pat = None, next.pc # "Unplugged",
           next.pc = "Stream" => next = tuner,
           NEW s, Stopped(r, next, s), world' = world, air' = air, end' = end, end = None
    PROVE  FirstOnly'
<1>1. FirstTail'
  BY LeftTyped DEF FirstTail, FirstOnly, Stopped, Home
<1>2. rx' = Clocked(r) /\ gate' = None /\ tuner' = next
  BY DEF Stopped
<1>3. FirstRx(rx)' /\ rx'.pat = r.pat
  BY <1>2, FirstClocked DEF FirstRx, Home
<1>4. InTime'
  BY <1>2, <1>3 DEF InTime, FirstOnly
<1> QED BY <1>1, <1>2, <1>3, <1>4 DEF FirstOnly, Home

LEMMA FirstTry ==
    ASSUME ReceiverTypeOK, InPlace, Undisturbed, FirstOnly, TryOffset
    PROVE  FirstOnly'
<1>1. PICK o \in tuner.todo :
        LET mux  == IF air.signal THEN world.carrier[tuner.tp][o] ELSE None
            got  == mux # None /\ ~Superseded
            done == got \/ Superseded \/ tuner.todo = {o}
        IN  /\ air' = [air EXCEPT !.lock = IF got THEN mux ELSE None]
            /\ tuner' = [tuner EXCEPT !.at = o, !.todo = IF done THEN {} ELSE @ \ {o},
                                      !.pc = IF done THEN "Stream" ELSE @,
                                      !.lockedAt = IF got /\ ~tuner.relock THEN o ELSE @,
                                      !.acquiring = got \/ Superseded]
            /\ IF done THEN EnterStream(got, Superseded) ELSE UNCHANGED <<rx, gate, state>>
  BY DEF TryOffset
<1> DEFINE mux  == IF air.signal THEN world.carrier[tuner.tp][o] ELSE None
           got  == mux # None /\ ~Superseded
           done == got \/ Superseded \/ tuner.todo = {o}
<1>2. o \in Spots
  BY DEF ReceiverTypeOK, Tuners
<1>3. mux \in {Home(First), None}
  BY <1>2, FirstLocked
<1>4. /\ air'.lock \in {Home(First), None} /\ tuner'.tp = First.tp /\ tuner'.at = o
      /\ tuner'.pc = (IF done THEN "Stream" ELSE "Search") /\ tuner'.acquiring = (got \/ Superseded)
      /\ air'.lock # None => got
  <2>1. air'.lock = IF got THEN mux ELSE None
    BY <1>1 DEF ReceiverTypeOK
  <2>2. /\ tuner'.tp = tuner.tp /\ tuner'.at = o /\ tuner'.acquiring = (got \/ Superseded)
        /\ tuner'.pc = (IF done THEN "Stream" ELSE "Search")
    <3> tuner.pc = "Search"
      BY DEF TryOffset
    <3> QED BY <1>1 DEF ReceiverTypeOK, Tuners
  <2> QED BY <1>3, <2>1, <2>2 DEF FirstOnly
<1>5. UNCHANGED <<world, tail, end>>
  BY DEF TryOffset
<1>6. IF done THEN EnterStream(got, Superseded) ELSE UNCHANGED <<rx, gate, state>>
  BY <1>1
<1>7. got \in BOOLEAN /\ ~Superseded /\ got \in BOOLEAN
  BY DEF Superseded, Undisturbed, FirstOnly, FirstRx
<1>9. rx.pat = None /\ gate = None /\ end = None
  BY DEF TryOffset, FirstOnly, InTime
<1> HIDE DEF got, done
<1>8. FirstRx(rx') /\ (gate' # None => FirstGate(gate')) /\ InTime'
  <2>1. CASE ~done
    <3>1. UNCHANGED <<rx, gate, state>>
      BY <1>6, <2>1
    <3> QED BY <1>4, <1>5, <1>9, <2>1, <3>1 DEF FirstOnly, InTime
  <2>2. CASE done
    <3> DEFINE said == IF tuner.relock THEN 0 ELSE tuner'.at
               lostIt == ~got /\ ~Superseded /\ state # "NoSignal"
               backAgain == got /\ state = "NoSignal" /\ rx.relock = None
               r == [rx EXCEPT !.unconfirmed = IF got THEN said ELSE None,
                               !.relock = IF lostIt THEN None ELSE @,
                               !.due = IF lostIt THEN FALSE ELSE IF backAgain THEN TRUE ELSE @,
                               !.aged = FALSE]
    <3>1. \/ rx' = [r EXCEPT !.standbyFirst = FALSE] /\ gate' = gate
          \/ /\ Quarantined(r)
             /\ state' = IF lostIt \/ (state = "NoSignal" /\ ~backAgain) THEN "NoSignal" ELSE "Streaming"
      BY <1>6, <2>2 DEF EnterStream
    <3>7. /\ lostIt => ~got
          /\ got /\ state = "NoSignal" /\ rx.relock = None => backAgain
      OBVIOUS
    <3>2. said \in Spots /\ lostIt \in BOOLEAN /\ backAgain \in BOOLEAN
      BY <1>2, <1>4, <1>7, NominalIsASpot
    <3> HIDE DEF said, lostIt, backAgain
    <3>3. /\ r \in Pipelines /\ FirstRx(r) /\ r.pat = None
          /\ r.relock = IF lostIt THEN None ELSE rx.relock
      <4> DEFINE found == IF got THEN said ELSE None
                 relock == IF lostIt THEN None ELSE rx.relock
                 due == IF lostIt THEN FALSE ELSE IF backAgain THEN TRUE ELSE rx.due
      <4>1. rx \in Pipelines /\ FirstRx(rx)
        BY DEF ReceiverTypeOK, FirstOnly
      <4>2. found \in Spots \cup {None} /\ relock \in Muxes(world) /\ due \in BOOLEAN
            /\ relock \in {Home(First), None}
        BY <3>2, <4>1 DEF Pipelines, Muxes, FirstRx
      <4>3. r = [rx EXCEPT !.unconfirmed = found, !.relock = relock, !.due = due, !.aged = FALSE]
        BY <4>1 DEF Pipelines
      <4>6. relock = IF lostIt THEN None ELSE rx.relock
        OBVIOUS
      <4> HIDE DEF found, relock, due, r
      <4>4. r \in Pipelines
        BY <4>1, <4>2, <4>3 DEF Pipelines
      <4>5. /\ r.channel = rx.channel /\ r.tuned = rx.tuned /\ r.seen = rx.seen /\ r.left = rx.left
            /\ r.relock = relock /\ r.clock = rx.clock /\ r.pat = rx.pat
            /\ r.selected = rx.selected /\ r.other = rx.other /\ r.ready = rx.ready
        BY <4>1, <4>3 DEF Pipelines
      <4> QED BY <1>9, <4>1, <4>2, <4>4, <4>5, <4>6 DEF FirstRx
    <3> HIDE DEF r
    <3>4. CASE rx' = [r EXCEPT !.standbyFirst = FALSE] /\ gate' = gate
      <4>1. FirstRx(rx') /\ rx'.ready = r.ready
        BY <3>3, <3>4 DEF FirstRx, Pipelines
      <4>2. gate' = None /\ end' = None /\ tuner'.pc = "Stream"
        BY <1>4, <1>5, <1>9, <2>2, <3>4
      <4> QED BY <1>4, <4>1, <4>2 DEF InTime
    <3>5. CASE /\ Quarantined(r)
               /\ state' = IF lostIt \/ (state = "NoSignal" /\ ~backAgain) THEN "NoSignal" ELSE "Streaming"
      <4>1. PICK brief \in BOOLEAN : gate' = NewGate(r, r.relock, brief)
        BY <3>5 DEF Quarantined
      <4>2. FirstGate(gate') /\ ~gate'.aged
        BY <3>3, <4>1, FirstNewGate
      <4>3. rx' = [r EXCEPT !.running = TRUE, !.other = FALSE, !.clock = None]
        BY <3>3, <3>5 DEF Quarantined, FirstRx
      <4>4. FirstRx(rx') /\ rx'.running /\ rx'.pat = None /\ rx'.relock = r.relock
        BY <3>3, <4>3 DEF FirstRx, Pipelines
      <4>5. state' = "NoSignal" /\ rx'.relock = None => ~got
        BY <3>2, <3>3, <3>5, <3>7, <4>4
      <4>6. InTime'
        BY <1>4, <1>5, <1>7, <1>9, <2>2, <4>2, <4>4, <4>5 DEF InTime
      <4> QED BY <4>2, <4>4, <4>6
    <3> QED BY <3>1, <3>4, <3>5
  <2> QED BY <2>1, <2>2
<1> QED BY <1>4, <1>5, <1>8 DEF FirstOnly, FirstRx, FirstGate, FirstRule, FirstTail, Home

\* Once a clock has been heard a PAT is let in, the bridge's too: it is the channel's.
LEMMA FirstDecided ==
    ASSUME ReceiverTypeOK, InPlace, NEW g \in Gates(world), FirstRule(g)
    PROVE  LET v == Decide(g, Home(First))
           IN  /\ g.fresh => v.is = "Admitted"
               /\ ~g.fresh => v.is = "Waiting" /\ FirstRule(v.gate) /\ SameRule(v.gate, g)
<1>1. CASE ~g.fresh
  <2> DEFINE k == Counts(g, "stale")
             e == [k EXCEPT !.repeated = None]
  <2>1. Decide(g, Home(First)) = [gate |-> e, is |-> "Waiting"]
    BY <1>1 DEF Decide, Waiting
  <2>2. k \in Gates(world) /\ SameRule(k, g) /\ k.pending = None
    BY CountsTyped DEF FirstRule
  <2> HIDE DEF k
  <2>3. SameRule(e, k) /\ e.pending = None
    BY <2>2 DEF Gates, SameRule
  <2> HIDE DEF e
  <2> QED BY <1>1, <2>1, <2>2, <2>3 DEF SameRule, FirstRule
<1>2. CASE g.fresh
  <2>1. ~Alike(g, Home(First))
    BY DEF FirstRule, Alike, LikeLeft, Twin, SameTsid
  <2>2. Unlike(g, Home(First)) = Admits(g)
    BY DEF Unlike, FirstRule, InPlace
  <2> QED BY <1>2, <2>1, <2>2 DEF Decide, Admits
<1> QED BY <1>1, <1>2

LEMMA FirstFeed ==
    ASSUME ReceiverTypeOK, InPlace, Undisturbed, FirstOnly, Feed
    PROVE  FirstOnly'
<1> DEFINE mux == Section[1]
           kind == Section[2]
<1>1. /\ tail # <<>> \/ Live
      /\ tail' = IF tail = <<>> THEN <<>> ELSE Tail(tail)
      /\ UNCHANGED <<world, ask, tuner, air, state, end, spent>>
      /\ rx.running /\ tuner.pc = "Stream" /\ end = None
  BY FeedIs DEF Feed, InStream
<1>2. mux = Home(First) /\ (tail # <<>> => tail \in Seq(Sectioned))
  <2>1. CASE tail # <<>>
    <3>1. tail \in Seq(Sectioned) /\ 1 \in DOMAIN tail /\ Head(tail) = tail[1]
      BY <2>1 DEF ReceiverTypeOK, Sectioned, Kinds
    <3> QED BY <2>1, <3>1, SectionTyped DEF FirstOnly, FirstTail
  <2>2. CASE tail = <<>>
    BY <1>1, <2>2, SectionTyped DEF Live, FirstOnly
  <2> QED BY <2>1, <2>2
<1>3. FirstTail'
  <2>1. CASE tail = <<>>
    BY <1>1, <2>1 DEF FirstTail
  <2>2. CASE tail # <<>>
    <3>1. \A i \in DOMAIN tail' : tail'[i] = tail[i + 1] /\ i + 1 \in DOMAIN tail
      BY <1>1, <1>2, <2>2
    <3> QED BY <1>1, <3>1 DEF FirstTail, FirstOnly, Home
  <2> QED BY <2>1, <2>2
<1>4. rx \in Pipelines /\ FirstRx(rx)
  BY DEF ReceiverTypeOK, FirstOnly
<1>5. ASSUME NEW r \in Pipelines, FirstRx(r), NEW k, rx' = Passed(r, Home(First), k)
      PROVE  FirstRx(rx')
  <2>1. CASE k = "SDT"
    <3>1. rx' = [r EXCEPT !.net = r.net \/ r.pat = Home(First)]
      BY <1>5, <2>1 DEF Passed, Pipelines
    <3> DEFINE net == r.net \/ r.pat = Home(First)
    <3> HIDE DEF net
    <3>2. rx' = [r EXCEPT !.net = net]
      BY <3>1 DEF net
    <3> QED BY <1>5, <3>2 DEF FirstRx, Pipelines
  <2>2. CASE k # "SDT"
    <3> DEFINE ready == r.selected = Home(First)
    <3>1. rx' = [r EXCEPT !.pat = Home(First), !.selected = Home(First), !.ready = ready]
      BY <1>5, <2>2 DEF Passed, FirstRx, InPlace, Pipelines
    <3>2. Home(First) # None
      BY FirstHome, ReceiverAssumption DEF ReceiverTypeOK
    <3> HIDE DEF ready
    <3> QED BY <1>5, <3>1, <3>2 DEF FirstRx, Pipelines
  <2> QED BY <2>1, <2>2
<1> HIDE DEF mux
<1>8. ASSUME gate' = None PROVE InTime'
  BY <1>1, <1>8 DEF FirstOnly, InTime
<1>6. CASE gate = None
  <2>1. gate' = gate /\ \E k : rx' = Passed(rx, mux, k)
    BY <1>6, FeedIs DEF mux
  <2>2. FirstRx(rx')
    BY <1>2, <1>4, <1>5, <2>1
  <2> QED BY <1>1, <1>3, <1>6, <1>8, <2>1, <2>2 DEF FirstOnly, FirstRx, FirstTail, Home
<1>7. CASE gate # None
  <2>0. PICK clock \in BOOLEAN :
          LET w == Verdict(Heard(gate, clock), Section[1], Section[2])
          IN  \/ w.is = "Waiting" /\ gate' = w.gate /\ rx' = rx
              \/ w.is = "Other" /\ gate' = w.gate /\ rx' = [rx EXCEPT !.other = TRUE]
              \/ /\ w.is = "Admitted" /\ gate' = None
                 /\ rx' = Passed([rx EXCEPT !.retunes = 0, !.left = None, !.net = FALSE],
                                 Section[1], "PAT")
    BY <1>7, FeedIs
  <2> DEFINE g == Heard(gate, clock)
             v == Verdict(g, mux, kind)
  <2>1. gate \in Gates(world) /\ FirstRule(gate) /\ gate.heard \in 0..2 /\ (gate.heard = 2 => gate.fresh)
    BY <1>7 DEF ReceiverTypeOK, FirstOnly, FirstGate
  <2>2. /\ g \in Gates(world) /\ FirstRule(g) /\ g.aged = gate.aged
        /\ gate.fresh => g.fresh
        /\ Live => g.heard = gate.heard + 1 /\ (gate.heard > 0 => g.fresh)
        /\ ~Live => g.heard = gate.heard
    <3>1. /\ g \in Gates(world) /\ g.left = gate.left /\ g.want = gate.want /\ g.expect = gate.expect
          /\ g.service = gate.service /\ g.pending = gate.pending /\ g.aged = gate.aged
          /\ g.fresh = (gate.fresh \/ (Live /\ (clock \/ gate.heard > 0)) \/ (gate.brief /\ clock))
          /\ ~Live => g.heard = gate.heard
          /\ Live /\ gate.heard < 3 => g.heard = gate.heard + 1
      BY <2>1, HeardTyped
    <3> HIDE DEF g
    <3>2. gate.heard < 3
      BY <2>1
    <3> QED BY <2>1, <3>1, <3>2 DEF FirstRule
  <2>3. \/ v.is = "Waiting" /\ gate' = v.gate /\ rx' = rx
        \/ v.is = "Other" /\ gate' = v.gate /\ rx' = [rx EXCEPT !.other = TRUE]
        \/ /\ v.is = "Admitted" /\ gate' = None
           /\ rx' = Passed([rx EXCEPT !.retunes = 0, !.left = None, !.net = FALSE], mux, "PAT")
    BY <2>0 DEF mux
  <2>7. Live => kind = IF gate.heard % 2 = 0 THEN "PAT" ELSE "SDT"
    BY <1>7 DEF Section, Live
  <2> HIDE DEF g, kind
  <2>4. v.is = "Admitted" \/ (v.is = "Waiting" /\ FirstGate(v.gate) /\ v.gate.aged = gate.aged)
    <3>2. CASE kind = "PAT"
      <4>1. v = Decide(g, Home(First))
        BY <1>2, <3>2 DEF Verdict
      <4>2. CASE g.fresh
        BY <2>2, <4>1, <4>2, FirstDecided
      <4>3. CASE ~g.fresh
        <5>1. v.is = "Waiting" /\ FirstRule(v.gate) /\ SameRule(v.gate, g)
          BY <2>2, <4>1, <4>3, FirstDecided
        <5>2. g.heard \in 0..1
          BY <2>1, <2>2, <4>3
        <5> HIDE DEF v
        <5> QED BY <2>2, <5>1, <5>2 DEF SameRule, FirstGate
      <4> QED BY <4>2, <4>3
    <3>3. CASE kind # "PAT"
      <4>1. world.tsid[Home(First)] # None
        BY FirstHome, OfTheWorld
      <4>2. v = [gate |-> g, is |-> "Waiting"]
        BY <1>2, <2>2, <3>3, <4>1 DEF Verdict, Network, Waiting, FirstRule
      <4>3. g.heard \in 0..2 /\ (g.heard = 2 => g.fresh)
        <5>1. CASE Live
          <6>1. gate.heard = 1
            BY <2>1, <2>7, <3>3, <5>1
          <6> QED BY <2>2, <5>1, <6>1
        <5>2. CASE ~Live
          BY <2>1, <2>2, <5>2
        <5> QED BY <5>1, <5>2
      <4> QED BY <2>2, <4>2, <4>3 DEF FirstGate
    <3> QED BY <3>2, <3>3
  <2> HIDE DEF v
  <2>5. CASE v.is = "Admitted"
    <3> DEFINE r == [rx EXCEPT !.retunes = 0, !.left = None, !.net = FALSE]
    <3>1. r \in Pipelines /\ FirstRx(r)
      BY <1>4 DEF FirstRx, Pipelines
    <3>2. rx' = Passed(r, Home(First), "PAT") /\ gate' = None
      BY <1>2, <2>3, <2>5
    <3> HIDE DEF r
    <3>3. FirstRx(rx')
      BY <1>5, <3>1, <3>2
    <3> QED BY <1>1, <1>3, <1>8, <3>2, <3>3 DEF FirstOnly, FirstRx, FirstTail, Home
  <2>6. CASE v.is = "Waiting" /\ FirstGate(v.gate) /\ v.gate.aged = gate.aged
    <3>1. gate' = v.gate /\ rx' = rx
      BY <2>3, <2>6
    <3>2. InTime'
      BY <1>1, <1>7, <2>6, <3>1 DEF FirstOnly, InTime
    <3> QED
      BY <1>1, <1>3, <1>4, <2>6, <3>1, <3>2 DEF FirstOnly, FirstRx, FirstGate, FirstRule, FirstTail, Home
  <2> QED BY <2>4, <2>5, <2>6
<1> QED BY <1>6, <1>7

LEMMA FirstStep ==
    ASSUME ReceiverTypeOK, FirstInv, [ReceiverNext]_vars
    PROVE  FirstInv'
<1> SUFFICES ASSUME InPlace, Undisturbed, Undisturbed' PROVE FirstOnly'
  <2>1. world' = world
    BY GateSteps
  <2>2. Undisturbed' => Undisturbed
    <3>1. ask.n \in Nat /\ spent.unplugs \in Nat
      BY ReceiverAssumption DEF ReceiverTypeOK
    <3>2. CASE Unplug \/ \E want \in Channels \cup {Standby} : Write(want)
      BY <3>1, <3>2 DEF Unplug, Write, Undisturbed, ReceiverTypeOK
    <3>3. CASE NobodyReads \/ CableOut
      BY <3>3 DEF NobodyReads, CableOut, Undisturbed, ReceiverTypeOK
    <3>4. CASE UNCHANGED <<ask, spent>>
      BY <3>4 DEF Undisturbed
    <3> QED
      BY <3>2, <3>3, <3>4
         DEF ReceiverNext, Works, TryOffset, FollowSelect, Feed, GateDeadline, OtherStream, SignalBack,
             WrongCarrier, LockLost, RetuneLost, LockBack, ServiceNotFound, Replug, LocksLate,
             GivesUp, CableIn, Due, TenSeconds, Ends, Retunes, vars
  <2> QED BY <2>1, <2>2 DEF FirstInv, InPlace, Home
<1>1. FirstOnly /\ rx \in Pipelines /\ FirstRx(rx)
  BY DEF FirstInv, FirstOnly, ReceiverTypeOK
<1>2. ~Superseded /\ ~FollowSelect /\ ~Unplug /\ ~(\E want \in Channels \cup {Standby} : Write(want))
  <2>1. ask.n \in Nat /\ spent.unplugs \in Nat
    BY ReceiverAssumption DEF ReceiverTypeOK
  <2>2. ~Superseded
    BY <1>1 DEF FirstRx, Superseded, Undisturbed
  <2> QED BY <2>1, <2>2 DEF FollowSelect, Unplug, Write, Undisturbed, ReceiverTypeOK
<1>3. Relock(rx.tuned).tp = First.tp /\ Relock(rx.tuned).pc = "Search" /\ InTime
  BY <1>1 DEF Relock, Fresh, FirstRx, FirstOnly, ReceiverTypeOK, Tuners
<1>4. ASSUME NEW r \in Pipelines, FirstRx(r), r.pat = None, NEW s, Retunes(r, Relock(rx.tuned), s), InStream
      PROVE  FirstOnly'
  BY <1>1, <1>3, <1>4, FirstStopped DEF Retunes, InStream
<1>5. ASSUME FirstRx(rx'), UNCHANGED <<world, tuner, air, gate, tail>>, InTime'
      PROVE  FirstOnly'
  BY <1>1, <1>5 DEF FirstOnly, FirstRx, FirstGate, FirstRule, FirstTail, Home
<1>20. ASSUME NEW why, Ends(why), InStream, ~rx.ready
       PROVE  FirstOnly'
  <2>1. /\ rx' = Clocked(rx) /\ gate' = None /\ UNCHANGED <<world, tuner, air, tail>>
    BY <1>20 DEF Ends
  <2>2. FirstRx(rx') /\ rx'.ready = rx.ready
    BY <1>1, <2>1, FirstClocked
  <2>3. InTime'
    BY <1>3, <1>20, <2>1, <2>2 DEF InTime, InStream
  <2> QED BY <1>1, <2>1, <2>2, <2>3 DEF FirstOnly, FirstRx, FirstTail, Home
<1>6. CASE NobodyReads
  <2>1. Stopped(rx, tuner, Standby) /\ UNCHANGED <<world, air, end>> /\ tuner.pc = "Stream" /\ end = None
    BY <1>6 DEF NobodyReads, StandsBy, InStream
  <2> QED BY <1>1, <2>1, FirstStopped DEF FirstOnly
<1>7. CASE GateDeadline
  <2>1. gate # None /\ gate.aged /\ FirstGate(gate) /\ InStream
    BY <1>1, <1>7 DEF GateDeadline, TimeUp, FirstOnly, FirstGate, HeardEnough
  <2>2. CASE Retunes([rx EXCEPT !.retunes = 1], Relock(rx.tuned), state)
    <3>1. [rx EXCEPT !.retunes = 1] \in Pipelines
      BY <1>1, Forgets
    <3>2. FirstRx([rx EXCEPT !.retunes = 1]) /\ [rx EXCEPT !.retunes = 1].pat = None
      BY <1>1, <1>3, <2>1 DEF FirstRx, Pipelines, InTime
    <3> QED BY <1>4, <2>1, <2>2, <3>1, <3>2
  <2>3. CASE Final(gate) /\ Ends(WhyNot(gate))
    <3>1. rx.selected = None
      BY <1>3, <2>1, <2>3 DEF Final, InTime
    <3>2. ~rx.ready
      BY <1>1, <3>1 DEF FirstRx
    <3> QED BY <1>20, <2>1, <2>3, <3>2
  <2> QED BY <1>7, <2>2, <2>3 DEF GateDeadline
<1>8. CASE OtherStream
  BY <1>1, <1>8 DEF OtherStream, FirstRx
<1>9. CASE SignalBack
  <2>1. rx.pat = rx.relock /\ gate = None /\ InStream
    BY <1>1, <1>3, <1>9 DEF SignalBack, FirstRx, InTime
  <2>2. /\ rx' = [rx EXCEPT !.relock = None, !.due = TRUE]
        /\ UNCHANGED <<world, tuner, air, gate, tail, end>>
    BY <1>9, <2>1 DEF SignalBack
  <2>3. FirstRx(rx')
    BY <1>1, <2>2 DEF FirstRx, Pipelines
  <2>4. InTime'
    BY <1>3, <2>1, <2>2 DEF InTime, InStream
  <2> QED BY <1>5, <2>2, <2>3, <2>4
<1>10. CASE WrongCarrier
  <2>1. rx.pat = Home(First) /\ rx.channel = First /\ gate = None /\ InStream
    BY <1>1, <1>3, <1>10 DEF WrongCarrier, FirstRx, InTime
  <2>2. /\ rx' = [rx EXCEPT !.unconfirmed = None]
        /\ UNCHANGED <<world, tuner, air, gate, tail, end>>
    BY <1>10, <2>1 DEF WrongCarrier, InPlace
  <2>3. FirstRx(rx')
    BY <1>1, <2>2 DEF FirstRx, Pipelines
  <2>4. InTime'
    BY <1>3, <2>1, <2>2 DEF InTime, InStream
  <2> QED BY <1>5, <2>2, <2>3, <2>4
<1>11. CASE LockLost
  <2>1. /\ rx' = [rx EXCEPT !.relock = rx.selected, !.due = FALSE, !.pat = None, !.net = FALSE]
        /\ UNCHANGED <<world, tuner, air, gate, tail, end>> /\ state' = "NoSignal"
        /\ tuner.pc = "Stream" /\ end = None
    BY <1>11 DEF LockLost, InStream
  <2>2. FirstRx(rx')
    BY <1>1, <2>1 DEF FirstRx, Pipelines
  <2>3. /\ rx'.relock = rx'.selected /\ rx'.pat = None /\ rx'.running = rx.running
    BY <1>1, <2>1 DEF Pipelines
  <2>4. InTime'
    BY <1>3, <2>1, <2>3 DEF InTime
  <2> QED BY <1>5, <2>1, <2>2, <2>4
<1>12. CASE RetuneLost
  <2> DEFINE r == [rx EXCEPT !.due = FALSE, !.pat = None, !.net = FALSE]
  <2>1. r \in Pipelines
    BY <1>1, Forgets
  <2>2. FirstRx(r) /\ r.pat = None
    BY <1>1 DEF FirstRx, Pipelines
  <2>3. Retunes(r, Relock(rx.tuned), state) /\ InStream
    BY <1>12 DEF RetuneLost
  <2> HIDE DEF r
  <2> QED BY <1>4, <2>1, <2>2, <2>3
<1>13. CASE LockBack \/ Due
  <2>1. /\ rx' = [rx EXCEPT !.due = TRUE] /\ UNCHANGED <<world, tuner, air, gate, tail, end>>
        /\ tuner.pc = "Stream" /\ end = None /\ state = "NoSignal"
    BY <1>13 DEF LockBack, Due, InStream
  <2>2. /\ rx'.relock = rx.relock /\ rx'.selected = rx.selected /\ rx'.pat = rx.pat
        /\ rx'.running = rx.running
    BY <1>1, <2>1 DEF Pipelines
  <2>3. \/ state' = state
        \/ air.lock # None /\ rx.relock = None
    BY <1>13 DEF LockBack, Due
  <2>4. InTime'
    BY <1>3, <2>1, <2>2, <2>3 DEF InTime
  <2>5. FirstRx(rx')
    BY <1>1, <2>1 DEF FirstRx, Pipelines
  <2> QED BY <1>5, <2>1, <2>4, <2>5
<1>14. CASE ServiceNotFound
  BY <1>14, <1>20 DEF ServiceNotFound
<1>15. CASE Replug \/ GivesUp
  BY <1>3, <1>15 DEF Replug, GivesUp, InTime
<1>16. CASE LocksLate
  <2>1. Reachable \in {Home(First), None}
    BY <1>1, FirstLocked DEF Reachable, ReceiverTypeOK, Tuners
  <2>2. air'.lock \in {Home(First), None} /\ tuner.acquiring
    BY <1>16, <2>1 DEF LocksLate, ReceiverTypeOK
  <2>3. InTime'
    BY <1>3, <1>16, <2>2 DEF InTime, LocksLate
  <2> QED
    BY <1>1, <1>16, <2>2, <2>3 DEF LocksLate, FirstOnly, FirstRx, FirstGate, FirstRule, FirstTail, Home
<1>18. CASE CableOut \/ CableIn
  <2>1. air'.lock \in {air.lock, None}
    BY <1>18 DEF CableOut, CableIn, ReceiverTypeOK
  <2>2. UNCHANGED <<world, rx, tuner, gate, tail, state, end>>
    BY <1>18 DEF CableOut, CableIn
  <2>3. InTime'
    BY <1>3, <2>1, <2>2 DEF InTime
  <2> QED
    BY <1>1, <2>1, <2>2, <2>3 DEF FirstOnly, FirstRx, FirstGate, FirstRule, FirstTail, Home
<1>19. CASE UNCHANGED vars
  <2>1. InTime'
    BY <1>3, <1>19 DEF vars, InTime
  <2> QED BY <1>1, <1>5, <1>19, <2>1 DEF vars
<1>21. CASE TenSeconds
  <2>1. /\ UNCHANGED <<world, tuner, air, tail, state, end>> /\ tuner.pc = "Stream" /\ end = None
        /\ gate # None => gate' = [gate EXCEPT !.aged = TRUE]
        /\ gate = None => gate' = None
    BY <1>21 DEF TenSeconds, InStream
  <2>2. /\ rx'.channel = rx.channel /\ rx'.tuned = rx.tuned /\ rx'.seen = rx.seen
        /\ rx'.left = rx.left /\ rx'.relock = rx.relock /\ rx'.clock = rx.clock /\ rx'.pat = rx.pat
        /\ rx'.selected = rx.selected /\ rx'.ready = rx.ready /\ rx'.other = rx.other
        /\ rx'.running = rx.running
    BY <1>1, <1>21 DEF TenSeconds, Pipelines
  <2>3. FirstRx(rx')
    BY <1>1, <2>2 DEF FirstRx
  <2>4. gate # None => FirstGate(gate')
    <3>1. gate # None => gate \in Gates(world) /\ FirstGate(gate)
      BY DEF ReceiverTypeOK, FirstInv, FirstOnly
    <3> QED BY <2>1, <3>1 DEF FirstGate, FirstRule, Gates
  <2>5. gate # None => state = "NoSignal"
    BY <1>3, <1>21 DEF TenSeconds, Waits, InTime
  <2>6. InTime'
    BY <1>3, <2>1, <2>2, <2>5 DEF InTime
  <2> QED
    BY <1>1, <2>1, <2>3, <2>4, <2>6 DEF FirstOnly, FirstRx, FirstGate, FirstRule, FirstTail, Home
<1> QED
  BY <1>1, <1>2, <1>6, <1>7, <1>8, <1>9, <1>10, <1>11, <1>12, <1>13, <1>14, <1>15, <1>16,
     <1>18, <1>19, <1>21, FirstTry, FirstFeed DEF ReceiverNext, Works

\* However often the signal is lost and found, a receiver left to its first channel,
\* on its carrier, and that has found it, is not given up (at_deadline, check_service).
THEOREM LossNoEnd == ReceiverSpec => [](InPlace => LossIsNoEnd)
<1>1. ReceiverInit => FirstInv
  BY DEF ReceiverInit, FirstInv, FirstOnly, FirstRx, FirstTail, InTime, Home
<1>2. ReceiverTypeOK /\ FirstInv /\ [ReceiverNext]_vars => FirstInv'
  BY FirstStep
<1>3. ReceiverTypeOK /\ FirstInv => (InPlace => LossIsNoEnd)
  <2> SUFFICES ASSUME ReceiverTypeOK, FirstInv, InPlace, ask.n = 0, spent.unplugs = 0, end # None
               PROVE  ~rx.ready
    BY DEF LossIsNoEnd, ReceiverTypeOK
  <2> QED BY DEF FirstInv, FirstOnly, InTime, Undisturbed
<1> QED BY <1>1, <1>2, <1>3, ReceiverTypeCorrect, PTL DEF ReceiverSpec

----------------------------------------------------------------------------
(* What is let in is the channel's own.                                       *)

\* What a tuner locks where it is.
Place == world.carrier[tuner.tp][tuner.at]

\* The bridge still holds, from before the stream left, one of the channel's
\* network, and what is tuned is another network's of the same number.
Mixed ==
    /\ gate # None /\ gate.left # None /\ gate.expect # None /\ tail # <<>>
    /\ Place \in DOMAIN world.tsid
    /\ LET old == Head(tail)[1]
       IN  /\ old # gate.left.mux /\ world.tsid[old] = world.tsid[Place]
           /\ world.onid[old] = world.onid[gate.expect]
           /\ world.onid[Place] # world.onid[gate.expect]

\* Nor is another channel of the transponder asked for while its gate is closed.
Distinct ==
    ~Mixed /\ (gate # None /\ gate.left # None => gate.service = rx.channel.service)

\* A gate that knows the stream left is the channel's that is asked for, and
\* nothing of the channel has been seen.
ForTheChannel ==
    /\ rx.channel.tp = rx.tuned.tp
    /\ tuner.pc # "Stream" => ~rx.running
    /\ ~rx.running => gate = None
    /\ rx.running /\ rx.left # None => gate # None
    /\ rx.left # None => rx.relock = None /\ rx.selected = None
    /\ gate # None /\ gate.left # None =>
         gate.want = None /\ gate.expect = Expect(rx.channel)
         /\ rx.relock = None /\ rx.selected = None

OnPlace == tuner.pc = "Stream" /\ air.lock # None => air.lock = Place

\* What an SDT confirmed is, of all that can still come, of the channel's network.
Confirmed ==
    gate # None /\ gate.left # None /\ gate.confirmed # None /\ gate.expect # None /\ Tells(gate) =>
        /\ tail # <<>> /\ world.tsid[Head(tail)[1]] = gate.confirmed
             => world.onid[Head(tail)[1]] = world.onid[gate.expect]
        /\ Place \in DOMAIN world.tsid /\ world.tsid[Place] = gate.confirmed
             => world.onid[Place] = world.onid[gate.expect]

OwnInv == ForTheChannel /\ OnPlace /\ Confirmed

\* A pipeline whose transponder is its channel's, and that has seen nothing of it
\* when it has just left another.
Starts(r) == r.channel.tp = r.tuned.tp /\ (r.left # None => r.relock = None /\ r.selected = None)

\* A stream stops.
LEMMA StopsOwn ==
    ASSUME OwnInv, world' = world, gate' = None, ~rx'.running, Starts(rx'),
           tuner'.pc = "Stream" => UNCHANGED <<tuner, air>>
    PROVE  OwnInv'
  BY DEF OwnInv, ForTheChannel, OnPlace, Confirmed, Starts, Place

LEMMA StoppedOwn ==
    ASSUME ReceiverTypeOK, OwnInv, NEW r \in Pipelines, NEW next, NEW s, Stopped(r, next, s),
           Starts(r), UNCHANGED <<world, air>>, next.pc = "Stream" => next = tuner
    PROVE  OwnInv'
<1>1. /\ rx'.channel = r.channel /\ rx'.tuned = r.tuned /\ rx'.left = r.left
      /\ rx'.relock = r.relock /\ rx'.selected = r.selected /\ ~rx'.running
      /\ gate' = None /\ tuner' = next
  BY DEF Stopped, Clocked, Pipelines
<1> QED BY <1>1, StopsOwn DEF Starts

LEMMA EndsOwn == ASSUME ReceiverTypeOK, OwnInv, NEW why, Ends(why) PROVE OwnInv'
<1>1. /\ rx'.channel = rx.channel /\ rx'.tuned = rx.tuned /\ rx'.left = rx.left
      /\ rx'.relock = rx.relock /\ rx'.selected = rx.selected /\ ~rx'.running
      /\ gate' = None /\ UNCHANGED <<world, tuner, air>>
  BY DEF Ends, Clocked, Pipelines, ReceiverTypeOK
<1>2. Starts(rx')
  BY <1>1 DEF Starts, OwnInv, ForTheChannel
<1> QED BY <1>1, <1>2, StopsOwn

\* A stream starts, behind a gate.
LEMMA QuarantinedOwn ==
    ASSUME ReceiverTypeOK, NEW r \in Pipelines, Quarantined(r), Starts(r), world' = world,
           tuner'.pc = "Stream", OnPlace'
    PROVE  OwnInv'
<1>1. r.relock \in Muxes(world)
  BY DEF Pipelines
<1>2. /\ rx'.channel = r.channel /\ rx'.tuned = r.tuned /\ rx'.left = r.left
      /\ rx'.relock = r.relock /\ rx'.selected = r.selected /\ rx'.running
  BY DEF Quarantined, Pipelines
<1>3. /\ gate' \in Gates(world) /\ gate'.left = r.left /\ gate'.want = r.relock
      /\ gate'.expect = Expect(r.channel) /\ gate'.confirmed = None
  BY <1>1, QuarantineTyped, NewGateTyped
<1>4. gate' # None
  BY <1>3, OfTheWorld
<1>5. Expect(r.channel) = Expect(rx.channel)'
  BY <1>2 DEF Expect, Home
<1>6. ForTheChannel'
  BY <1>2, <1>3, <1>4, <1>5 DEF ForTheChannel, Starts
<1> QED BY <1>3, <1>6 DEF OwnInv, Confirmed

\* Something else is taken note of.
LEMMA NotedOwn ==
    ASSUME OwnInv, UNCHANGED <<world, tuner, gate, tail>>, OnPlace', rx'.running = rx.running,
           rx'.channel.tp = rx.channel.tp, rx'.tuned.tp = rx.tuned.tp, rx'.left \in {rx.left, None},
           rx.left # None \/ (gate # None /\ gate.left # None)
               => rx'.relock = None /\ rx'.selected = None
    PROVE  OwnInv'
<1>1. Expect(rx.channel)' = Expect(rx.channel)
  BY DEF Expect, Home
<1>2. ForTheChannel'
  BY <1>1 DEF OwnInv, ForTheChannel
<1>3. Confirmed'
  BY DEF OwnInv, Confirmed, Place, Tells
<1> QED BY <1>2, <1>3 DEF OwnInv

----------------------------------------------------------------------------
(* The steps.                                                                 *)

LEMMA InitOwn == ReceiverInit => OwnInv
<1> SUFFICES ASSUME ReceiverInit PROVE OwnInv
  OBVIOUS
<1>1. /\ rx.channel = First /\ rx.tuned = Fresh(First.tp) /\ rx.left = None
      /\ rx.relock = None /\ rx.selected = None /\ ~rx.running
  BY DEF ReceiverInit
<1>2. gate = None /\ tuner.pc = "Search"
  BY DEF ReceiverInit
<1> QED BY <1>1, <1>2 DEF OwnInv, ForTheChannel, OnPlace, Confirmed, Fresh

LEMMA EnterOwn ==
    ASSUME ReceiverTypeOK, OwnInv, tuner.pc = "Search", tuner'.pc = "Stream", tuner'.at \in Spots,
           OnPlace', UNCHANGED <<world, tail>>,
           NEW locked \in BOOLEAN, NEW superseded \in BOOLEAN, EnterStream(locked, superseded)
    PROVE  OwnInv'
<1> DEFINE said == IF tuner.relock THEN 0 ELSE tuner'.at
           lostIt == ~locked /\ ~superseded /\ state # "NoSignal"
           backAgain == locked /\ state = "NoSignal" /\ rx.relock = None
           found == IF locked THEN said ELSE None
           relock == IF lostIt THEN None ELSE rx.relock
           due == IF lostIt THEN FALSE ELSE IF backAgain THEN TRUE ELSE rx.due
           r == [rx EXCEPT !.unconfirmed = found, !.relock = relock, !.due = due, !.aged = FALSE]
<1>1. rx \in Pipelines /\ gate = None /\ ~rx.running
  BY DEF ReceiverTypeOK, OwnInv, ForTheChannel
<1>2. found \in Spots \cup {None} /\ relock \in Muxes(world) /\ due \in BOOLEAN
  BY <1>1, NominalIsASpot DEF Pipelines, Muxes
<1>3. \/ rx' = [r EXCEPT !.standbyFirst = FALSE] /\ gate' = gate
      \/ Quarantined(r)
  BY <1>1 DEF EnterStream, Pipelines
<1>4. relock \in {rx.relock, None}
  OBVIOUS
<1> HIDE DEF found, relock, due
<1>5. /\ r \in Pipelines /\ r.channel = rx.channel /\ r.tuned = rx.tuned /\ r.left = rx.left
      /\ r.selected = rx.selected /\ r.relock = relock /\ r.running = rx.running
  BY <1>1, <1>2 DEF Pipelines
<1>6. Starts(r)
  BY <1>4, <1>5 DEF Starts, OwnInv, ForTheChannel
<1> HIDE DEF r
<1>7. CASE rx' = [r EXCEPT !.standbyFirst = FALSE] /\ gate' = gate
  <2>1. /\ rx'.channel = r.channel /\ rx'.tuned = r.tuned /\ rx'.left = r.left
        /\ rx'.relock = r.relock /\ rx'.selected = r.selected /\ rx'.running = r.running
    BY <1>5, <1>7 DEF Pipelines
  <2> QED BY <1>1, <1>5, <1>6, <1>7, <2>1 DEF Starts, OwnInv, ForTheChannel, Confirmed
<1>8. CASE Quarantined(r)
  BY <1>5, <1>6, <1>8, QuarantinedOwn
<1> QED BY <1>3, <1>7, <1>8

LEMMA TryOwn == ASSUME ReceiverTypeOK, OwnInv, TryOffset PROVE OwnInv'
<1>1. PICK o \in tuner.todo :
        LET mux  == IF air.signal THEN world.carrier[tuner.tp][o] ELSE None
            got  == mux # None /\ ~Superseded
            done == got \/ Superseded \/ tuner.todo = {o}
        IN  /\ air' = [air EXCEPT !.lock = IF got THEN mux ELSE None]
            /\ tuner' = [tuner EXCEPT !.at = o, !.todo = IF done THEN {} ELSE @ \ {o},
                                      !.pc = IF done THEN "Stream" ELSE @,
                                      !.lockedAt = IF got /\ ~tuner.relock THEN o ELSE @,
                                      !.acquiring = got \/ Superseded]
            /\ IF done THEN EnterStream(got, Superseded) ELSE UNCHANGED <<rx, gate, state>>
  BY DEF TryOffset
<1> DEFINE mux  == IF air.signal THEN world.carrier[tuner.tp][o] ELSE None
           got  == mux # None /\ ~Superseded
           done == got \/ Superseded \/ tuner.todo = {o}
<1>2. o \in Spots /\ tuner \in Tuners /\ air \in [signal : BOOLEAN, lock : Muxes(world)]
      /\ got \in BOOLEAN /\ done \in BOOLEAN /\ Superseded \in BOOLEAN
  BY DEF ReceiverTypeOK, Tuners, Superseded
<1>3. mux \in {world.carrier[tuner.tp][o], None}
  OBVIOUS
<1>4. UNCHANGED <<world, tail>> /\ tuner.pc = "Search"
  BY DEF TryOffset
<1>5. /\ air' = [air EXCEPT !.lock = IF got THEN mux ELSE None]
      /\ tuner' = [tuner EXCEPT !.at = o, !.todo = IF done THEN {} ELSE @ \ {o},
                                !.pc = IF done THEN "Stream" ELSE @,
                                !.lockedAt = IF got /\ ~tuner.relock THEN o ELSE @,
                                !.acquiring = got \/ Superseded]
      /\ IF done THEN EnterStream(got, Superseded) ELSE UNCHANGED <<rx, gate, state>>
  BY <1>1
<1> HIDE DEF mux, got, done
<1>6. /\ tuner'.at = o /\ tuner'.tp = tuner.tp /\ tuner'.pc = IF done THEN "Stream" ELSE "Search"
      /\ air'.lock \in {mux, None}
  BY <1>2, <1>4, <1>5 DEF Tuners
<1>7. OnPlace'
  BY <1>3, <1>4, <1>6 DEF OnPlace, Place
<1>8. CASE done
  BY <1>2, <1>4, <1>5, <1>6, <1>7, <1>8, EnterOwn
<1>9. CASE ~done
  <2>1. UNCHANGED <<rx, gate>> /\ gate = None
    BY <1>4, <1>5, <1>9 DEF OwnInv, ForTheChannel
  <2> QED BY <1>4, <1>6, <1>7, <2>1 DEF OwnInv, ForTheChannel, Confirmed
<1> QED BY <1>8, <1>9

\* Another channel: what is kept of the one before.
LEMMA SelectedStarts ==
    ASSUME ReceiverTypeOK, OwnInv, NEW c \in Channels, NEW n \in Nat
    PROVE  LET r == [Selected(rx, c) EXCEPT !.seen = n]
           IN  /\ Starts(r) /\ r.channel = c
               /\ c.tp = rx.tuned.tp =>
                    /\ r.tuned = rx.tuned /\ r.left \in {rx.left, None}
                    /\ r.relock \in {rx.relock, None} /\ r.selected \in {rx.selected, None}
<1> DEFINE s == Selected(rx, c)
           r == [s EXCEPT !.seen = n]
<1>1. rx \in Pipelines /\ Starts(rx)
  BY DEF ReceiverTypeOK, Starts, OwnInv, ForTheChannel
<1>2. CASE SameChannel(rx, c)
  <2>1. s = [rx EXCEPT !.channel = c] /\ c.tp = rx.tuned.tp
    BY <1>2 DEF Selected, SameChannel
  <2>2. /\ s.channel = c /\ s.tuned = rx.tuned /\ s.left = rx.left /\ s.relock = rx.relock
        /\ s.selected = rx.selected /\ r.channel = s.channel /\ r.tuned = s.tuned /\ r.left = s.left
        /\ r.relock = s.relock /\ r.selected = s.selected
    BY <1>1, <2>1 DEF Pipelines
  <2> QED BY <1>1, <2>1, <2>2 DEF Starts
<1>3. CASE ~SameChannel(rx, c)
  <2> DEFINE a == RetunedTo(rx, c)
  <2>1. /\ a.tuned.tp = c.tp /\ DOMAIN a = DOMAIN rx
        /\ c.tp = rx.tuned.tp => a.tuned = rx.tuned /\ a.left = None
    <3>1. CASE c.tp = rx.tuned.tp
      BY <1>1, <3>1 DEF RetunedTo, Pipelines
    <3>2. CASE c.tp # rx.tuned.tp
      <4>1. a.tuned = Fresh(c.tp) /\ DOMAIN a = DOMAIN rx
        BY <1>1, <3>2 DEF RetunedTo, Pipelines
      <4> QED BY <3>2, <4>1 DEF Fresh
    <3> QED BY <3>1, <3>2
  <2>2. s = [a EXCEPT !.channel = c, !.relock = None, !.retunes = 0, !.due = TRUE,
                      !.selected = None, !.ready = FALSE, !.aged = FALSE]
    BY <1>3 DEF Selected, Anew
  <2>3. DOMAIN rx = {"channel", "tuned", "seen", "left", "relock", "retunes", "unconfirmed", "clock",
                     "pat", "net", "selected", "ready", "aged", "due", "running", "other", "standbyFirst"}
    BY <1>1 DEF Pipelines
  <2> HIDE DEF a
  <2>4. /\ s.channel = c /\ s.tuned = a.tuned /\ s.left = a.left /\ s.relock = None
        /\ s.selected = None /\ r.channel = s.channel /\ r.tuned = s.tuned /\ r.left = s.left
        /\ r.relock = s.relock /\ r.selected = s.selected
    BY <2>1, <2>2, <2>3
  <2> QED BY <2>1, <2>4 DEF Starts
<1> QED BY <1>2, <1>3

LEMMA FollowOwn == ASSUME ReceiverTypeOK, OwnInv, FollowSelect PROVE OwnInv'
<1>1. /\ ask.n \in Nat /\ (ask.want # Standby => ask.want \in Channels) /\ rx \in Pipelines
      /\ UNCHANGED <<world, air>> /\ tuner.pc = "Stream"
  BY DEF ReceiverTypeOK, FollowSelect, InStream
<1>2. CASE ask.want = Standby
  <2> DEFINE r == [rx EXCEPT !.seen = ask.n]
  <2>1. r \in Pipelines /\ Stopped(r, tuner, Standby)
    BY <1>1, <1>2 DEF FollowSelect, StandsBy, Pipelines
  <2>2. Starts(r)
    BY <1>1 DEF Starts, OwnInv, ForTheChannel, Pipelines
  <2> HIDE DEF r
  <2> QED BY <1>1, <2>1, <2>2, StoppedOwn
<1>3. CASE ask.want # Standby
  <2> DEFINE c == ask.want
             r == [Selected(rx, c) EXCEPT !.seen = ask.n]
  <2>1. r \in Pipelines /\ r.running = rx.running
    BY <1>1, <1>3, SelectedTyped
  <2>2. /\ Starts(r) /\ r.channel = c
        /\ c.tp = rx.tuned.tp =>
             /\ r.tuned = rx.tuned /\ r.left \in {rx.left, None}
             /\ r.relock \in {rx.relock, None} /\ r.selected \in {rx.selected, None}
    BY <1>1, <1>3, SelectedStarts
  <2>3. \/ Stopped(r, Search(r.tuned), "Tuning")
        \/ c.tp = rx.tuned.tp /\ rx' = r /\ UNCHANGED <<gate, tuner, tail>>
        \/ Quarantined(r) /\ UNCHANGED <<tuner, tail>>
    BY <1>3 DEF FollowSelect, Select
  <2> HIDE DEF c, r
  <2>4. CASE Stopped(r, Search(r.tuned), "Tuning")
    <3>1. Search(r.tuned).pc = "Search"
      BY DEF Search, ReceiverTypeOK, Tuners
    <3> QED BY <1>1, <2>1, <2>2, <2>4, <3>1, StoppedOwn
  <2>5. CASE c.tp = rx.tuned.tp /\ rx' = r /\ UNCHANGED <<gate, tuner, tail>>
    <3>1. OnPlace'
      BY <1>1, <2>5 DEF OwnInv, OnPlace, Place
    <3>2. rx'.channel.tp = rx.channel.tp
      BY <2>2, <2>5 DEF OwnInv, ForTheChannel
    <3>3. rx.left # None \/ (gate # None /\ gate.left # None)
            => rx'.relock = None /\ rx'.selected = None
      BY <2>2, <2>5 DEF OwnInv, ForTheChannel
    <3> QED BY <1>1, <2>1, <2>2, <2>5, <3>1, <3>2, <3>3, NotedOwn
  <2>6. CASE Quarantined(r) /\ UNCHANGED <<tuner, tail>>
    <3>1. OnPlace'
      BY <1>1, <2>6 DEF OwnInv, OnPlace, Place
    <3> QED BY <1>1, <2>1, <2>2, <2>6, <3>1, QuarantinedOwn
  <2> QED BY <2>3, <2>4, <2>5, <2>6
<1> QED BY <1>2, <1>3

LEMMA PassedIs ==
    ASSUME NEW r \in Pipelines, NEW mux, NEW kind
    PROVE  LET p == Passed(r, mux, kind)
           IN  /\ p.channel = r.channel /\ p.tuned = r.tuned /\ p.left = r.left
               /\ p.relock = r.relock /\ p.running = r.running
               /\ kind # "SDT" => p.selected = IF r.channel.service \in world.programmes[mux]
                                               THEN mux ELSE r.selected
  BY DEF Passed, Pipelines

\* A section: an SDT of the network asked for confirms what was held for it, and
\* it is not one of the multiplex left that is told apart.
LEMMA FeedConfirms ==
    ASSUME ReceiverTypeOK, TailInv, OwnInv, ~Mixed, Feed, gate # None, gate' # None
    PROVE  Confirmed'
<1>0. PICK clock \in BOOLEAN : gate' = Verdict(Heard(gate, clock), Section[1], Section[2]).gate
  BY FeedIs
<1> DEFINE g == Heard(gate, clock)
           mux == Section[1]
           v == Verdict(g, mux, Section[2])
<1>1. /\ gate' = v.gate /\ UNCHANGED <<world, tuner, air>> /\ (tail # <<>> \/ Live)
      /\ tail' = IF tail = <<>> THEN <<>> ELSE Tail(tail)
  BY <1>0, FeedIs
<1>2. mux \in DOMAIN world.tsid /\ gate \in Gates(world) /\ tuner.pc = "Stream"
  BY <1>1, SectionTyped DEF ReceiverTypeOK, Feed, InStream
<1>3. g \in Gates(world) /\ g.left = gate.left /\ g.expect = gate.expect /\ g.confirmed = gate.confirmed
  BY <1>2, HeardTyped
<1> HIDE DEF g
<1>4. /\ SameRule(v.gate, g)
      /\ \/ v.gate.confirmed = g.confirmed
         \/ /\ ~(g.left # None /\ g.left.told /\ world.onid[g.left.mux] = world.onid[mux])
            /\ g.expect # None => world.onid[g.expect] = world.onid[mux]
            /\ v.gate.confirmed = world.tsid[mux]
  <2> HIDE DEF mux
  <2> QED BY <1>2, <1>3, DecideTyped, NetworkTyped DEF Verdict
<1>5. gate'.left = gate.left /\ gate'.expect = gate.expect
  BY <1>1, <1>3, <1>4 DEF SameRule
<1>6. Place' = Place /\ (Live => mux = Place) /\ (tail # <<>> => mux = Head(tail)[1])
  BY <1>1, <1>2, SectionTyped DEF Place, OwnInv, OnPlace, Live
<1>7. tail' # <<>> => tail # <<>> /\ Head(tail')[1] = Head(tail)[1]
  <2> SUFFICES ASSUME tail' # <<>> PROVE tail # <<>> /\ Head(tail')[1] = Head(tail)[1]
    OBVIOUS
  <2>1. tail \in Seq(Sectioned) /\ tail # <<>> /\ tail' = Tail(tail) /\ Len(tail) > 1
    BY <1>1 DEF ReceiverTypeOK, Sectioned, Kinds
  <2>2. Head(tail') = tail[2] /\ Head(tail) = tail[1] /\ 1 \in DOMAIN tail /\ 2 \in DOMAIN tail
    BY <2>1
  <2> QED BY <2>1, <2>2 DEF TailInv, OfOne
<1> HIDE DEF mux, v
<1> SUFFICES ASSUME gate.left # None, gate'.confirmed # None, gate.expect # None, Tells(gate)
             PROVE  /\ tail' # <<>> /\ world.tsid[Head(tail')[1]] = gate'.confirmed
                         => world.onid[Head(tail')[1]] = world.onid[gate.expect]
                    /\ Place \in DOMAIN world.tsid /\ world.tsid[Place] = gate'.confirmed
                         => world.onid[Place] = world.onid[gate.expect]
  BY <1>1, <1>5, <1>6 DEF Confirmed, Tells
<1>8. CASE gate'.confirmed = gate.confirmed
  BY <1>7, <1>8 DEF OwnInv, Confirmed
<1>9. CASE gate'.confirmed # gate.confirmed
  <2>1. /\ ~(gate.left.told /\ world.onid[gate.left.mux] = world.onid[mux])
        /\ world.onid[gate.expect] = world.onid[mux] /\ gate'.confirmed = world.tsid[mux]
    BY <1>1, <1>3, <1>4, <1>9
  <2>2. mux # gate.left.mux
    BY <2>1 DEF Tells
  <2>3. CASE tail # <<>>
    BY <1>6, <1>7, <2>1, <2>2, <2>3 DEF Mixed
  <2>4. CASE tail = <<>>
    BY <1>1, <1>6, <1>7, <2>1, <2>4
  <2> QED BY <2>3, <2>4
<1> QED BY <1>8, <1>9

LEMMA FeedOwn == ASSUME ReceiverTypeOK, TailInv, OwnInv, ~Mixed, Feed PROVE OwnInv'
<1>1. /\ UNCHANGED <<world, tuner, air>> /\ tuner.pc = "Stream" /\ rx.running /\ rx \in Pipelines
      /\ tail # <<>> \/ Live
  BY FeedIs DEF Feed, InStream, ReceiverTypeOK
<1>2. OnPlace'
  BY <1>1 DEF OwnInv, OnPlace, Place
<1>3. CASE gate = None
  <2>1. PICK kind : rx' = Passed(rx, Section[1], kind) /\ gate' = None
    BY <1>3, FeedIs
  <2> DEFINE p == Passed(rx, Section[1], kind)
  <2>2. p.channel = rx.channel /\ p.tuned = rx.tuned /\ p.left = rx.left /\ p.running = rx.running
    BY <1>1 DEF Passed, Pipelines
  <2>3. rx' = p
    BY <2>1
  <2> HIDE DEF p
  <2> QED BY <1>1, <1>2, <1>3, <2>1, <2>2, <2>3 DEF OwnInv, ForTheChannel, Confirmed
<1>4. CASE gate # None
  <2> DEFINE r == [rx EXCEPT !.retunes = 0, !.left = None, !.net = FALSE]
  <2>0. PICK clock \in BOOLEAN :
          LET w == Verdict(Heard(gate, clock), Section[1], Section[2])
          IN  \/ /\ w.is \in {"Waiting", "Other"} /\ gate' = w.gate
                 /\ rx' \in {rx, [rx EXCEPT !.other = TRUE]}
              \/ gate' = None /\ rx' = Passed(r, Section[1], "PAT")
    BY <1>4, FeedIs
  <2> DEFINE g == Heard(gate, clock)
             v == Verdict(g, Section[1], Section[2])
  <2>1. \/ v.is \in {"Waiting", "Other"} /\ gate' = v.gate /\ rx' \in {rx, [rx EXCEPT !.other = TRUE]}
        \/ gate' = None /\ rx' = Passed(r, Section[1], "PAT")
    BY <2>0
  <2>2. gate \in Gates(world) /\ g \in Gates(world) /\ Section[1] \in DOMAIN world.tsid
        /\ g.left = gate.left /\ g.want = gate.want /\ g.expect = gate.expect
    BY <1>1, <1>4, HeardTyped, SectionTyped DEF ReceiverTypeOK
  <2> HIDE DEF g
  <2>3. v.gate \in Gates(world) /\ SameRule(v.gate, g)
    BY <2>2, DecideTyped, NetworkTyped DEF Verdict
  <2> HIDE DEF v
  <2>4. CASE v.is \in {"Waiting", "Other"} /\ gate' = v.gate /\ rx' \in {rx, [rx EXCEPT !.other = TRUE]}
    <3>1. /\ rx'.channel = rx.channel /\ rx'.tuned = rx.tuned /\ rx'.left = rx.left
          /\ rx'.relock = rx.relock /\ rx'.selected = rx.selected /\ rx'.running = rx.running
      BY <1>1, <2>4 DEF Pipelines
    <3>2. gate' # None /\ gate'.left = gate.left /\ gate'.want = gate.want /\ gate'.expect = gate.expect
      BY <2>2, <2>3, <2>4, OfTheWorld DEF SameRule
    <3>3. Expect(rx.channel)' = Expect(rx.channel)
      BY <1>1, <3>1 DEF Expect, Home
    <3>4. ForTheChannel'
      BY <1>1, <1>4, <3>1, <3>2, <3>3 DEF OwnInv, ForTheChannel
    <3>5. Confirmed'
      BY <1>4, <3>2, FeedConfirms
    <3> QED BY <1>2, <3>4, <3>5 DEF OwnInv
  <2>5. CASE gate' = None /\ rx' = Passed(r, Section[1], "PAT")
    <3>1. /\ r \in Pipelines /\ r.channel = rx.channel /\ r.tuned = rx.tuned /\ r.left = None
          /\ r.running = rx.running
      BY <1>1 DEF Pipelines
    <3> HIDE DEF r
    <3>2. /\ rx'.channel = rx.channel /\ rx'.tuned = rx.tuned /\ rx'.left = None
          /\ rx'.running = rx.running
      BY <2>5, <3>1, PassedIs
    <3> QED BY <1>1, <1>2, <2>5, <3>2 DEF OwnInv, ForTheChannel, Confirmed
  <2> QED BY <2>1, <2>4, <2>5
<1> QED BY <1>3, <1>4

\* The stream is left for a search, or for good.
LEMMA LeavesOwn ==
    ASSUME ReceiverTypeOK, OwnInv,
           GateDeadline \/ ServiceNotFound \/ NobodyReads \/ RetuneLost \/ Unplug \/ Replug
    PROVE  OwnInv'
<1>1. rx \in Pipelines /\ tuner \in Tuners /\ Starts(rx)
  BY DEF ReceiverTypeOK, Starts, OwnInv, ForTheChannel
<1>2. Relock(rx.tuned).pc = "Search" /\ Search(Fresh(First.tp)).pc = "Search"
  BY <1>1 DEF Relock, Search, Tuners
<1>3. ASSUME NEW r \in {[rx EXCEPT !.retunes = 1], [rx EXCEPT !.due = FALSE, !.pat = None, !.net = FALSE]},
             Retunes(r, Relock(rx.tuned), state)
      PROVE  OwnInv'
  <2>1. r \in Pipelines
    BY <1>1, Forgets
  <2>2. r.channel = rx.channel /\ r.tuned = rx.tuned /\ r.left = rx.left /\ r.relock = rx.relock
        /\ r.selected = rx.selected
    BY <1>1 DEF Pipelines
  <2> QED BY <1>1, <1>2, <1>3, <2>1, <2>2, StoppedOwn DEF Retunes, Starts
<1>4. CASE GateDeadline
  BY <1>3, <1>4, EndsOwn DEF GateDeadline
<1>5. CASE ServiceNotFound
  BY <1>5, EndsOwn DEF ServiceNotFound
<1>6. CASE NobodyReads
  BY <1>1, <1>6, StoppedOwn DEF NobodyReads, StandsBy
<1>7. CASE RetuneLost
  BY <1>3, <1>7 DEF RetuneLost
<1>8. CASE Unplug
  <2>1. /\ rx'.channel = rx.channel /\ rx'.tuned = rx.tuned /\ rx'.left = rx.left
        /\ rx'.relock = rx.relock /\ rx'.selected = rx.selected /\ ~rx'.running
        /\ gate' = None /\ world' = world /\ tuner'.pc = "Unplugged"
    BY <1>1, <1>8 DEF Unplug, Clocked, Pipelines, Tuners
  <2> QED BY <1>1, <2>1, StopsOwn DEF Starts
<1>9. CASE Replug
  <2>1. UNCHANGED <<world, rx, gate>> /\ tuner'.pc = "Search" /\ gate = None /\ ~rx.running
    BY <1>1, <1>9 DEF Replug, Search, Tuners, OwnInv, ForTheChannel
  <2> QED BY <1>1, <2>1, StopsOwn DEF Starts
<1> QED BY <1>4, <1>5, <1>6, <1>7, <1>8, <1>9

\* The stream that is not the one to come back, or is; and the carrier that is not
\* the transponder's.
LEMMA AgainOwn ==
    ASSUME ReceiverTypeOK, OwnInv, OtherStream \/ SignalBack \/ WrongCarrier
    PROVE  OwnInv'
<1>1. rx \in Pipelines /\ tuner \in Tuners /\ Starts(rx)
  BY DEF ReceiverTypeOK, Starts, OwnInv, ForTheChannel
<1>2. Relock(rx.tuned).pc = "Search"
  BY <1>1 DEF Relock, Tuners
<1>3. UNCHANGED air => (UNCHANGED <<world, tuner>> => OnPlace')
  BY DEF OwnInv, OnPlace, Place
<1>4. ASSUME NEW r \in {[rx EXCEPT !.retunes = 1, !.other = FALSE], [rx EXCEPT !.pat = None, !.net = FALSE]},
             Retunes(r, Relock(rx.tuned), state)
      PROVE  OwnInv'
  <2>1. r \in Pipelines
    BY <1>1, Forgets
  <2>2. r.channel = rx.channel /\ r.tuned = rx.tuned /\ r.left = rx.left /\ r.relock = rx.relock
        /\ r.selected = rx.selected
    BY <1>1 DEF Pipelines
  <2> QED BY <1>1, <1>2, <1>4, <2>1, <2>2, StoppedOwn DEF Retunes, Starts
<1>5. ASSUME rx' \in {[rx EXCEPT !.other = FALSE], [rx EXCEPT !.unconfirmed = None],
                      [rx EXCEPT !.relock = None, !.due = TRUE]},
             UNCHANGED <<world, tuner, air, gate, tail>>
      PROVE  OwnInv'
  <2>1. /\ rx'.channel = rx.channel /\ rx'.tuned = rx.tuned /\ rx'.left = rx.left
        /\ rx'.relock \in {rx.relock, None} /\ rx'.selected = rx.selected /\ rx'.running = rx.running
    BY <1>1, <1>5 DEF Pipelines
  <2>2. rx.left # None \/ (gate # None /\ gate.left # None)
          => rx'.relock = None /\ rx'.selected = None
    BY <2>1 DEF OwnInv, ForTheChannel
  <2> QED BY <1>3, <1>5, <2>1, <2>2, NotedOwn
<1>6. CASE OtherStream
  BY <1>4, <1>5, <1>6 DEF OtherStream
<1>7. CASE SignalBack
  BY <1>4, <1>5, <1>7 DEF SignalBack
<1>8. CASE WrongCarrier
  <2> DEFINE next == [rx.tuned EXCEPT !.wrong = @ \cup {rx.unconfirmed}]
             r    == [[rx EXCEPT !.unconfirmed = None] EXCEPT !.pat = None, !.net = FALSE, !.tuned = next]
  <2>1. rx.tuned \in TuneParams /\ rx.unconfirmed \in Spots
    BY <1>1, <1>8 DEF WrongCarrier, Pipelines
  <2>2. next \in TuneParams /\ next.tp = rx.tuned.tp
    BY <2>1 DEF TuneParams
  <2>3. \/ rx' = [rx EXCEPT !.unconfirmed = None] /\ UNCHANGED <<world, tuner, air, gate, tail>>
        \/ Stopped(r, Search(next), "Tuning") /\ UNCHANGED <<world, air>>
    BY <1>8 DEF WrongCarrier, Retunes
  <2>4. Search(next).pc = "Search"
    BY <1>1 DEF Search, Tuners
  <2> HIDE DEF next
  <2>5. /\ r \in Pipelines /\ r.channel = rx.channel /\ r.tuned = next /\ r.left = rx.left
        /\ r.relock = rx.relock /\ r.selected = rx.selected
    BY <1>1, <2>2 DEF Pipelines, Muxes
  <2> HIDE DEF r
  <2>6. CASE Stopped(r, Search(next), "Tuning") /\ UNCHANGED <<world, air>>
    BY <1>1, <2>2, <2>4, <2>5, <2>6, StoppedOwn DEF Starts
  <2> QED BY <1>5, <2>3, <2>6
<1> QED BY <1>6, <1>7, <1>8

\* The signal and the partners.
LEMMA SignalOwn ==
    ASSUME ReceiverTypeOK, OwnInv,
           LockLost \/ LockBack \/ Due \/ LocksLate \/ CableOut \/ CableIn \/ GivesUp
           \/ (\E want \in Channels \cup {Standby} : Write(want)) \/ UNCHANGED vars
    PROVE  OwnInv'
<1>1. rx \in Pipelines /\ air \in [signal : BOOLEAN, lock : Muxes(world)]
  BY DEF ReceiverTypeOK
<1>2. /\ UNCHANGED <<world, tuner, gate, tail>>
      /\ rx' \in {rx, [rx EXCEPT !.due = TRUE],
                  [rx EXCEPT !.relock = rx.selected, !.due = FALSE, !.pat = None, !.net = FALSE]}
  BY DEF LockLost, LockBack, Due, LocksLate, CableOut, CableIn, GivesUp, Write, vars
<1>3. air'.lock \in {air.lock, None} \/ (air'.lock = Reachable /\ Reachable # None)
  BY <1>1 DEF LockLost, LockBack, Due, LocksLate, CableOut, CableIn, GivesUp, Write, vars
<1>4. OnPlace'
  BY <1>2, <1>3 DEF OwnInv, OnPlace, Place, Reachable
<1>5. /\ rx'.channel = rx.channel /\ rx'.tuned = rx.tuned /\ rx'.left = rx.left
      /\ rx'.relock \in {rx.relock, rx.selected} /\ rx'.selected = rx.selected /\ rx'.running = rx.running
  BY <1>1, <1>2 DEF Pipelines
<1>6. rx.left # None \/ (gate # None /\ gate.left # None)
        => rx'.relock = None /\ rx'.selected = None
  BY <1>5 DEF OwnInv, ForTheChannel
<1> QED BY <1>2, <1>4, <1>5, <1>6, NotedOwn

\* Time passes over a gate.
LEMMA TimeOwn == ASSUME ReceiverTypeOK, OwnInv, TenSeconds PROVE OwnInv'
<1>1. /\ UNCHANGED <<world, tuner, tail, air>>
      /\ rx'.channel = rx.channel /\ rx'.tuned = rx.tuned /\ rx'.left = rx.left
      /\ rx'.relock = rx.relock /\ rx'.selected = rx.selected /\ rx'.running = rx.running
  BY DEF TenSeconds, ReceiverTypeOK, Pipelines
<1>2. gate = None => gate' = None
  BY DEF TenSeconds
<1>3. gate # None => /\ gate' # None /\ gate'.left = gate.left /\ gate'.want = gate.want
                     /\ gate'.expect = gate.expect /\ gate'.confirmed = gate.confirmed
  <2> SUFFICES ASSUME gate # None PROVE /\ gate' # None /\ gate'.left = gate.left
                                        /\ gate'.want = gate.want /\ gate'.expect = gate.expect
                                        /\ gate'.confirmed = gate.confirmed
    OBVIOUS
  <2>1. gate \in Gates(world) /\ gate' = [gate EXCEPT !.aged = TRUE]
    BY DEF TenSeconds, ReceiverTypeOK
  <2>2. gate' \in Gates(world)
    BY <2>1 DEF Gates
  <2> QED BY <2>1, <2>2, OfTheWorld DEF Gates
<1>4. Expect(rx.channel)' = Expect(rx.channel)
  BY <1>1 DEF Expect, Home
<1>5. ForTheChannel'
  BY <1>1, <1>2, <1>3, <1>4 DEF OwnInv, ForTheChannel
<1>6. Confirmed' /\ OnPlace'
  BY <1>1, <1>2, <1>3 DEF OwnInv, Confirmed, OnPlace, Place, Tells
<1> QED BY <1>5, <1>6 DEF OwnInv

LEMMA OwnStep ==
    ASSUME ReceiverTypeOK, TailInv, OwnInv, Distinct, [ReceiverNext]_vars
    PROVE  OwnInv'
<1> QED
  BY TryOwn, FollowOwn, FeedOwn, LeavesOwn, AgainOwn, SignalOwn, TimeOwn DEF ReceiverNext, Works, Distinct

\* What a gate that knows the stream left lets in.
LEMMA OwnAdmitted ==
    ASSUME ReceiverTypeOK, OwnInv, Distinct, [ReceiverNext]_vars, Admission, gate.left # None,
           world.listed, Tells(gate), TwinsOnly(rx.channel, gate.left)
    PROVE  rx'.selected \in {None, Home(rx.channel)}
<1>0. PICK clock \in BOOLEAN :
        Verdict(Heard(gate, clock), Section[1], Section[2]).is = "Admitted"
  BY AdmissionIs
<1> DEFINE g == Heard(gate, clock)
           mux == Section[1]
           r == [rx EXCEPT !.retunes = 0, !.left = None, !.net = FALSE]
<1>1. Feed /\ Verdict(g, mux, Section[2]).is = "Admitted" /\ rx' = Passed(r, mux, "PAT")
  BY <1>0, AdmissionIs
<1>2. /\ gate \in Gates(world) /\ mux \in DOMAIN world.tsid /\ tuner.pc = "Stream"
      /\ tail # <<>> => mux = Head(tail)[1]
      /\ tail = <<>> => mux = air.lock /\ air.lock # None
  BY <1>1, FeedIs, SectionTyped DEF ReceiverTypeOK, Admission, Feed, InStream, Live
<1>3. /\ g \in Gates(world) /\ g.left = gate.left /\ g.expect = gate.expect
      /\ g.confirmed = gate.confirmed /\ g.service = gate.service
  BY <1>2, HeardTyped
<1>4. /\ gate.service = rx.channel.service /\ gate.expect = Home(rx.channel) /\ rx.selected = None
      /\ rx \in Pipelines /\ Home(rx.channel) \in DOMAIN world.tsid
  <2>1. rx \in Pipelines
    BY DEF ReceiverTypeOK
  <2>2. world \in Worlds /\ rx.channel.tp \in Transponders
    BY <2>1 DEF ReceiverTypeOK, Pipelines, Transponders
  <2> QED BY <2>1, <2>2, ReceiverAssumption DEF OwnInv, ForTheChannel, Distinct, Admission, Expect, Home
<1> HIDE DEF g
<1>5. CASE rx.channel.service \notin world.programmes[mux] \/ mux = Home(rx.channel)
  <2>1. r \in Pipelines /\ r.channel = rx.channel /\ r.selected = None
    BY <1>4 DEF Pipelines
  <2> HIDE DEF r, mux
  <2>2. rx'.selected = IF r.channel.service \in world.programmes[mux] THEN mux ELSE r.selected
    BY <1>1, <2>1, PassedIs
  <2> QED BY <1>5, <2>1, <2>2
<1>6. CASE rx.channel.service \in world.programmes[mux] /\ mux # Home(rx.channel)
  <2>1. /\ world.tsid[mux] = world.tsid[gate.left.mux]
        /\ world.onid[mux] # world.onid[gate.expect]
    BY <1>2, <1>4, <1>6 DEF TwinsOnly
  <2>2. gate.expect # None /\ world.tsid[mux] # None
    BY <1>2, <1>4, OfTheWorld, ReceiverAssumption DEF ReceiverTypeOK
  <2> HIDE DEF mux
  <2>3. Alike(g, mux)
    BY <1>3, <1>4, <1>6, <2>1, <2>2 DEF Alike, LikeLeft, Twin, SameTsid, Told
  <2>4. gate.confirmed = world.tsid[mux]
    BY <1>1, <1>2, <1>3, <2>3, DecideTyped, NetworkTyped DEF Verdict
  <2>5. CASE tail # <<>>
    BY <1>2, <2>1, <2>2, <2>4, <2>5 DEF OwnInv, Confirmed, Admission
  <2>6. CASE tail = <<>>
    <3>1. mux = Place
      BY <1>2, <2>6 DEF OwnInv, OnPlace
    <3> QED BY <1>2, <2>1, <2>2, <2>4, <3>1 DEF OwnInv, Confirmed, Admission
  <2> QED BY <2>5, <2>6
<1> QED BY <1>5, <1>6

\* Where the multiplex left can be told and the list knows the channel's, what a
\* quarantine lets in for the channel is its own, whatever twins of the one left
\* are on the air (Gate::decide, Gate::network), as long as no channel is asked for
\* behind another's closed gate, and the bridge is not the one to confirm what
\* another network has where the tuner is.
THEOREM OnlyOwnLetIn == ReceiverSpec /\ []Distinct => OnlyTheChannels
<1>1. ReceiverTypeOK /\ TailInv /\ OwnInv /\ Distinct /\ [ReceiverNext]_vars => OwnInv'
  BY OwnStep
<1>2. ReceiverTypeOK /\ OwnInv /\ Distinct /\ [ReceiverNext]_vars
        => [Admission /\ gate.left # None /\ world.listed /\ Tells(gate) /\ TwinsOnly(rx.channel, gate.left)
              => rx'.selected \in {None, Home(rx.channel)}]_vars
  BY OwnAdmitted
<1>3. ReceiverInit => TailInv
  BY DEF ReceiverInit, TailInv, OfOne, ClockAsked, Unconfirmed
<1>4. ReceiverTypeOK /\ TailInv /\ [ReceiverNext]_vars => TailInv'
  BY TailStep
<1> QED BY <1>1, <1>2, <1>3, <1>4, InitOwn, ReceiverTypeCorrect, PTL DEF ReceiverSpec, OnlyTheChannels
=============================================================================
