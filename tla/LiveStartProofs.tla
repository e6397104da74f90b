--------------------------- MODULE LiveStartProofs ---------------------------
(* What putting channels on the television keeps, for any number of starts    *)
(* and whatever interrupts them.  A task is the sequence of the steps it has  *)
(* still to take, so what is still to happen to the player and the receiver   *)
(* is what such sequences hold; the invariant says which there can be.        *)
EXTENDS LiveStart, TLAPS

\* The counters and the record keep what their modules prove of them.
SP == INSTANCE StartsProofs
PP == INSTANCE PlaybackProofs WITH Sessions <- {}, MaxFilms <- MaxStarts, MaxPosted <- MaxStarts

----------------------------------------------------------------------------
(* Plans: the sequences of steps a task can have before it.                   *)

Stop  == {<<"Stopping", "Gone">>, <<"Gone", "Cleaned">>}
Links ==      \* which step comes after which
    [Start   |-> Stop \cup
                 {<<"Count", "CallOff">>, <<"CallOff", "Lock">>, <<"Switch", "Reload">>,
                  <<"StopHere", "Stopping">>, <<"Take", "Quit">>, <<"Quit", "Stopping">>,
                  <<"Quit", "Finish">>, <<"Quit", "Launch">>, <<"Cleaned", "Finish">>,
                  <<"Cleaned", "Receiver">>, <<"Cleaned", "Over">>, <<"Finish", "Stopping">>,
                  <<"Finish", "Ask">>, <<"Ask", "HandSwitch">>, <<"HandSwitch", "Opened">>,
                  <<"Receiver", "Up">>, <<"Up", "Opened">>, <<"Opened", "Rate">>,
                  <<"Rate", "Match">>, <<"Match", "Matched">>, <<"Launch", "Launched">>,
                  <<"Launched", "Begin">>},
     Back    |-> Stop \cup {<<"CallOff", "StopHere">>, <<"Quit", "Stopping">>, <<"Quit", "Finish">>,
                            <<"Cleaned", "Finish">>},
     Mpv     |-> Stop \cup {<<"Quit", "Stopping">>},
     Display |-> {<<"Opening", "End">>},
     Source  |-> {},
     Rematch |-> {}]
Ends ==       \* which step may be the last
    [Start   |-> {"Lock", "Over", "Decide", "Retry", "Reload", "Matched", "Begin"},
     Back    |-> {"Idle", "StopHere", "Finish"},
     Mpv     |-> {"Hear", "Cleaned"},
     Display |-> {"End"},
     Source  |-> {"Watch", "Quit"},
     Rematch |-> {"Match"}]

Steps == {"Idle", "Count", "CallOff", "Lock", "Decide", "Over", "Switch", "Reload", "Retry",
          "StopHere", "Take", "Quit", "Finish", "Stopping", "Gone", "Cleaned", "Receiver", "Up",
          "Ask", "HandSwitch", "Opened", "Rate", "Match", "Matched", "Launch", "Launched",
          "Begin", "Hear", "Opening", "End", "Watch"}

Plan(t, s) ==
    /\ s \in Seq(Steps)
    /\ s # <<>> => s[Len(s)] \in Ends[t[1]]
    /\ \A i \in 1..Len(s) - 1 : <<s[i], s[i + 1]>> \in Links[t[1]]

Holds(s, step) == \E i \in 1..Len(s) : s[i] = step
Has(t, step)   == Holds(todo[t], step)
EndsIn(s, steps) == s # <<>> /\ s[Len(s)] \in steps

----------------------------------------------------------------------------
(* The inductive invariant.                                                   *)

\* What the counters and the record are known to keep.
Counted ==
    /\ begun \in Nat /\ calledOff \in Nat /\ calledOff <= begun
    /\ numbered \subseteq 1..begun /\ counted \subseteq 1..begun /\ underway \subseteq 1..begun
    /\ numbered \cap counted = {} /\ numbered \cap underway = {} /\ counted \cap underway = {}
    /\ \A n \in underway : n - 1 <= calledOff
    /\ backs \subseteq 0..begun
Recorded ==
    /\ next \in 0..MaxStarts
    /\ film # None => film \in P!Film /\ film.number = next

PlansOK ==
    /\ DOMAIN todo = Tasks /\ \A t \in Tasks : Plan(t, todo[t])
    /\ own \in [Tasks -> Nat \cup {None}]
    /\ here \in [StartIds -> Nat \cup {None}]
    /\ svc \in [StartIds -> Channels \cup {None}]
    /\ may \in Worlds

Services == [service : Channels, fifo : Nat]
HeldOK ==
    /\ pnum \in Nat /\ fifos \in Nat /\ fifo \in 0..fifos
    /\ shown \in Channels \cup {None} /\ playing \in Channels \cup {None}
    /\ unit \in 0..fifos \cup {None}
    /\ select # None => select \in Services /\ select.fifo <= fifos
    /\ receiver # None => /\ receiver \in [service : Channels, fifo : Nat, ended : BOOLEAN]
                          /\ receiver.fifo <= fifos
    /\ life \in {"Cleaned", "Starting", "Playing", "Failed", "Stopping"}
    /\ content \in 0..pnum + 1 \cup {None} /\ handover \in BOOLEAN

\* The counters know where every start is; one start at a time has the lock.
Early(n) == todo[Start(n)] # <<>> /\ Head(todo[Start(n)]) \in {"Count", "CallOff"}
Locked(n) == todo[Start(n)] # <<>> /\ Head(todo[Start(n)]) \notin {"Count", "CallOff", "Lock"}
Linked ==
    /\ begun <= MaxStarts /\ change \in StartIds \cup {None}
    /\ \A n \in StartIds :
        /\ todo[Start(n)] # <<>> => n <= begun
        /\ n <= begun => svc[n] \in Channels
        /\ n <= begun /\ ~Early(n) => n - 1 <= calledOff
        /\ Early(n) \/ todo[Start(n)] = <<>> \/ n \in underway
        /\ change = n <=> Locked(n)

\* Each film has the followers it began with, and the player's number it had.
FilmsFollowed ==
    /\ film # None => film.live /\ next >= 1 /\ Is(Mpv(film.number), "Hear")
    /\ \A m \in StartIds :
        IF m <= next THEN here[m] \in 0..pnum
        ELSE todo[Mpv(m)] = <<>> /\ todo[Display(m)] = <<>> /\ todo[Source(m)] = <<>>

\* A film that a task will take off the record has had its player told to go;
\* a match is for a film the player has had, or has next.
FinishLate ==
    \A t \in Tasks : Has(t, "Finish") /\ own[t] # None =>
        own[t] \in 1..next /\ here[own[t]] < pnum
MatchOwned ==
    \A t \in Tasks : Is(t, "Match") => own[t] \in 0..pnum + 1

\* The film on record is the player's last.
FilmOn == film # None /\ pnum = here[film.number]

\* A unit that runs is to be stopped, is about to be recorded, or is of the film
\* on record.
ToQuit    == \E t \in Tasks : Is(t, "Take") \/ Is(t, "Quit")
Launching == \E n \in StartIds : Is(Start(n), "Launched") \/ Is(Start(n), "Begin")
UnitWatched == unit # None => ToQuit \/ Launching \/ FilmOn
LaunchAlone == \A n \in StartIds : Is(Start(n), "Launch") => unit = None

\* A match kept for the next channel is not of the player's last film.
Older == content = None \/ content < pnum
HandoverOlder ==
    handover => /\ content = None \/ content <= pnum
                /\ Launching \/ FilmOn => Older

\* Once every start is called off, Back is about to take what is on record.
BackTakes ==
    calledOff = begun /\ film # None =>
        \/ Is(Back, "StopHere")
        \/ Has(Back, "Finish") /\ own[Back] = film.number

LiveParts ==
    /\ PlansOK /\ HeldOK /\ Linked /\ FilmsFollowed /\ FinishLate /\ MatchOwned
    /\ UnitWatched /\ LaunchAlone /\ HandoverOlder /\ BackTakes
LiveInv == Counted /\ Recorded /\ LiveParts

----------------------------------------------------------------------------
(* Plans and tasks.                                                           *)

\* A plan without its first step is a plan, and holds the other steps.
LEMMA PlanTail ==
    ASSUME NEW t, NEW s, Plan(t, s), s # <<>>
    PROVE  /\ Plan(t, Tail(s)) /\ Head(s) = s[1]
           /\ \A step : Holds(s, step) <=> Head(s) = step \/ Holds(Tail(s), step)
           /\ Tail(s) = <<>> => Head(s) \in Ends[t[1]]
           /\ Tail(s) # <<>> => <<Head(s), Head(Tail(s))>> \in Links[t[1]]
           /\ \A steps : EndsIn(s, steps) <=> (IF Tail(s) = <<>> THEN Head(s) \in steps
                                               ELSE EndsIn(Tail(s), steps))
<1> DEFINE r == Tail(s)
<1>1. /\ s \in Seq(Steps) /\ Len(s) \in Nat /\ Len(s) > 0 /\ Head(s) = s[1]
      /\ r \in Seq(Steps) /\ Len(r) = Len(s) - 1 /\ \A i \in 1..Len(r) : r[i] = s[i + 1]
  BY DEF Plan
<1> HIDE DEF r
<1>2. r = <<>> <=> Len(s) = 1
  BY <1>1
<1>3. Plan(t, r)
  <2>1. r # <<>> => r[Len(r)] = s[Len(s)]
    BY <1>1, <1>2
  <2>2. ASSUME NEW i \in 1..Len(r) - 1 PROVE <<r[i], r[i + 1]>> \in Links[t[1]]
    <3>1. /\ i \in 1..Len(r) /\ i + 1 \in 1..Len(r) /\ i + 1 \in 1..Len(s) - 1
          /\ r[i] = s[i + 1] /\ r[i + 1] = s[(i + 1) + 1]
      BY <1>1
    <3> QED BY <3>1 DEF Plan
  <2> QED BY <1>1, <2>1, <2>2 DEF Plan
<1>4. ASSUME NEW step PROVE Holds(s, step) <=> Head(s) = step \/ Holds(r, step)
  <2>1. ASSUME Holds(s, step) PROVE s[1] = step \/ Holds(r, step)
    <3>1. PICK i \in 1..Len(s) : s[i] = step
      BY <2>1 DEF Holds
    <3>2. i = 1 \/ (i - 1 \in 1..Len(r) /\ r[i - 1] = s[i])
      BY <1>1
    <3> QED BY <3>1, <3>2 DEF Holds
  <2>2. ASSUME Holds(r, step) PROVE Holds(s, step)
    <3>1. PICK i \in 1..Len(r) : r[i] = step
      BY <2>2 DEF Holds
    <3>2. i + 1 \in 1..Len(s) /\ s[i + 1] = step
      BY <1>1, <3>1
    <3> QED BY <3>2 DEF Holds
  <2>3. s[1] = step => Holds(s, step)
    BY <1>1 DEF Holds
  <2> QED BY <1>1, <2>1, <2>2, <2>3
<1>5. r = <<>> => Head(s) \in Ends[t[1]]
  BY <1>1, <1>2 DEF Plan
<1>6. r # <<>> => <<Head(s), Head(r)>> \in Links[t[1]]
  <2>1. r # <<>> => 1 \in 1..Len(s) - 1 /\ Head(r) = s[2]
    BY <1>1, <1>2
  <2> QED BY <1>1, <2>1 DEF Plan
<1>7. ASSUME NEW steps PROVE EndsIn(s, steps) <=> (IF r = <<>> THEN Head(s) \in steps
                                                   ELSE EndsIn(r, steps))
  <2>1. r # <<>> => r[Len(r)] = s[Len(s)]
    BY <1>1, <1>2
  <2> QED BY <1>1, <1>2, <2>1 DEF EndsIn
<1> QED BY <1>1, <1>3, <1>4, <1>5, <1>6, <1>7 DEF r

\* Nothing is left of an empty plan.
LEMMA EmptyPlan == \A t, step, steps : Plan(t, <<>>) /\ ~Holds(<<>>, step) /\ ~EndsIn(<<>>, steps)
  BY DEF Plan, Holds, EndsIn

\* Every task is one of a start, of Back or of a film's followers.
LEMMA TaskNames ==
    /\ Back \in Tasks /\ Back[1] = "Back"
    /\ \A n \in StartIds :
        /\ {Start(n), Rematch(n), Mpv(n), Display(n), Source(n)} \subseteq Tasks
        /\ Start(n)[1] = "Start" /\ Rematch(n)[1] = "Rematch" /\ Mpv(n)[1] = "Mpv"
        /\ Display(n)[1] = "Display" /\ Source(n)[1] = "Source"
    /\ \A t \in Tasks : t # Back =>
        \E n \in StartIds : t \in {Start(n), Rematch(n), Mpv(n), Display(n), Source(n)}
  BY DEF Tasks, Back, Start, Rematch, Mpv, Display, Source

LEMMA TasksDiffer ==
    \A n, m :
        /\ Start(n) = Start(m) => n = m
        /\ Rematch(n) = Rematch(m) => n = m
        /\ Mpv(n) = Mpv(m) => n = m
        /\ Display(n) = Display(m) => n = m
        /\ Source(n) = Source(m) => n = m
        /\ Start(n) # Back /\ Start(n) # Rematch(m) /\ Start(n) # Mpv(m)
        /\ Start(n) # Display(m) /\ Start(n) # Source(m)
        /\ Rematch(n) # Back /\ Rematch(n) # Mpv(m) /\ Rematch(n) # Display(m)
        /\ Rematch(n) # Source(m) /\ Mpv(n) # Back /\ Mpv(n) # Display(m) /\ Mpv(n) # Source(m)
        /\ Display(n) # Back /\ Display(n) # Source(m) /\ Source(n) # Back
  BY DEF Back, Start, Rematch, Mpv, Display, Source

\* What is left for a start when it comes to a step.
Left ==
    [Lock |-> {"Lock"}, Over |-> {"Over"}, Decide |-> {"Decide"}, Retry |-> {"Retry"},
     Switch |-> {"Switch", "Reload"}, Reload |-> {"Reload"},
     Ask |-> {"Ask", "HandSwitch", "Opened", "Rate", "Match", "Matched"},
     HandSwitch |-> {"HandSwitch", "Opened", "Rate", "Match", "Matched"},
     Receiver |-> {"Receiver", "Up", "Opened", "Rate", "Match", "Matched"},
     Up |-> {"Up", "Opened", "Rate", "Match", "Matched"},
     Opened |-> {"Opened", "Rate", "Match", "Matched"},
     Rate |-> {"Rate", "Match", "Matched"}, Match |-> {"Match", "Matched"},
     Matched |-> {"Matched"},
     Launch |-> {"Launch", "Launched", "Begin"}, Launched |-> {"Launched", "Begin"},
     Begin |-> {"Begin"}]
Last ==
    [Lock |-> "Lock", Over |-> "Over", Decide |-> "Decide", Retry |-> "Retry",
     Switch |-> "Reload", Reload |-> "Reload", Ask |-> "Matched", HandSwitch |-> "Matched",
     Receiver |-> "Matched", Up |-> "Matched", Opened |-> "Matched", Rate |-> "Matched",
     Match |-> "Matched", Matched |-> "Matched", Launch |-> "Begin", Launched |-> "Begin",
     Begin |-> "Begin"]

LeftIs(s) ==
    /\ \A step : Holds(s, step) <=> step \in Left[Head(s)]
    /\ \A steps : EndsIn(s, steps) <=> Last[Head(s)] \in steps

LEMMA StartLeft ==
    ASSUME NEW t, t[1] = "Start", NEW s, Plan(t, s), s # <<>>, Head(s) \in DOMAIN Left
    PROVE  LeftIs(s)
<1> DEFINE L == Links["Start"]
           E == Ends["Start"]
<1>l. Links[t[1]] = L /\ Ends[t[1]] = E
  OBVIOUS
<1> DEFINE Final == {"Lock", "Over", "Decide", "Retry", "Reload", "Matched", "Begin"}
<1>1. ASSUME NEW r, Plan(t, r), r # <<>>, Head(r) \in Final PROVE LeftIs(r)
  <2>1. Tail(r) = <<>>
    <3>1. Tail(r) # <<>> => <<Head(r), Head(Tail(r))>> \in L
      BY <1>1, <1>l, PlanTail
    <3>2. \A x : \A last \in Final : <<last, x>> \notin L
      BY DEF Links, Stop
    <3> QED BY <1>1, <3>1, <3>2
  <2>2. \A step : Holds(r, step) <=> step = Head(r)
    BY <1>1, <2>1, PlanTail, EmptyPlan
  <2>3. \A steps : EndsIn(r, steps) <=> Head(r) \in steps
    BY <1>1, <2>1, PlanTail
  <2>4. Left[Head(r)] = {Head(r)} /\ Last[Head(r)] = Head(r)
    BY <1>1 DEF Left, Last
  <2> QED BY <2>2, <2>3, <2>4 DEF LeftIs
<1> DEFINE Goes1(h, after) ==
      \A r : Plan(t, r) /\ r # <<>> /\ Head(r) = h
             => Plan(t, Tail(r)) /\ Tail(r) # <<>> /\ Head(Tail(r)) = after
<1>2. \A r : Plan(t, r) /\ r # <<>> =>
        /\ Plan(t, Tail(r))
        /\ Tail(r) = <<>> => Head(r) \in E
        /\ Tail(r) # <<>> => <<Head(r), Head(Tail(r))>> \in L
  BY <1>l, PlanTail
<1>s. /\ Goes1("Switch", "Reload") /\ Goes1("Ask", "HandSwitch") /\ Goes1("HandSwitch", "Opened")
      /\ Goes1("Receiver", "Up") /\ Goes1("Up", "Opened")
  BY <1>2 DEF Links, Ends, Stop
<1>t. /\ Goes1("Opened", "Rate") /\ Goes1("Rate", "Match") /\ Goes1("Match", "Matched")
      /\ Goes1("Launch", "Launched") /\ Goes1("Launched", "Begin")
  BY <1>2 DEF Links, Ends, Stop
<1> DEFINE All(h) == \A r : Plan(t, r) /\ r # <<>> /\ Head(r) = h => LeftIs(r)
<1>3. ASSUME NEW h, NEW after, Goes1(h, after), All(after), Last[h] = Last[after],
             \A x : x \in Left[h] <=> x = h \/ x \in Left[after]
      PROVE  All(h)
  <2> SUFFICES ASSUME NEW r, Plan(t, r), r # <<>>, Head(r) = h PROVE LeftIs(r)
    OBVIOUS
  <2>1. Plan(t, Tail(r)) /\ Tail(r) # <<>> /\ Head(Tail(r)) = after /\ LeftIs(Tail(r))
    BY <1>3
  <2>2. \A step : Holds(r, step) <=> h = step \/ step \in Left[after]
    BY <2>1, PlanTail DEF LeftIs
  <2>3. \A steps : EndsIn(r, steps) <=> Last[after] \in steps
    BY <2>1, PlanTail DEF LeftIs
  <2> QED BY <2>2, <2>3, <1>3 DEF LeftIs
<1> HIDE DEF Goes1, All
<1>4. All("Reload") /\ All("Matched") /\ All("Begin")
  BY <1>1 DEF All
<1>5. All("Match") /\ All("Launched") /\ All("Switch")
  BY <1>s, <1>t, <1>3, <1>4 DEF Left, Last
<1>6. All("Rate") /\ All("Launch")
  BY <1>s, <1>t, <1>3, <1>5 DEF Left, Last
<1>7. All("Opened")
  BY <1>s, <1>t, <1>3, <1>6 DEF Left, Last
<1>8. All("Up") /\ All("HandSwitch")
  BY <1>s, <1>t, <1>3, <1>7 DEF Left, Last
<1>9. All("Receiver") /\ All("Ask")
  BY <1>s, <1>t, <1>3, <1>8 DEF Left, Last
<1> QED BY <1>1, <1>4, <1>5, <1>6, <1>7, <1>8, <1>9 DEF All, Left

\* The plans that a step makes.
LEMMA Literal ==
    ASSUME NEW t, t[1] = "Start"
    PROVE  /\ Plan(t, <<"Over">>) /\ Plan(t, <<"Decide">>) /\ Plan(t, <<"Retry">>)
           /\ Plan(t, <<"Switch", "Reload">>) /\ Plan(t, <<"Count", "CallOff", "Lock">>)
           /\ Head(<<"Switch", "Reload">>) = "Switch"
           /\ Head(<<"Count", "CallOff", "Lock">>) = "Count"
           /\ Head(<<"Over">>) = "Over" /\ Head(<<"Decide">>) = "Decide"
           /\ Head(<<"Retry">>) = "Retry"
           /\ <<"Over">> # <<>> /\ <<"Decide">> # <<>> /\ <<"Retry">> # <<>>
           /\ <<"Switch", "Reload">> # <<>> /\ <<"Count", "CallOff", "Lock">> # <<>>
  BY DEF Plan, Links, Ends, Steps

WarmPlan   == <<"Quit", "Finish", "Ask", "HandSwitch", "Opened", "Rate", "Match", "Matched">>
GiveUpPlan == StopReceiver \o <<"Over">>
LaunchPlan == StopPlayer \o <<"Launch", "Launched", "Begin">>
UndoPlan   == StopPlayer \o StopReceiver \o <<"Over">>

\* What is known of a plan that a step makes: what it holds and where it ends.
Made(t, s, first, steps, last) ==
    /\ Plan(t, s) /\ s # <<>> /\ Head(s) = first
    /\ \A step : Holds(s, step) <=> step \in steps
    /\ \A ends : EndsIn(s, ends) <=> last \in ends

LEMMA WarmMade ==
    ASSUME NEW t, t[1] = "Start"
    PROVE  Made(t, WarmPlan, "Quit", {"Quit", "Finish", "Ask", "HandSwitch", "Opened", "Rate",
                                      "Match", "Matched"}, "Matched")
<1> DEFINE s == WarmPlan
<1>1. /\ s \in Seq(Steps) /\ Len(s) = 8 /\ Head(s) = s[1]
      /\ s[1] = "Quit" /\ s[2] = "Finish" /\ s[3] = "Ask" /\ s[4] = "HandSwitch"
      /\ s[5] = "Opened" /\ s[6] = "Rate" /\ s[7] = "Match" /\ s[8] = "Matched"
  BY DEF WarmPlan, Steps
<1> HIDE DEF s
<1>2. Plan(t, s)
  BY <1>1 DEF Plan, Links, Ends, Stop
<1>3. \A step : Holds(s, step) <=> step \in {"Quit", "Finish", "Ask", "HandSwitch", "Opened",
                                             "Rate", "Match", "Matched"}
  BY <1>1 DEF Holds
<1>4. s # <<>>
  BY DEF s, WarmPlan
<1>5. \A ends : EndsIn(s, ends) <=> s[Len(s)] \in ends
  BY <1>4 DEF EndsIn
<1> QED BY <1>1, <1>2, <1>3, <1>4, <1>5 DEF s, Made

LEMMA ColdMade ==
    ASSUME NEW t, t[1] = "Start"
    PROVE  Made(t, ColdStart, "StopHere", {"StopHere", "Stopping", "Gone", "Cleaned", "Receiver",
                                           "Up", "Opened", "Rate", "Match", "Matched"}, "Matched")
<1> DEFINE s == ColdStart
<1>1. /\ s \in Seq(Steps) /\ Len(s) = 10 /\ Head(s) = s[1]
      /\ s[1] = "StopHere" /\ s[2] = "Stopping" /\ s[3] = "Gone" /\ s[4] = "Cleaned"
      /\ s[5] = "Receiver" /\ s[6] = "Up" /\ s[7] = "Opened" /\ s[8] = "Rate"
      /\ s[9] = "Match" /\ s[10] = "Matched"
  BY DEF ColdStart, StopReceiver, Steps
<1> HIDE DEF s
<1>2. Plan(t, s)
  BY <1>1 DEF Plan, Links, Ends, Stop
<1>3. \A step : Holds(s, step) <=> step \in {"StopHere", "Stopping", "Gone", "Cleaned", "Receiver",
                                             "Up", "Opened", "Rate", "Match", "Matched"}
  BY <1>1 DEF Holds
<1>4. s # <<>>
  BY DEF s, ColdStart, StopReceiver
<1>5. \A ends : EndsIn(s, ends) <=> s[Len(s)] \in ends
  BY <1>4 DEF EndsIn
<1> QED BY <1>1, <1>2, <1>3, <1>4, <1>5 DEF s, Made

LEMMA GiveUpMade ==
    ASSUME NEW t, t[1] = "Start"
    PROVE  Made(t, GiveUpPlan, "Stopping", {"Stopping", "Gone", "Cleaned", "Over"}, "Over")
<1> DEFINE s == GiveUpPlan
<1>1. /\ s \in Seq(Steps) /\ Len(s) = 4 /\ Head(s) = s[1]
      /\ s[1] = "Stopping" /\ s[2] = "Gone" /\ s[3] = "Cleaned" /\ s[4] = "Over"
  BY DEF GiveUpPlan, StopReceiver, Steps
<1> HIDE DEF s
<1>2. Plan(t, s)
  BY <1>1 DEF Plan, Links, Ends, Stop
<1>3. \A step : Holds(s, step) <=> step \in {"Stopping", "Gone", "Cleaned", "Over"}
  BY <1>1 DEF Holds
<1>4. s # <<>>
  BY DEF s, GiveUpPlan, StopReceiver
<1>5. \A ends : EndsIn(s, ends) <=> s[Len(s)] \in ends
  BY <1>4 DEF EndsIn
<1> QED BY <1>1, <1>2, <1>3, <1>4, <1>5 DEF s, Made

LEMMA LaunchMade ==
    ASSUME NEW t, t[1] = "Start"
    PROVE  Made(t, LaunchPlan, "Take", {"Take", "Quit", "Launch", "Launched", "Begin"}, "Begin")
<1> DEFINE s == LaunchPlan
<1>1. /\ s \in Seq(Steps) /\ Len(s) = 5 /\ Head(s) = s[1]
      /\ s[1] = "Take" /\ s[2] = "Quit" /\ s[3] = "Launch" /\ s[4] = "Launched"
      /\ s[5] = "Begin"
  BY DEF LaunchPlan, StopPlayer, Steps
<1> HIDE DEF s
<1>2. Plan(t, s)
  BY <1>1 DEF Plan, Links, Ends, Stop
<1>3. \A step : Holds(s, step) <=> step \in {"Take", "Quit", "Launch", "Launched", "Begin"}
  BY <1>1 DEF Holds
<1>4. s # <<>>
  BY DEF s, LaunchPlan, StopPlayer
<1>5. \A ends : EndsIn(s, ends) <=> s[Len(s)] \in ends
  BY <1>4 DEF EndsIn
<1> QED BY <1>1, <1>2, <1>3, <1>4, <1>5 DEF s, Made

LEMMA UndoMade ==
    ASSUME NEW t, t[1] = "Start"
    PROVE  Made(t, UndoPlan, "Take", {"Take", "Quit", "Stopping", "Gone", "Cleaned", "Over"},
                                      "Over")
<1> DEFINE s == UndoPlan
<1>1. /\ s \in Seq(Steps) /\ Len(s) = 6 /\ Head(s) = s[1]
      /\ s[1] = "Take" /\ s[2] = "Quit" /\ s[3] = "Stopping" /\ s[4] = "Gone"
      /\ s[5] = "Cleaned" /\ s[6] = "Over"
  BY DEF UndoPlan, StopPlayer, StopReceiver, Steps
<1> HIDE DEF s
<1>2. Plan(t, s)
  BY <1>1 DEF Plan, Links, Ends, Stop
<1>3. \A step : Holds(s, step) <=> step \in {"Take", "Quit", "Stopping", "Gone", "Cleaned", "Over"}
  BY <1>1 DEF Holds
<1>4. s # <<>>
  BY DEF s, UndoPlan, StopPlayer, StopReceiver
<1>5. \A ends : EndsIn(s, ends) <=> s[Len(s)] \in ends
  BY <1>4 DEF EndsIn
<1> QED BY <1>1, <1>2, <1>3, <1>4, <1>5 DEF s, Made

\* A plan after other steps is a plan, if its first step comes after their last.
LEMMA Joined ==
    ASSUME NEW t, NEW q \in Seq(Steps), q # <<>>, NEW r, Plan(t, r),
           \A i \in 1..Len(q) - 1 : <<q[i], q[i + 1]>> \in Links[t[1]],
           IF r = <<>> THEN q[Len(q)] \in Ends[t[1]]
           ELSE <<q[Len(q)], Head(r)>> \in Links[t[1]]
    PROVE  /\ Plan(t, q \o r) /\ q \o r # <<>> /\ Head(q \o r) = q[1]
           /\ \A step : Holds(q \o r, step) <=> Holds(q, step) \/ Holds(r, step)
           /\ \A steps : r # <<>> => (EndsIn(q \o r, steps) <=> EndsIn(r, steps))
<1> DEFINE p == q \o r
           k == Len(q)
<1>1. /\ r \in Seq(Steps) /\ Len(r) \in Nat /\ k \in Nat /\ k > 0
      /\ p \in Seq(Steps) /\ Len(p) = k + Len(r) /\ p # <<>> /\ Head(p) = q[1]
      /\ \A i \in 1..k : p[i] = q[i]
      /\ \A i \in 1..Len(r) : p[k + i] = r[i]
      /\ r # <<>> => Head(r) = r[1] /\ Len(r) > 0
      /\ r = <<>> => Len(r) = 0
  BY DEF Plan
<1>n. Len(p) \in Nat /\ k \in Nat /\ k > 0
  BY <1>1
<1>q. \A i \in 1..k - 1 : <<q[i], q[i + 1]>> \in Links[t[1]]
  OBVIOUS
<1> HIDE DEF p, k
<1>2. ASSUME NEW i \in 1..Len(p) - 1 PROVE <<p[i], p[i + 1]>> \in Links[t[1]]
  <2>1. CASE i < k
    <3>1. i \in 1..k - 1 /\ i \in 1..k /\ i + 1 \in 1..k
      BY <2>1, <1>n
    <3> QED BY <3>1, <1>1, <1>q
  <2>2. CASE i = k
    <3>1. 1 \in 1..Len(r) /\ r # <<>>
      BY <2>2, <1>1
    <3>2. k \in 1..k /\ k + 1 = i + 1 /\ p[i] = q[k] /\ p[i + 1] = r[1]
      BY <3>1, <2>2, <1>1
    <3> QED BY <3>1, <3>2, <1>1 DEF k
  <2>3. CASE i > k
    <3> DEFINE j == i - k
    <3>1. j \in 1..Len(r) - 1 /\ j + 1 \in 1..Len(r) /\ k + j = i /\ k + (j + 1) = i + 1
      BY <2>3, <1>1
    <3> HIDE DEF j
    <3>2. p[k + j] = r[j] /\ p[k + (j + 1)] = r[j + 1]
      BY <3>1, <1>1
    <3> QED BY <3>1, <3>2 DEF Plan
  <2> QED BY <2>1, <2>2, <2>3, <1>1
<1>3. /\ r = <<>> => p[Len(p)] = q[k]
      /\ r # <<>> => p[Len(p)] = r[Len(r)]
  <2>1. r = <<>> => Len(p) = k /\ k \in 1..k
    BY <1>1
  <2>2. r # <<>> => Len(r) \in 1..Len(r) /\ Len(p) = k + Len(r)
    BY <1>1
  <2> QED BY <2>1, <2>2, <1>1
<1>4. Plan(t, p)
  BY <1>1, <1>2, <1>3 DEF Plan, k
<1>5. ASSUME NEW step PROVE Holds(p, step) <=> Holds(q, step) \/ Holds(r, step)
  <2>1. ASSUME Holds(p, step) PROVE Holds(q, step) \/ Holds(r, step)
    <3>1. PICK i \in 1..Len(p) : p[i] = step
      BY <2>1 DEF Holds
    <3>2. CASE i <= k
      BY <3>1, <3>2, <1>1 DEF Holds, k
    <3>3. CASE i > k
      <4>1. i - k \in 1..Len(r) /\ k + (i - k) = i
        BY <3>3, <1>1
      <4> QED BY <4>1, <3>1, <1>1 DEF Holds
    <3> QED BY <3>2, <3>3, <1>1
  <2>2. ASSUME Holds(q, step) PROVE Holds(p, step)
    <3>1. PICK i \in 1..k : q[i] = step
      BY <2>2 DEF Holds, k
    <3>2. i \in 1..Len(p)
      BY <1>1
    <3> QED BY <3>1, <3>2, <1>1 DEF Holds
  <2>3. ASSUME Holds(r, step) PROVE Holds(p, step)
    <3>1. PICK i \in 1..Len(r) : r[i] = step
      BY <2>3 DEF Holds
    <3>2. k + i \in 1..Len(p)
      BY <1>1
    <3> QED BY <3>1, <3>2, <1>1 DEF Holds
  <2> QED BY <2>1, <2>2, <2>3
<1>6. \A steps : r # <<>> => (EndsIn(p, steps) <=> EndsIn(r, steps))
  BY <1>1, <1>3 DEF EndsIn
<1> QED BY <1>1, <1>4, <1>5, <1>6 DEF p

\* A stop of what is on the television goes before what is left of its task.
StopHerePlan(receives, rest) ==
    <<"Quit">> \o (IF receives THEN StopReceiver ELSE <<>>) \o <<"Finish">> \o rest

LEMMA StopHereMade ==
    ASSUME NEW t, t[1] \in {"Start", "Back"}, NEW s, Plan(t, s), s # <<>>, Head(s) = "StopHere",
           NEW receives \in BOOLEAN
    PROVE  LET p == StopHerePlan(receives, Tail(s))
           IN  /\ Plan(t, p) /\ p # <<>> /\ Head(p) = "Quit"
               /\ \A step : Holds(p, step) <=>
                    \/ step \in {"Quit", "Finish"} \/ Holds(Tail(s), step)
                    \/ receives /\ step \in {"Stopping", "Gone", "Cleaned"}
               /\ \A steps : t[1] = "Start" => (EndsIn(p, steps) <=> EndsIn(s, steps))
<1> DEFINE r == Tail(s)
           q == <<"Quit">> \o (IF receives THEN StopReceiver ELSE <<>>) \o <<"Finish">>
<1>1. /\ Plan(t, r)
      /\ IF r = <<>> THEN "Finish" \in Ends[t[1]] /\ t[1] = "Back"
         ELSE <<"Finish", Head(r)>> \in Links[t[1]] /\ t[1] = "Start"
  <2>0. /\ Plan(t, r)
        /\ r = <<>> => Head(s) \in Ends[t[1]]
        /\ r # <<>> => <<Head(s), Head(r)>> \in Links[t[1]]
    BY PlanTail
  <2>1. /\ Plan(t, r)
        /\ r = <<>> => "StopHere" \in Ends[t[1]]
        /\ r # <<>> => <<"StopHere", Head(r)>> \in Links[t[1]]
    BY <2>0
  <2>2. r = <<>> => t[1] = "Back"
    BY <2>1 DEF Ends
  <2>3. r # <<>> => t[1] = "Start" /\ Head(r) = "Stopping"
    BY <2>1 DEF Links, Stop
  <2> QED BY <2>1, <2>2, <2>3 DEF Links, Ends
<1>2. /\ q \in Seq(Steps) /\ q # <<>> /\ q[1] = "Quit" /\ q[Len(q)] = "Finish"
      /\ \A i \in 1..Len(q) - 1 : <<q[i], q[i + 1]>> \in Links[t[1]]
      /\ \A step : Holds(q, step) <=> \/ step \in {"Quit", "Finish"}
                                      \/ receives /\ step \in {"Stopping", "Gone", "Cleaned"}
  <2>1. CASE receives
    <3>1. /\ q \in Seq(Steps) /\ Len(q) = 5 /\ q[1] = "Quit" /\ q[2] = "Stopping"
          /\ q[3] = "Gone" /\ q[4] = "Cleaned" /\ q[5] = "Finish"
      BY <2>1 DEF StopReceiver, Steps
    <3> HIDE DEF q
    <3>2. \A step : Holds(q, step) <=> step \in {"Quit", "Stopping", "Gone", "Cleaned", "Finish"}
      BY <3>1 DEF Holds
    <3>3. \A i \in 1..Len(q) - 1 : <<q[i], q[i + 1]>> \in Links[t[1]]
      BY <3>1 DEF Links, Stop
    <3> QED BY <2>1, <3>1, <3>2, <3>3
  <2>2. CASE ~receives
    <3>1. q \in Seq(Steps) /\ Len(q) = 2 /\ q[1] = "Quit" /\ q[2] = "Finish"
      BY <2>2 DEF Steps
    <3> HIDE DEF q
    <3>2. \A step : Holds(q, step) <=> step \in {"Quit", "Finish"}
      BY <3>1 DEF Holds
    <3>3. \A i \in 1..Len(q) - 1 : <<q[i], q[i + 1]>> \in Links[t[1]]
      BY <3>1 DEF Links
    <3> QED BY <2>2, <3>1, <3>2, <3>3
  <2> QED BY <2>1, <2>2
<1>3. StopHerePlan(receives, r) = q \o r
  BY DEF StopHerePlan
<1> HIDE DEF q
<1>4. t[1] = "Start" => r # <<>> /\ \A steps : EndsIn(r, steps) <=> EndsIn(s, steps)
  BY <1>1, PlanTail
<1>6. IF r = <<>> THEN q[Len(q)] \in Ends[t[1]] ELSE <<q[Len(q)], Head(r)>> \in Links[t[1]]
  BY <1>1, <1>2
<1>5. /\ Plan(t, q \o r) /\ q \o r # <<>> /\ Head(q \o r) = "Quit"
      /\ \A step : Holds(q \o r, step) <=> Holds(q, step) \/ Holds(r, step)
      /\ \A steps : r # <<>> => (EndsIn(q \o r, steps) <=> EndsIn(r, steps))
  BY <1>1, <1>2, <1>6, Joined
<1> QED BY <1>2, <1>3, <1>4, <1>5

\* With nothing to stop, a stop is passed over.
Skipped(s) == SubSeq(s, 4, Len(s))

LEMMA SkipMade ==
    ASSUME NEW t, t[1] \in {"Start", "Back", "Mpv"}, NEW s, Plan(t, s), s # <<>>,
           Head(s) = "Stopping"
    PROVE  LET r == Skipped(s)
           IN  /\ Plan(t, r)
               /\ \A step : Holds(s, step) <=> step \in {"Stopping", "Gone", "Cleaned"}
                                                \/ Holds(r, step)
               /\ \A steps : r # <<>> => (EndsIn(s, steps) <=> EndsIn(r, steps))
               /\ r # <<>> => <<"Cleaned", Head(r)>> \in Links[t[1]]
               /\ r = <<>> => "Cleaned" \in Ends[t[1]]
<1> DEFINE a == Tail(s)
           b == Tail(a)
           r == Tail(b)
<1>1. Plan(t, a) /\ a # <<>> /\ Head(a) = "Gone"
      /\ (\A step : Holds(s, step) <=> step = "Stopping" \/ Holds(a, step))
      /\ (\A steps : EndsIn(s, steps) <=> EndsIn(a, steps))
  <2>1. /\ Plan(t, a)
        /\ a = <<>> => "Stopping" \in Ends[t[1]]
        /\ a # <<>> => <<"Stopping", Head(a)>> \in Links[t[1]]
    BY PlanTail
  <2>2. a # <<>> /\ Head(a) = "Gone"
    BY <2>1 DEF Links, Stop, Ends
  <2> QED BY <2>1, <2>2, PlanTail
<1>2. Plan(t, b) /\ b # <<>> /\ Head(b) = "Cleaned"
      /\ (\A step : Holds(a, step) <=> step = "Gone" \/ Holds(b, step))
      /\ (\A steps : EndsIn(a, steps) <=> EndsIn(b, steps))
  <2> HIDE DEF a
  <2>1. /\ Plan(t, b)
        /\ b = <<>> => Head(a) \in Ends[t[1]]
        /\ b # <<>> => <<Head(a), Head(b)>> \in Links[t[1]]
        /\ \A step : Holds(a, step) <=> Head(a) = step \/ Holds(b, step)
        /\ \A steps : EndsIn(a, steps) <=> (IF b = <<>> THEN Head(a) \in steps
                                            ELSE EndsIn(b, steps))
    BY <1>1, PlanTail
  <2> HIDE DEF b
  <2>2. b # <<>> /\ Head(b) = "Cleaned"
    BY <1>1, <2>1 DEF Links, Stop, Ends
  <2> QED BY <1>1, <2>1, <2>2
<1>3. /\ Plan(t, r)
      /\ \A step : Holds(b, step) <=> step = "Cleaned" \/ Holds(r, step)
      /\ \A steps : r # <<>> => (EndsIn(b, steps) <=> EndsIn(r, steps))
      /\ r # <<>> => <<"Cleaned", Head(r)>> \in Links[t[1]]
      /\ r = <<>> => "Cleaned" \in Ends[t[1]]
  <2> HIDE DEF b
  <2>1. /\ Plan(t, r)
        /\ r = <<>> => Head(b) \in Ends[t[1]]
        /\ r # <<>> => <<Head(b), Head(r)>> \in Links[t[1]]
        /\ \A step : Holds(b, step) <=> Head(b) = step \/ Holds(r, step)
        /\ \A steps : EndsIn(b, steps) <=> (IF r = <<>> THEN Head(b) \in steps
                                            ELSE EndsIn(r, steps))
    BY <1>2, PlanTail
  <2> QED BY <1>2, <2>1
<1>4. r = Skipped(s)
  <2>a. s \in Seq(Steps) /\ s # <<>> /\ a # <<>> /\ b # <<>>
    BY <1>1, <1>2 DEF Plan
  <2>b. /\ a \in Seq(Steps) /\ Len(a) = Len(s) - 1 /\ Len(s) \in Nat
        /\ \A i \in 1..Len(a) : a[i] = s[i + 1]
    BY <2>a
  <2> HIDE DEF a
  <2>c. /\ b \in Seq(Steps) /\ Len(b) = Len(a) - 1 /\ \A i \in 1..Len(b) : b[i] = a[i + 1]
    BY <2>a, <2>b
  <2> HIDE DEF b
  <2>d. /\ r \in Seq(Steps) /\ Len(r) = Len(b) - 1 /\ Len(r) \in Nat
        /\ \A i \in 1..Len(r) : r[i] = b[i + 1]
    BY <2>a, <2>c
  <2> HIDE DEF r
  <2>2. \A i \in 1..Len(r) : r[i] = s[i + 3]
    <3> TAKE i \in 1..Len(r)
    <3>1. r[i] = b[i + 1] /\ i + 1 \in 1..Len(b)
      BY <2>c, <2>d
    <3>2. b[i + 1] = a[(i + 1) + 1] /\ (i + 1) + 1 \in 1..Len(a)
      BY <3>1, <2>b, <2>c
    <3>3. a[(i + 1) + 1] = s[((i + 1) + 1) + 1]
      BY <3>2, <2>b
    <3> QED BY <3>1, <3>2, <3>3
  <2>1. Len(r) = Len(s) - 3
    BY <2>b, <2>c, <2>d
  <2>3. LET q == SubSeq(s, 4, Len(s))
        IN  q \in Seq(Steps) /\ Len(q) = Len(r) /\ \A i \in 1..Len(r) : q[i] = s[i + 3]
    BY <2>a, <2>b, <2>d, <2>1
  <2> QED BY <2>d, <2>2, <2>3 DEF Skipped
<1> HIDE DEF a, b, r
<1> QED BY <1>1, <1>2, <1>3, <1>4

\* Whose a step is.
LEMMA StepOf ==
    ASSUME NEW t \in Tasks, NEW s, Plan(t, s), s # <<>>
    PROVE  /\ Head(s) = "Take" => t[1] = "Start"
           /\ Head(s) \in {"StopHere", "Finish"} => t[1] \in {"Start", "Back"}
           /\ Head(s) = "Match" => t[1] \in {"Start", "Rematch"}
           /\ Head(s) = "Quit" => t[1] \in {"Start", "Back", "Mpv", "Source"}
           /\ Head(s) \in {"Stopping", "Gone", "Cleaned"} => t[1] \in {"Start", "Back", "Mpv"}
<1> DEFINE Firsts(k) == Ends[k] \cup {link[1] : link \in Links[k]}
<1>1. Head(s) \in Firsts(t[1])
  <2>1. Tail(s) = <<>> => Head(s) \in Ends[t[1]]
    BY PlanTail
  <2>2. Tail(s) # <<>> => <<Head(s), Head(Tail(s))>> \in Links[t[1]]
    BY PlanTail
  <2> QED BY <2>1, <2>2
<1>2. t[1] \in {"Start", "Back", "Mpv", "Display", "Source", "Rematch"}
  BY TaskNames
<1>4. Firsts("Back") \cap {"Take", "Match"} = {}
  BY DEF Ends, Links, Stop
<1>5. Firsts("Mpv") \cap {"Take", "StopHere", "Finish", "Match"} = {}
  BY DEF Ends, Links, Stop
<1>6. Firsts("Display") \subseteq {"Opening", "End"} /\ Firsts("Source") \subseteq {"Watch", "Quit"}
      /\ Firsts("Rematch") \subseteq {"Match"}
  BY DEF Ends, Links, Stop
<1> HIDE DEF Firsts
<1> QED BY <1>1, <1>2, <1>4, <1>5, <1>6

\* A task's plan changes and no other's.
Moves(t) == /\ DOMAIN todo' = Tasks /\ Plan(t, todo'[t])
            /\ \A u \in Tasks : u # t => todo'[u] = todo[u]

LEMMA GoesMoves ==
    ASSUME PlansOK, NEW t \in Tasks, NEW s, Plan(t, s), Goes(t, s)
    PROVE  Moves(t) /\ todo'[t] = s
  BY DEF PlansOK, Goes, Moves

LEMMA DoneMoves ==
    ASSUME PlansOK, NEW t \in Tasks, todo[t] # <<>>, Done(t)
    PROVE  /\ Moves(t) /\ todo'[t] = Tail(todo[t])
           /\ \A step : Holds(todo[t], step) <=> Head(todo[t]) = step \/ Holds(todo'[t], step)
           /\ todo'[t] = <<>> => Head(todo[t]) \in Ends[t[1]]
           /\ todo'[t] # <<>> => <<Head(todo[t]), Head(todo'[t])>> \in Links[t[1]]
           /\ \A steps : EndsIn(todo[t], steps) <=>
                (IF todo'[t] = <<>> THEN Head(todo[t]) \in steps ELSE EndsIn(todo'[t], steps))
<1>1. Plan(t, todo[t])
  BY DEF PlansOK
<1>2. Plan(t, Tail(todo[t]))
  BY <1>1, PlanTail
<1>3. Goes(t, Tail(todo[t]))
  BY DEF Done, Rest
<1>4. Moves(t) /\ todo'[t] = Tail(todo[t])
  BY <1>2, <1>3, GoesMoves
<1> QED BY <1>1, <1>4, PlanTail

----------------------------------------------------------------------------
(* What keeps each part, when one task moves.                                 *)

\* The film on record is the one before, if there is one still.
SameFilm == film' # None => film # None /\ film'.number = film.number /\ film'.live = film.live

LEMMA LinkedKept ==
    ASSUME LiveInv, NEW t \in Tasks, Moves(t), UNCHANGED <<begun, calledOff, underway, change, svc>>,
           \A n \in StartIds : t = Start(n) =>
               Locked(n) /\ todo'[t] # <<>> /\ Head(todo'[t]) \notin {"Count", "CallOff", "Lock"}
    PROVE  Linked'
  BY TaskNames, TasksDiffer DEF LiveInv, LiveParts, Linked, Early, Locked, Moves

LEMMA FollowedKept ==
    ASSUME LiveInv, NEW t \in Tasks, Moves(t), UNCHANGED <<next, here>>, SameFilm,
           pnum' \in Nat, pnum' >= pnum,
           \A m \in StartIds :
               /\ t = Mpv(m) => film' = None \/ film'.number # m
               /\ t \in {Mpv(m), Display(m), Source(m)} => todo[t] # <<>>
    PROVE  FilmsFollowed'
<1>1. film' # None => film'.live /\ next' >= 1 /\ Is(Mpv(film.number), "Hear")'
  <2> SUFFICES ASSUME film' # None PROVE film'.live /\ next' >= 1 /\ Is(Mpv(film.number), "Hear")'
    OBVIOUS
  <2>1. film # None /\ film'.number = film.number /\ film'.live /\ next >= 1
        /\ Is(Mpv(film.number), "Hear") /\ film.number \in StartIds
    BY DEF SameFilm, LiveInv, LiveParts, FilmsFollowed, Recorded, StartIds
  <2>2. todo'[Mpv(film.number)] = todo[Mpv(film.number)]
    BY <2>1, TaskNames DEF Moves
  <2>3. Mpv(film'.number) = Mpv(film.number)
    BY <2>1
  <2> QED BY <2>1, <2>2, <2>3 DEF Is
<1>2. ASSUME NEW m \in StartIds
      PROVE  IF m <= next' THEN here'[m] \in 0..pnum'
             ELSE todo'[Mpv(m)] = <<>> /\ todo'[Display(m)] = <<>> /\ todo'[Source(m)] = <<>>
  <2>1. IF m <= next THEN here[m] \in 0..pnum
        ELSE todo[Mpv(m)] = <<>> /\ todo[Display(m)] = <<>> /\ todo[Source(m)] = <<>>
    BY DEF LiveInv, LiveParts, FilmsFollowed
  <2>2. pnum \in Nat /\ next \in Nat
    BY DEF LiveInv, LiveParts, HeldOK, Recorded
  <2> QED BY <2>1, <2>2, TaskNames DEF Moves
<1> QED BY <1>1, <1>2 DEF FilmsFollowed

LEMMA FinishKept ==
    ASSUME LiveInv, NEW t \in Tasks, Moves(t), UNCHANGED <<next, here>>, pnum' \in Nat, pnum' >= pnum,
           \A u \in Tasks : u # t => own'[u] = own[u],
           Holds(todo'[t], "Finish") => Holds(todo[t], "Finish") /\ own'[t] = own[t]
    PROVE  FinishLate'
<1> SUFFICES ASSUME NEW u \in Tasks, Has(u, "Finish")', own'[u] # None
             PROVE  own'[u] \in 1..next' /\ here'[own'[u]] < pnum'
  BY DEF FinishLate
<1>1. Has(u, "Finish") /\ own'[u] = own[u]
  BY DEF Has, Moves
<1>2. own[u] \in 1..next /\ here[own[u]] < pnum
  BY <1>1 DEF LiveInv, LiveParts, FinishLate
<1>3. own[u] \in StartIds /\ pnum \in Nat /\ next \in Nat
  BY <1>2, LiveStartAssumption DEF LiveInv, LiveParts, HeldOK, Recorded, StartIds
<1>4. here[own[u]] \in 0..pnum
  BY <1>2, <1>3 DEF LiveInv, LiveParts, FilmsFollowed
<1> QED BY <1>1, <1>2, <1>3, <1>4

LEMMA MatchKept ==
    ASSUME LiveInv, NEW t \in Tasks, Moves(t), pnum' \in Nat, pnum' >= pnum,
           \A u \in Tasks : u # t => own'[u] = own[u],
           Is(t, "Match")' => own'[t] \in 0..pnum' + 1
    PROVE  MatchOwned'
<1> SUFFICES ASSUME NEW u \in Tasks, u # t, Is(u, "Match")' PROVE own'[u] \in 0..pnum' + 1
  BY DEF MatchOwned
<1>1. own[u] \in 0..pnum + 1 /\ own'[u] = own[u] /\ pnum \in Nat
  BY DEF LiveInv, LiveParts, MatchOwned, HeldOK, Is, Moves
<1> QED BY <1>1

LEMMA UnitKept ==
    ASSUME LiveInv, NEW t \in Tasks, Moves(t), unit' = unit,
           Is(t, "Take") \/ Is(t, "Quit") => (Is(t, "Take") \/ Is(t, "Quit"))',
           \A n \in StartIds : t = Start(n) /\ (Is(t, "Launched") \/ Is(t, "Begin")) =>
               (Is(t, "Launched") \/ Is(t, "Begin") \/ Is(t, "Take"))',
           FilmOn => FilmOn' \/ ToQuit'
    PROVE  UnitWatched'
<1>1. ToQuit => ToQuit'
  BY DEF ToQuit, Is, Moves
<1>2. Launching => Launching' \/ ToQuit'
  <2> SUFFICES ASSUME NEW n \in StartIds, Is(Start(n), "Launched") \/ Is(Start(n), "Begin")
               PROVE  Launching' \/ ToQuit'
    BY DEF Launching
  <2>1. CASE t = Start(n)
    BY <2>1 DEF Launching, ToQuit
  <2>2. CASE t # Start(n)
    BY <2>2, TaskNames DEF Launching, Is, Moves
  <2> QED BY <2>1, <2>2
<1> QED BY <1>1, <1>2 DEF LiveInv, LiveParts, UnitWatched

LEMMA LaunchKept ==
    ASSUME LiveInv, NEW t \in Tasks, Moves(t), unit' \in {unit, None},
           Is(t, "Launch")' => unit' = None
    PROVE  LaunchAlone'
  BY TaskNames DEF LiveInv, LiveParts, LaunchAlone, Is, Moves

LEMMA HandoverKept ==
    ASSUME LiveInv, NEW t \in Tasks, Moves(t), handover' => handover, content' \in {content, None},
           pnum' \in Nat, pnum' >= pnum, FilmOn' => FilmOn,
           (Is(t, "Launched") \/ Is(t, "Begin"))' => Is(t, "Launched") \/ Is(t, "Begin")
    PROVE  HandoverOlder'
<1>1. Launching' => Launching
  BY TaskNames DEF Launching, Is, Moves
<1>2. handover => (content = None \/ content <= pnum) /\ (Launching \/ FilmOn => Older)
  BY DEF LiveInv, LiveParts, HandoverOlder
<1>3. pnum \in Nat /\ (content # None => content \in Nat)
  BY DEF LiveInv, LiveParts, HeldOK
<1> QED BY <1>1, <1>2, <1>3 DEF HandoverOlder, Older

LEMMA BackKept ==
    ASSUME LiveInv, NEW t \in Tasks, Moves(t), SameFilm, own'[Back] = own[Back],
           calledOff' = begun' => calledOff = begun,
           t = Back => ~Is(t, "StopHere") /\ (Holds(todo[t], "Finish") => Holds(todo'[t], "Finish"))
    PROVE  BackTakes'
<1> SUFFICES ASSUME calledOff = begun, film # None
             PROVE  \/ Is(Back, "StopHere")'
                    \/ Has(Back, "Finish")' /\ own[Back] = film.number
  BY DEF BackTakes, SameFilm
<1>1. \/ Is(Back, "StopHere")
      \/ Has(Back, "Finish") /\ own[Back] = film.number
  BY DEF LiveInv, LiveParts, BackTakes
<1> QED BY <1>1, TaskNames DEF Is, Has, Moves

\* A start is launching as before, if its first step says so as before.
LEMMA LaunchingKept ==
    ASSUME NEW t \in Tasks, Moves(t), todo[t] # <<>>,
           t[1] = "Start" => /\ todo'[t] # <<>>
                             /\ Head(todo[t]) \in {"Launched", "Begin"} <=>
                                Head(todo'[t]) \in {"Launched", "Begin"}
    PROVE  Launching' <=> Launching
<1>1. ASSUME NEW n \in StartIds
      PROVE  (Is(Start(n), "Launched") \/ Is(Start(n), "Begin"))'
             <=> Is(Start(n), "Launched") \/ Is(Start(n), "Begin")
  <2>1. CASE t = Start(n)
    BY <2>1, TaskNames DEF Is
  <2>2. CASE t # Start(n)
    BY <2>2, TaskNames DEF Moves, Is
  <2> QED BY <2>1, <2>2
<1> QED BY <1>1 DEF Launching

----------------------------------------------------------------------------
(* A task takes a step of its own: the starts' numbers, the lock and the      *)
(* films' followers stay as they are.                                         *)

EarlySteps == {"Count", "CallOff", "Lock"}

Walks(t) ==
    /\ Moves(t) /\ todo[t] # <<>>
    /\ UNCHANGED <<begun, calledOff, underway, change, svc, may, next, here>>
    /\ SameFilm
    /\ pnum' \in Nat /\ pnum' >= pnum
    /\ own' \in [Tasks -> Nat \cup {None}] /\ \A u \in Tasks : u # t => own'[u] = own[u]
    /\ unit' \in {unit, None}
    /\ Is(t, "Hear") => film' = None \/ t # Mpv(film'.number)
    /\ t[1] = "Start" => /\ Head(todo[t]) \notin EarlySteps
                         /\ todo'[t] # <<>> /\ Head(todo'[t]) \notin EarlySteps
    /\ Holds(todo'[t], "Finish") =>
         \/ Holds(todo[t], "Finish") /\ own'[t] = own[t]
         \/ own'[t] = Current /\ (film # None => here[film.number] < pnum')
    /\ Is(t, "Match")' => own'[t] \in 0..pnum' + 1
    /\ Is(t, "Launch")' => unit' = None

LEMMA WalkKeeps ==
    ASSUME LiveInv, NEW t \in Tasks, Walks(t)
    PROVE  /\ PlansOK' /\ Linked' /\ FilmsFollowed' /\ FinishLate' /\ MatchOwned' /\ LaunchAlone'
           /\ \/ t # Back
              \/ /\ own'[t] = own[t] /\ ~Is(t, "StopHere")
                 /\ Holds(todo[t], "Finish") => Holds(todo'[t], "Finish")
              => BackTakes'
<1> USE DEF Walks
<1>1. PlansOK'
  <2>1. ASSUME NEW u \in Tasks PROVE Plan(u, todo'[u])
    BY DEF Moves, LiveInv, LiveParts, PlansOK
  <2> QED BY <2>1 DEF Moves, LiveInv, LiveParts, PlansOK
<1>2. Linked'
  <2>1. \A n \in StartIds : t = Start(n) =>
            Locked(n) /\ todo'[t] # <<>> /\ Head(todo'[t]) \notin {"Count", "CallOff", "Lock"}
    BY TaskNames DEF Locked, EarlySteps
  <2> QED BY <2>1, LinkedKept
<1>3. FilmsFollowed'
  <2>1. \A m \in StartIds : t = Mpv(m) => film' = None \/ film'.number # m
    <3> SUFFICES ASSUME NEW m \in StartIds, t = Mpv(m), film' # None, film'.number = m PROVE FALSE
      OBVIOUS
    <3>1. Is(Mpv(film.number), "Hear") /\ film.number = m
      BY DEF SameFilm, LiveInv, LiveParts, FilmsFollowed
    <3> QED BY <3>1
  <2> QED BY <2>1, FollowedKept
<1>4. FinishLate'
  <2> SUFFICES ASSUME NEW u \in Tasks, Has(u, "Finish")', own'[u] # None
               PROVE  own'[u] \in 1..next' /\ here'[own'[u]] < pnum'
    BY DEF FinishLate
  <2>1. CASE Has(u, "Finish") /\ own'[u] = own[u]
    <3>1. own[u] \in 1..next /\ here[own[u]] < pnum
      BY <2>1 DEF LiveInv, LiveParts, FinishLate
    <3>2. own[u] \in StartIds /\ pnum \in Nat /\ next \in Nat
      BY <3>1, LiveStartAssumption DEF LiveInv, LiveParts, HeldOK, Recorded, StartIds
    <3>3. here[own[u]] \in 0..pnum
      BY <3>1, <3>2 DEF LiveInv, LiveParts, FilmsFollowed
    <3> QED BY <2>1, <3>1, <3>2, <3>3
  <2>2. CASE u = t /\ own'[t] = Current /\ (film # None => here[film.number] < pnum')
    BY <2>2 DEF Current, LiveInv, LiveParts, FilmsFollowed, Recorded
  <2> QED BY <2>1, <2>2 DEF Has, Moves
<1>5. MatchOwned'
  BY MatchKept
<1>6. LaunchAlone'
  BY LaunchKept
<1>7. ASSUME \/ t # Back
             \/ /\ own'[t] = own[t] /\ ~Is(t, "StopHere")
                /\ Holds(todo[t], "Finish") => Holds(todo'[t], "Finish")
      PROVE  BackTakes'
  <2>1. own'[Back] = own[Back]
    BY <1>7, TaskNames
  <2> QED BY <1>7, <2>1, BackKept
<1> QED BY <1>1, <1>2, <1>3, <1>4, <1>5, <1>6, <1>7

\* A start that takes a step off its plan is neither at an end nor back where it
\* began.
LEMMA DoneGoesOn ==
    ASSUME PlansOK, NEW t \in Tasks, todo[t] # <<>>, Done(t), t[1] = "Start",
           Head(todo[t]) \notin EarlySteps \cup Ends["Start"]
    PROVE  todo'[t] # <<>> /\ Head(todo'[t]) \notin EarlySteps
<1>1. todo'[t] # <<>> /\ <<Head(todo[t]), Head(todo'[t])>> \in Links["Start"]
  BY DoneMoves
<1> QED BY <1>1 DEF Links, Stop, EarlySteps

\* What the invariant says of the parts of the state, in one place.
LEMMA Held ==
    ASSUME LiveInv
    PROVE  /\ PlansOK /\ HeldOK /\ Linked /\ FilmsFollowed
           /\ pnum \in Nat /\ next \in Nat
           /\ film # None => /\ film.number \in StartIds /\ film.number = next /\ film.live
                             /\ film.number # None /\ here[film.number] \in 0..pnum
           /\ own \in [Tasks -> Nat \cup {None}] /\ DOMAIN todo = Tasks
           /\ \A u \in Tasks : Plan(u, todo[u])
           /\ content # None => content \in Nat
           /\ handover => /\ content = None \/ content <= pnum
                          /\ Launching \/ FilmOn => Older
<1>1. /\ PlansOK /\ HeldOK /\ Linked /\ FilmsFollowed /\ pnum \in Nat /\ next \in Nat
      /\ film # None => film.number = next /\ film.live /\ next >= 1 /\ next <= MaxStarts
  BY LiveStartAssumption DEF LiveInv, LiveParts, HeldOK, Recorded, FilmsFollowed
<1>2. film # None => film.number \in StartIds /\ film.number # None
  BY <1>1, LiveStartAssumption DEF StartIds
<1>3. content # None => content \in Nat
  BY <1>1 DEF HeldOK
<1> QED BY <1>1, <1>2, <1>3 DEF FilmsFollowed, PlansOK, LiveInv, LiveParts, HandoverOlder

LEMMA Kinds ==
    ASSUME NEW t \in Tasks
    PROVE  /\ t[1] \in {"Start", "Back", "Rematch", "Mpv", "Display", "Source"}
           /\ t[1] = "Back" <=> t = Back
           /\ t[1] = "Start" <=> \E n \in StartIds : t = Start(n)
           /\ t[1] = "Rematch" <=> \E n \in StartIds : t = Rematch(n)
           /\ t[1] = "Mpv" <=> \E n \in StartIds : t = Mpv(n)
           /\ t[1] = "Display" <=> \E n \in StartIds : t = Display(n)
           /\ t[1] = "Source" <=> \E n \in StartIds : t = Source(n)
<1>1. t = Back \/ \E n \in StartIds : t \in {Start(n), Rematch(n), Mpv(n), Display(n), Source(n)}
  BY TaskNames
<1> QED BY <1>1, TaskNames

\* Which task a step is of, and what comes after it.
Comes(t, h, kinds, after, end) ==
    Head(todo[t]) = h => /\ t[1] \in kinds
                         /\ todo'[t] # <<>> => Head(todo'[t]) \in after
                         /\ todo'[t] = <<>> => t[1] \in end

LEMMA DoneTo ==
    ASSUME PlansOK, NEW t \in Tasks, todo[t] # <<>>, Done(t)
    PROVE  /\ Comes(t, "Take", {"Start"}, {"Quit"}, {})
           /\ Comes(t, "Quit", {"Start", "Back", "Mpv", "Source"}, {"Stopping", "Finish", "Launch"},
                    {"Source"})
           /\ Comes(t, "Stopping", {"Start", "Back", "Mpv"}, {"Gone"}, {})
           /\ Comes(t, "Gone", {"Start", "Back", "Mpv"}, {"Cleaned"}, {})
           /\ Comes(t, "Cleaned", {"Start", "Back", "Mpv"}, {"Finish", "Receiver", "Over"}, {"Mpv"})
           /\ Comes(t, "Finish", {"Start", "Back"}, {"Stopping", "Ask"}, {"Back"})
           /\ Comes(t, "Match", {"Start", "Rematch"}, {"Matched"}, {"Rematch"})
           /\ Comes(t, "Opening", {"Display"}, {"End"}, {})
           /\ Comes(t, "End", {"Display"}, {}, {"Display"})
<1> DEFINE h == Head(todo[t])
           r == todo'[t]
<1>1. /\ r = <<>> => h \in Ends[t[1]]
      /\ r # <<>> => <<h, Head(r)>> \in Links[t[1]]
  BY DoneMoves
<1> HIDE DEF h, r
<1>2. CASE t[1] = "Start"
  BY <1>1, <1>2 DEF Links, Stop, Ends, Comes, h, r
<1>3. CASE t[1] = "Back"
  BY <1>1, <1>3 DEF Links, Stop, Ends, Comes, h, r
<1>4. CASE t[1] = "Mpv"
  BY <1>1, <1>4 DEF Links, Stop, Ends, Comes, h, r
<1>5. CASE t[1] = "Display"
  BY <1>1, <1>5 DEF Links, Stop, Ends, Comes, h, r
<1>6. CASE t[1] = "Source"
  BY <1>1, <1>6 DEF Links, Stop, Ends, Comes, h, r
<1>7. CASE t[1] = "Rematch"
  BY <1>1, <1>7 DEF Links, Stop, Ends, Comes, h, r
<1> QED BY <1>2, <1>3, <1>4, <1>5, <1>6, <1>7, Kinds

----------------------------------------------------------------------------
(* The steps of the three stops.                                              *)

LEMMA TakeKeeps == ASSUME LiveInv, NEW t \in Tasks, Take(t) PROVE LiveParts'
<1> USE Held
<1>1. /\ todo[t] # <<>> /\ Head(todo[t]) = "Take" /\ Done(t) /\ playing' = None /\ pnum' = pnum + 1
      /\ UNCHANGED <<startVars, playVars, shown, change, unit, tunerVars, matchVars, given, own, here>>
  BY DEF Take, Is, LetsGo
<1>2. /\ Moves(t) /\ (Holds(todo'[t], "Finish") => Holds(todo[t], "Finish"))
      /\ todo'[t] # <<>> /\ Head(todo'[t]) = "Quit" /\ t[1] = "Start"
  BY <1>1, DoneMoves, DoneTo DEF Comes
<1>3. Walks(t)
  BY <1>1, <1>2 DEF Walks, startVars, playVars, given, SameFilm, EarlySteps, Is
<1>4. t # Back
  BY <1>2, TaskNames
<1>5. HeldOK'
  BY <1>1 DEF HeldOK, tunerVars, matchVars
<1>6. UnitWatched'
  BY <1>2 DEF UnitWatched, ToQuit, Is
<1>7. HandoverOlder'
  BY <1>1 DEF HandoverOlder, Older, matchVars
<1> QED BY <1>3, <1>4, <1>5, <1>6, <1>7, WalkKeeps DEF LiveParts

LEMMA QuitKeeps == ASSUME LiveInv, NEW t \in Tasks, Quit(t) PROVE LiveParts'
<1> USE Held
<1>1. /\ todo[t] # <<>> /\ Head(todo[t]) = "Quit" /\ Done(t) /\ unit' = None
      /\ UNCHANGED <<startVars, playVars, shown, change, pnum, playing, tunerVars, matchVars, given,
                     own, here>>
  BY DEF Quit, Is
<1>2. /\ Moves(t) /\ (Holds(todo'[t], "Finish") <=> Holds(todo[t], "Finish"))
      /\ t[1] \in {"Start", "Back", "Mpv", "Source"}
      /\ todo'[t] # <<>> => Head(todo'[t]) \in {"Stopping", "Finish", "Launch"}
      /\ t[1] = "Start" => todo'[t] # <<>>
  BY <1>1, DoneMoves, DoneTo DEF Comes
<1>3. Walks(t)
  BY <1>1, <1>2 DEF Walks, startVars, playVars, given, SameFilm, EarlySteps, Is
<1>5. HeldOK'
  BY <1>1 DEF HeldOK, tunerVars, matchVars
<1>6. UnitWatched'
  BY <1>1 DEF UnitWatched
<1>7. HandoverOlder'
  <2>1. Launching' => Launching
    BY <1>1, <1>2, LaunchingKept
  <2>2. FilmOn' => FilmOn
    BY <1>1 DEF FilmOn, playVars
  <2> QED BY <1>1, <2>1, <2>2 DEF HandoverOlder, Older, matchVars
<1>8. BackTakes'
  BY <1>1, <1>2, <1>3, WalkKeeps DEF Is
<1> QED BY <1>3, <1>5, <1>6, <1>7, <1>8, WalkKeeps DEF LiveParts

\* A step that leaves the player and the record alone, of a task that is not
\* about to stop the player.
LEMMA QuietKeeps ==
    ASSUME LiveInv, NEW t \in Tasks, Walks(t), HeldOK', UNCHANGED <<pnum, unit, film>>,
           handover' => handover, content' \in {content, None},
           ~Is(t, "Take"), ~Is(t, "Quit"), ~Is(t, "StopHere"),
           t[1] = "Start" => (Head(todo[t]) \in {"Launched", "Begin"} <=>
                              Head(todo'[t]) \in {"Launched", "Begin"}),
           t = Back => own'[t] = own[t] /\ (Holds(todo[t], "Finish") => Holds(todo'[t], "Finish"))
    PROVE  LiveParts'
<1> USE Held
<1>1. Launching' <=> Launching
  BY LaunchingKept DEF Walks
<1>2. FilmOn' <=> FilmOn
  BY DEF FilmOn, Walks
<1>3. ToQuit => ToQuit'
  BY DEF ToQuit, Is, Walks, Moves
<1>4. UnitWatched'
  BY <1>1, <1>2, <1>3 DEF UnitWatched, LiveInv, LiveParts
<1>5. HandoverOlder'
  BY <1>1, <1>2 DEF HandoverOlder, Older
<1> QED BY <1>4, <1>5, WalkKeeps DEF LiveParts

LEMMA StoppingKeeps == ASSUME LiveInv, NEW t \in Tasks, Stopping(t) PROVE LiveParts'
<1> USE Held
<1>1. /\ todo[t] # <<>> /\ Head(todo[t]) = "Stopping"
      /\ UNCHANGED <<startVars, playVars, shown, change, playerVars, fifo, fifos, select, receiver,
                     matchVars, given, own, here>>
      /\ \/ life' = life /\ Goes(t, SubSeq(todo[t], 4, Len(todo[t])))
         \/ life' = "Stopping" /\ Done(t)
  BY DEF Stopping, Is
<1>p. Plan(t, todo[t])
  OBVIOUS
<1>2. /\ Moves(t) /\ (Holds(todo'[t], "Finish") <=> Holds(todo[t], "Finish"))
      /\ t[1] \in {"Start", "Back", "Mpv"}
      /\ todo'[t] # <<>> => Head(todo'[t]) \in {"Gone", "Finish", "Receiver", "Over"}
      /\ t[1] = "Start" => todo'[t] # <<>>
  <2>1. CASE Done(t)
    BY <1>1, <2>1, DoneMoves, DoneTo DEF Comes
  <2>2. CASE Goes(t, SubSeq(todo[t], 4, Len(todo[t])))
    <3>s. PICK s : s = todo[t]
      OBVIOUS
    <3> DEFINE r == Skipped(s)
    <3>p. Plan(t, s) /\ s # <<>> /\ Head(s) = "Stopping"
      BY <1>1, <3>s
    <3>0. t[1] \in {"Start", "Back", "Mpv"}
      BY <3>p, StepOf
    <3>1. /\ Plan(t, r)
          /\ \A step : Holds(s, step) <=> step \in {"Stopping", "Gone", "Cleaned"} \/ Holds(r, step)
          /\ r # <<>> => <<"Cleaned", Head(r)>> \in Links[t[1]]
          /\ r = <<>> => "Cleaned" \in Ends[t[1]]
      BY <3>p, <3>0, SkipMade
    <3> HIDE DEF r
    <3>2. Moves(t) /\ todo'[t] = r
      BY <2>2, <3>s, <3>1, GoesMoves DEF r, Skipped
    <3>3. r # <<>> => Head(r) \in {"Finish", "Receiver", "Over"}
      BY <3>0, <3>1 DEF Links, Stop
    <3>4. t[1] = "Start" => r # <<>>
      BY <3>1 DEF Ends
    <3> QED BY <3>s, <3>0, <3>1, <3>2, <3>3, <3>4
  <2> QED BY <1>1, <2>1, <2>2
<1>3. Walks(t)
  BY <1>1, <1>2 DEF Walks, startVars, playVars, playerVars, given, SameFilm, EarlySteps, Is
<1>4. HeldOK'
  BY <1>1 DEF HeldOK, playerVars, matchVars
<1> QED BY <1>1, <1>2, <1>3, <1>4, QuietKeeps DEF Is, playVars, playerVars, matchVars

LEMMA GoneKeeps == ASSUME LiveInv, NEW t \in Tasks, Gone(t) PROVE LiveParts'
<1> USE Held
<1>1. /\ todo[t] # <<>> /\ Head(todo[t]) = "Gone" /\ Done(t) /\ receiver' = None
      /\ UNCHANGED <<startVars, playVars, shown, change, playerVars, life, fifo, fifos, select,
                     matchVars, given, own, here>>
  BY DEF Gone, Is
<1>2. /\ Moves(t) /\ (Holds(todo'[t], "Finish") <=> Holds(todo[t], "Finish"))
      /\ t[1] \in {"Start", "Back", "Mpv"} /\ todo'[t] # <<>> /\ Head(todo'[t]) = "Cleaned"
  BY <1>1, DoneMoves, DoneTo DEF Comes
<1>3. Walks(t)
  BY <1>1, <1>2 DEF Walks, startVars, playVars, playerVars, given, SameFilm, EarlySteps, Is
<1>4. HeldOK'
  BY <1>1 DEF HeldOK, playerVars, matchVars
<1> QED BY <1>1, <1>2, <1>3, <1>4, QuietKeeps DEF Is, playVars, playerVars, matchVars

LEMMA CleanedKeeps == ASSUME LiveInv, NEW t \in Tasks, Cleaned(t) PROVE LiveParts'
<1> USE Held
<1>1. /\ todo[t] # <<>> /\ Head(todo[t]) = "Cleaned" /\ Done(t) /\ life' = "Cleaned"
      /\ UNCHANGED <<startVars, playVars, shown, change, playerVars, fifo, fifos, select, receiver,
                     matchVars, given, own, here>>
  BY DEF Cleaned, Is
<1>2. /\ Moves(t) /\ (Holds(todo'[t], "Finish") <=> Holds(todo[t], "Finish"))
      /\ t[1] \in {"Start", "Back", "Mpv"}
      /\ todo'[t] # <<>> => Head(todo'[t]) \in {"Finish", "Receiver", "Over"}
      /\ t[1] = "Start" => todo'[t] # <<>>
  BY <1>1, DoneMoves, DoneTo DEF Comes
<1>3. Walks(t)
  BY <1>1, <1>2 DEF Walks, startVars, playVars, playerVars, given, SameFilm, EarlySteps, Is
<1>4. HeldOK'
  BY <1>1 DEF HeldOK, playerVars, matchVars
<1> QED BY <1>1, <1>2, <1>3, <1>4, QuietKeeps DEF Is, playVars, playerVars, matchVars

LEMMA FinishKeeps == ASSUME LiveInv, NEW t \in Tasks, Finish(t) PROVE LiveParts'
<1> USE Held
<1>1. /\ todo[t] # <<>> /\ Head(todo[t]) = "Finish" /\ Done(t)
      /\ UNCHANGED <<startVars, next, shown, change, playerVars, tunerVars, matchVars, given, own, here>>
      /\ IF P!Playing(own[t]) THEN film' = None ELSE film' = film
  BY DEF Finish, P!Finish, Is, playVars
<1>2. /\ Moves(t) /\ (Holds(todo'[t], "Finish") => Holds(todo[t], "Finish"))
      /\ t[1] \in {"Start", "Back"}
      /\ todo'[t] # <<>> => Head(todo'[t]) \in {"Stopping", "Ask"}
      /\ t[1] = "Start" => todo'[t] # <<>>
      /\ Holds(todo[t], "Finish")
  BY <1>1, DoneMoves, DoneTo DEF Comes
<1>3. Walks(t)
  BY <1>1, <1>2 DEF Walks, startVars, playerVars, given, SameFilm, EarlySteps, Is
<1>4. HeldOK'
  BY <1>1 DEF HeldOK, playerVars, tunerVars, matchVars
<1>5. FilmOn <=> FilmOn'
  <2>1. own[t] # None => here[own[t]] < pnum
    BY <1>2 DEF LiveInv, LiveParts, FinishLate, Has
  <2>2. P!Playing(own[t]) => here[film.number] < pnum
    BY <2>1 DEF P!Playing
  <2> QED BY <1>1, <2>2 DEF FilmOn, playerVars
<1>6. Launching' <=> Launching
  BY <1>1, <1>2, LaunchingKept
<1>7. UnitWatched'
  BY <1>1, <1>2, <1>5, <1>6 DEF UnitWatched, ToQuit, Is, Moves, playerVars, LiveInv, LiveParts
<1>8. HandoverOlder'
  BY <1>1, <1>5, <1>6 DEF HandoverOlder, Older, matchVars, playerVars
<1>9. BackTakes'
  <2>1. CASE t # Back
    BY <2>1, <1>3, WalkKeeps
  <2>2. CASE t = Back
    <3> SUFFICES ASSUME calledOff = begun, film' # None PROVE FALSE
      BY <1>1 DEF BackTakes, startVars
    <3>1. film # None /\ film' = film /\ own[t] # film.number
      BY <1>1 DEF P!Playing
    <3>2. Is(Back, "StopHere") \/ own[Back] = film.number
      BY <3>1 DEF LiveInv, LiveParts, BackTakes
    <3> QED BY <1>1, <2>2, <3>1, <3>2 DEF Is
  <2> QED BY <2>1, <2>2
<1> QED BY <1>3, <1>4, <1>7, <1>8, <1>9, WalkKeeps DEF LiveParts

LEMMA MatchKeeps == ASSUME LiveInv, NEW t \in Tasks, Match(t) PROVE LiveParts'
<1> USE Held
<1>1. /\ todo[t] # <<>> /\ Head(todo[t]) = "Match" /\ Done(t)
      /\ UNCHANGED <<startVars, playVars, shown, change, playerVars, tunerVars, given, own, here>>
      /\ \/ content' \in {own[t], content} /\ handover' = FALSE
         \/ content' = content /\ handover' = handover
  BY DEF Match, Matched, Is, matchVars
<1>2. /\ Moves(t) /\ (Holds(todo'[t], "Finish") => Holds(todo[t], "Finish"))
      /\ t[1] \in {"Start", "Rematch"}
      /\ todo'[t] # <<>> => Head(todo'[t]) = "Matched"
      /\ t[1] = "Start" => todo'[t] # <<>>
  BY <1>1, DoneMoves, DoneTo DEF Comes
<1>3. Walks(t)
  BY <1>1, <1>2 DEF Walks, startVars, playVars, playerVars, given, SameFilm, EarlySteps, Is
<1>4. own[t] \in 0..pnum + 1
  BY <1>1 DEF LiveInv, LiveParts, MatchOwned, Is
<1>5. HeldOK'
  BY <1>1, <1>4 DEF HeldOK, playerVars, tunerVars
<1>6. Launching' <=> Launching
  BY <1>1, <1>2, LaunchingKept
<1>7. FilmOn' <=> FilmOn
  BY <1>1 DEF FilmOn, playVars, playerVars
<1>8. UnitWatched'
  BY <1>1, <1>2, <1>6, <1>7 DEF UnitWatched, ToQuit, Is, Moves, playerVars, LiveInv, LiveParts
<1>9. HandoverOlder'
  BY <1>1, <1>6, <1>7 DEF HandoverOlder, Older, playerVars
<1>10. BackTakes'
  BY <1>2, <1>3, Kinds, WalkKeeps
<1> QED BY <1>3, <1>5, <1>8, <1>9, <1>10, WalkKeeps DEF LiveParts

LEMMA StopHereKeeps == ASSUME LiveInv, NEW t \in Tasks, StopHere(t) PROVE LiveParts'
<1> USE Held
<1> DEFINE receives == LiveOn \/ playing # None
<1>1. /\ todo[t] # <<>> /\ Head(todo[t]) = "StopHere"
      /\ Goes(t, StopHerePlan(receives, Tail(todo[t])))
      /\ own' = [own EXCEPT ![t] = Current] /\ playing' = None /\ pnum' = pnum + 1
      /\ handover' = FALSE /\ content' \in {content, None}
      /\ IF film = None THEN film' = film
         ELSE \E intent \in P!Intents : film' = [film EXCEPT !.intent = intent]
      /\ UNCHANGED <<startVars, next, shown, change, unit, tunerVars, given, here>>
  BY DEF StopHere, Is, HandoverFailed, Intended, P!Intend, LetsGo, StopHerePlan, Rest, playVars, P!Intents
<1>s. PICK s : s = todo[t]
  OBVIOUS
<1>r. receives \in BOOLEAN
  OBVIOUS
<1> HIDE DEF receives
<1>2. /\ Moves(t) /\ t[1] \in {"Start", "Back"}
      /\ todo'[t] # <<>> /\ Head(todo'[t]) = "Quit" /\ Holds(todo'[t], "Finish")
  <2>1. Plan(t, s) /\ s # <<>> /\ Head(s) = "StopHere" /\ t[1] \in {"Start", "Back"}
    BY <1>1, <1>s, StepOf
  <2> DEFINE p == StopHerePlan(receives, Tail(s))
  <2>2. /\ Plan(t, p) /\ p # <<>> /\ Head(p) = "Quit" /\ Holds(p, "Finish")
    BY <1>r, <2>1, StopHereMade
  <2>3. Goes(t, p)
    BY <1>1, <1>s
  <2> HIDE DEF p
  <2> QED BY <2>1, <2>2, <2>3, GoesMoves
<1>3. /\ own' \in [Tasks -> Nat \cup {None}] /\ own'[t] = Current
      /\ \A u \in Tasks : u # t => own'[u] = own[u]
  BY <1>1 DEF Current
<1>4. SameFilm /\ (film' = None <=> film = None) /\ (film # None => film'.number = film.number)
  <2>1. film # None => film \in P!Film
    BY DEF LiveInv, Recorded
  <2>2. ASSUME film # None, NEW intent \in P!Intents, film' = [film EXCEPT !.intent = intent]
        PROVE  film'.number = film.number /\ film'.live = film.live /\ film' # None
    <3>1. film' \in P!Film
      BY <2>1, <2>2 DEF P!Film
    <3> QED BY <2>1, <2>2, <3>1, NoneAssumption DEF P!Film
  <2> QED BY <1>1, <2>2 DEF SameFilm
<1>5. Walks(t)
  BY <1>1, <1>2, <1>3, <1>4 DEF Walks, startVars, given, EarlySteps, Is
<1>6. HeldOK'
  <2>1. /\ playing' = None /\ pnum' = pnum + 1 /\ handover' = FALSE
        /\ content' \in {content, None} /\ UNCHANGED <<shown, unit, tunerVars>>
    BY <1>1
  <2>2. content' \in 0..pnum' + 1 \cup {None} /\ pnum' \in Nat
    BY <2>1 DEF HeldOK
  <2>3. UNCHANGED <<shown, unit, life, fifo, fifos, select, receiver>>
    BY <2>1 DEF tunerVars
  <2> HIDE Held
  <2>4. HeldOK
    BY Held
  <2> QED BY <2>1, <2>2, <2>3, <2>4 DEF HeldOK
<1>7. UnitWatched'
  BY <1>2 DEF UnitWatched, ToQuit, Is
<1>8. HandoverOlder'
  BY <1>1 DEF HandoverOlder
<1>9. BackTakes'
  <2>1. CASE t # Back
    BY <2>1, <1>5, WalkKeeps
  <2>2. CASE t = Back
    BY <2>2, <1>2, <1>3, <1>4 DEF BackTakes, Has, Current
  <2> QED BY <2>1, <2>2
<1> QED BY <1>5, <1>6, <1>7, <1>8, <1>9, WalkKeeps DEF LiveParts

----------------------------------------------------------------------------
(* The followers of a film.                                                   *)

LEMMA HearKeeps == ASSUME LiveInv, NEW m \in StartIds, Hear(m) PROVE LiveParts'
<1> DEFINE t == Mpv(m)
<1> USE Held
<1>0. t \in Tasks /\ t[1] = "Mpv" /\ t # Back
  BY TaskNames
<1>1. /\ todo[t] # <<>> /\ Head(todo[t]) = "Hear" /\ (unit = None \/ pnum # here[m])
      /\ IF P!Playing(m) THEN film' = None ELSE film' = film
      /\ \/ /\ P!Playing(m) /\ pnum = here[m] /\ playing' = None /\ pnum' = pnum + 1
            /\ Goes(t, <<"Quit">> \o StopReceiver)
         \/ playing' = playing /\ pnum' = pnum /\ Goes(t, <<>>)
      /\ UNCHANGED <<startVars, next, shown, change, unit, tunerVars, matchVars, given, own, here>>
  BY DEF Hear, P!Finish, Is, playVars, LetsGo
<1>p. /\ Plan(t, <<"Quit">> \o StopReceiver) /\ ~Holds(<<"Quit">> \o StopReceiver, "Finish")
      /\ <<"Quit">> \o StopReceiver # <<>> /\ Head(<<"Quit">> \o StopReceiver) = "Quit"
  <2> DEFINE s == <<"Quit">> \o StopReceiver
  <2>1. /\ s \in Seq(Steps) /\ Len(s) = 4 /\ Head(s) = s[1]
        /\ s[1] = "Quit" /\ s[2] = "Stopping" /\ s[3] = "Gone" /\ s[4] = "Cleaned" /\ s # <<>>
    BY DEF StopReceiver, Steps
  <2> HIDE DEF s
  <2>2. Plan(t, s)
    BY <1>0, <2>1 DEF Plan, Links, Ends, Stop
  <2>3. ~Holds(s, "Finish")
    BY <2>1 DEF Holds
  <2> QED BY <2>1, <2>2, <2>3 DEF s
<1> HIDE DEF t
<1>2. /\ Moves(t) /\ ~Holds(todo'[t], "Finish")
      /\ todo'[t] # <<>> => Head(todo'[t]) = "Quit"
      /\ todo'[t] = <<>> => pnum' = pnum
  <2>1. CASE Goes(t, <<>>) /\ pnum' = pnum
    BY <1>0, <2>1, EmptyPlan, GoesMoves
  <2>2. CASE Goes(t, <<"Quit">> \o StopReceiver)
    BY <1>0, <1>p, <2>2, GoesMoves
  <2>3. (Goes(t, <<>>) /\ pnum' = pnum) \/ Goes(t, <<"Quit">> \o StopReceiver)
    BY <1>1
  <2> QED BY <2>1, <2>2, <2>3
<1>3. Walks(t)
  <2>1. SameFilm /\ pnum' \in Nat /\ pnum' >= pnum
    BY <1>1 DEF SameFilm, given
  <2>2. Is(t, "Hear") => film' = None \/ t # Mpv(film'.number)
    <3>1. ~P!Playing(m) => film' = film /\ (film = None \/ film.number # m)
      BY <1>1 DEF P!Playing
    <3>2. P!Playing(m) => film' = None
      BY <1>1
    <3> QED BY <3>1, <3>2, TasksDiffer DEF t
  <2>3. /\ todo[t] # <<>> /\ unit' = unit /\ own' = own
        /\ UNCHANGED <<begun, calledOff, underway, change, svc, may, next, here>>
    BY <1>1 DEF startVars, given
  <2>4. own' \in [Tasks -> Nat \cup {None}]
    BY <2>3
  <2>5. ~Is(t, "Match")' /\ ~Is(t, "Launch")' /\ t[1] # "Start"
    BY <1>0, <1>2 DEF Is
  <2> QED BY <1>2, <2>1, <2>2, <2>3, <2>4, <2>5 DEF Walks
<1>4. HeldOK'
  BY <1>1 DEF HeldOK, tunerVars, matchVars
<1>5. FilmOn' => FilmOn
  BY <1>1, <1>2 DEF FilmOn, P!Playing
<1>6. Launching' <=> Launching
  BY <1>0, <1>1, <1>2, LaunchingKept
<1>7. UnitWatched'
  <2>1. ToQuit => ToQuit'
    BY <1>0, <1>1, <1>2 DEF ToQuit, Is, Moves
  <2>2. CASE todo'[t] # <<>>
    BY <1>0, <1>2, <2>2 DEF UnitWatched, ToQuit, Is
  <2>3. CASE todo'[t] = <<>>
    <3>1. FilmOn /\ unit # None => FilmOn'
      BY <1>1, <1>2, <2>3 DEF FilmOn, P!Playing
    <3> QED BY <1>1, <1>6, <2>1, <3>1 DEF UnitWatched, LiveInv, LiveParts
  <2> QED BY <2>2, <2>3
<1>8. HandoverOlder'
  <2>1. pnum' >= pnum /\ UNCHANGED <<content, handover>>
    BY <1>1 DEF matchVars
  <2> QED BY <1>5, <1>6, <2>1, <1>1 DEF HandoverOlder, Older
<1> QED BY <1>0, <1>3, <1>4, <1>7, <1>8, WalkKeeps DEF LiveParts

LEMMA OpeningKeeps == ASSUME LiveInv, NEW m \in StartIds, Opening(m) PROVE LiveParts'
<1> DEFINE t == Display(m)
<1> USE Held
<1>0. t \in Tasks /\ t[1] = "Display" /\ t # Back
  BY TaskNames
<1>1. /\ todo[t] # <<>> /\ Head(todo[t]) = "Opening"
      /\ \/ Goes(t, <<>>) /\ content' = content /\ handover' = handover
         \/ Done(t) /\ content' = content /\ handover' = handover
         \/ Done(t) /\ content' \in {here[m], content} /\ handover' = FALSE
      /\ UNCHANGED <<startVars, playVars, shown, change, playerVars, tunerVars, given, own, here>>
  BY DEF Opening, Matched, Is, matchVars
<1> HIDE DEF t
<1>2. /\ Moves(t) /\ (Holds(todo'[t], "Finish") => Holds(todo[t], "Finish"))
      /\ todo'[t] # <<>> => Head(todo'[t]) = "End"
  <2>1. CASE Goes(t, <<>>)
    BY <1>0, <2>1, EmptyPlan, GoesMoves
  <2>2. CASE Done(t)
    BY <1>0, <1>1, <2>2, DoneMoves, DoneTo DEF Comes
  <2> QED BY <1>1, <2>1, <2>2
<1>3. Walks(t)
  BY <1>0, <1>1, <1>2 DEF Walks, startVars, playVars, playerVars, given, SameFilm, Is
<1>4. here[m] \in 0..pnum
  <2>1. todo[Display(m)] # <<>>
    BY <1>1 DEF t
  <2> QED BY <2>1 DEF FilmsFollowed
<1>5. HeldOK'
  <2>1. here[m] \in 0..pnum + 1
    BY <1>4
  <2>2. content \in 0..pnum + 1 \cup {None} /\ handover \in BOOLEAN
    BY DEF HeldOK
  <2>3. content' \in 0..pnum + 1 \cup {None} /\ handover' \in BOOLEAN
    BY <1>1, <2>1, <2>2
  <2> QED BY <1>1, <2>3 DEF HeldOK, playerVars, tunerVars
<1>6. Launching' <=> Launching
  BY <1>0, <1>1, <1>2, LaunchingKept
<1>7. FilmOn' <=> FilmOn
  BY <1>1 DEF FilmOn, playVars, playerVars
<1>8. UnitWatched'
  BY <1>1, <1>2, <1>6, <1>7 DEF UnitWatched, ToQuit, Is, Moves, playerVars, LiveInv, LiveParts
<1>9. HandoverOlder'
  BY <1>1, <1>6, <1>7 DEF HandoverOlder, Older, playerVars
<1> QED BY <1>0, <1>3, <1>5, <1>8, <1>9, WalkKeeps DEF LiveParts

LEMMA EndKeeps == ASSUME LiveInv, NEW m \in StartIds, End(m) PROVE LiveParts'
<1> DEFINE t == Display(m)
<1> USE Held
<1>0. t \in Tasks /\ t[1] = "Display" /\ t # Back
  BY TaskNames
<1>1. /\ todo[t] # <<>> /\ Head(todo[t]) = "End" /\ Done(t)
      /\ content' \in {content, None} /\ handover' = handover
      /\ UNCHANGED <<startVars, playVars, shown, change, playerVars, tunerVars, given, own, here>>
  BY DEF End, ContentEnds, Is
<1> HIDE DEF t
<1>2. /\ Moves(t) /\ (Holds(todo'[t], "Finish") => Holds(todo[t], "Finish"))
      /\ todo'[t] = <<>>
  BY <1>0, <1>1, DoneMoves, DoneTo DEF Comes
<1>3. Walks(t)
  BY <1>0, <1>1, <1>2 DEF Walks, startVars, playVars, playerVars, given, SameFilm, Is
<1>4. HeldOK'
  BY <1>1 DEF HeldOK, playerVars, tunerVars
<1> QED BY <1>0, <1>1, <1>3, <1>4, QuietKeeps DEF Is, playVars, playerVars

LEMMA WatchKeeps == ASSUME LiveInv, NEW m \in StartIds, Watch(m) PROVE LiveParts'
<1> DEFINE t == Source(m)
<1> USE Held
<1>0. t \in Tasks /\ t[1] = "Source" /\ t # Back
  BY TaskNames
<1>1. /\ todo[t] # <<>> /\ Head(todo[t]) = "Watch"
      /\ \/ Goes(t, <<>>) /\ film' = film /\ playing' = playing /\ pnum' = pnum
         \/ /\ Goes(t, <<"Quit">>) /\ playing' = None /\ pnum' = pnum + 1
            /\ IF P!Playing(m)
               THEN film' = IF film.sourceEnd = None THEN [film EXCEPT !.sourceEnd = "Broken"] ELSE film
               ELSE film' = film
      /\ UNCHANGED <<startVars, next, shown, change, unit, tunerVars, matchVars, given, own, here>>
  BY DEF Watch, P!SourceEnded, Is, LetsGo, playVars
<1> HIDE DEF t
<1>p. /\ Plan(t, <<"Quit">>) /\ ~Holds(<<"Quit">>, "Finish")
      /\ <<"Quit">> # <<>> /\ Head(<<"Quit">>) = "Quit"
  BY <1>0 DEF Plan, Holds, Ends, Steps
<1>2. /\ Moves(t) /\ ~Holds(todo'[t], "Finish")
      /\ \/ todo'[t] = <<>> /\ pnum' = pnum
         \/ todo'[t] # <<>> /\ Head(todo'[t]) = "Quit"
  <2>0. (Goes(t, <<>>) /\ pnum' = pnum) \/ Goes(t, <<"Quit">>)
    BY <1>1
  <2>1. CASE Goes(t, <<>>) /\ pnum' = pnum
    BY <1>0, <2>1, EmptyPlan, GoesMoves
  <2>2. CASE Goes(t, <<"Quit">>)
    BY <1>0, <1>p, <2>2, GoesMoves
  <2> QED BY <2>0, <2>1, <2>2
<1>3. SameFilm /\ (film' = None <=> film = None) /\ (film # None => film'.number = film.number)
  <2>1. film # None => film \in P!Film
    BY DEF LiveInv, Recorded
  <2>2. ASSUME film # None, film' = [film EXCEPT !.sourceEnd = "Broken"]
        PROVE  film'.number = film.number /\ film'.live = film.live /\ film' # None
    <3>1. film' \in P!Film
      BY <2>1, <2>2 DEF P!Film, P!SourceEnds
    <3> QED BY <2>1, <2>2, <3>1, NoneAssumption DEF P!Film
  <2> QED BY <1>1, <2>2 DEF SameFilm, P!Playing
<1>4. Walks(t)
  BY <1>0, <1>1, <1>2, <1>3, TasksDiffer DEF Walks, startVars, given, Is
<1>5. HeldOK'
  BY <1>1 DEF HeldOK, tunerVars, matchVars
<1>6. Launching' <=> Launching
  BY <1>0, <1>1, <1>2, LaunchingKept
<1>7. FilmOn' => FilmOn /\ pnum' = pnum
  BY <1>1, <1>3 DEF FilmOn
<1>8. UnitWatched'
  <2>1. ToQuit => ToQuit'
    BY <1>0, <1>1, <1>2 DEF ToQuit, Is, Moves
  <2>2. CASE todo'[t] # <<>>
    BY <1>0, <1>2, <2>2 DEF UnitWatched, ToQuit, Is
  <2>3. CASE todo'[t] = <<>>
    <3>1. FilmOn => FilmOn'
      BY <1>1, <1>2, <1>3, <2>3 DEF FilmOn
    <3> QED BY <1>1, <1>6, <2>1, <3>1 DEF UnitWatched, LiveInv, LiveParts
  <2> QED BY <2>2, <2>3
<1>9. HandoverOlder'
  <2>1. pnum' >= pnum /\ UNCHANGED <<content, handover>>
    BY <1>1 DEF matchVars
  <2> QED BY <1>7, <1>6, <2>1, <1>1 DEF HandoverOlder, Older
<1> QED BY <1>0, <1>4, <1>5, <1>8, <1>9, WalkKeeps DEF LiveParts

----------------------------------------------------------------------------
(* The steps of a start that is under way.                                    *)

LEMMA OneMade ==
    ASSUME NEW t, t[1] = "Start", NEW step \in {"Over", "Decide", "Retry"}
    PROVE  Made(t, <<step>>, step, {step}, step)
<1> DEFINE s == <<step>>
<1>1. s \in Seq(Steps) /\ Len(s) = 1 /\ Head(s) = step /\ s[1] = step /\ s # <<>>
  BY DEF Steps
<1> HIDE DEF s
<1>2. Plan(t, s)
  BY <1>1 DEF Plan, Ends
<1>3. \A x : Holds(s, x) <=> x = step
  BY <1>1 DEF Holds
<1>4. \A ends : EndsIn(s, ends) <=> step \in ends
  BY <1>1 DEF EndsIn
<1> QED BY <1>1, <1>2, <1>3, <1>4 DEF Made, s

LEMMA SwitchMade ==
    ASSUME NEW t, t[1] = "Start"
    PROVE  Made(t, <<"Switch", "Reload">>, "Switch", {"Switch", "Reload"}, "Reload")
<1> DEFINE s == <<"Switch", "Reload">>
<1>1. /\ s \in Seq(Steps) /\ Len(s) = 2 /\ Head(s) = s[1] /\ s # <<>>
      /\ s[1] = "Switch" /\ s[2] = "Reload"
  BY DEF Steps
<1> HIDE DEF s
<1>2. Plan(t, s)
  BY <1>1 DEF Plan, Links, Ends
<1>3. \A x : Holds(s, x) <=> x \in {"Switch", "Reload"}
  BY <1>1 DEF Holds
<1>4. \A ends : EndsIn(s, ends) <=> "Reload" \in ends
  BY <1>1 DEF EndsIn
<1> QED BY <1>1, <1>2, <1>3, <1>4 DEF Made, s

\* What a plan has still before it, of the steps the invariant asks about.
Bears(s, steps) ==
    /\ Holds(s, "StopHere") <=> "StopHere" \in steps
    /\ Holds(s, "Finish") <=> "Finish" \in steps
    /\ Holds(s, "Gone") <=> "Gone" \in steps
    /\ Holds(s, "HandSwitch") <=> "HandSwitch" \in steps
\* It ends with a film; it ends with a player's film.
Films(s)  == EndsIn(s, {"Matched", "Begin"})
Begins(s) == EndsIn(s, {"Begin"})

\* A start turns to a plan of its own making: it gives up, is over, or starts
\* everything anew.
LEMMA GivesUp ==
    ASSUME PlansOK, NEW n \in StartIds, GiveUp(n)
    PROVE  /\ Moves(Start(n)) /\ todo'[Start(n)] # <<>> /\ Head(todo'[Start(n)]) = "Stopping"
           /\ Bears(todo'[Start(n)], {"Gone"})
           /\ ~Films(todo'[Start(n)]) /\ ~Begins(todo'[Start(n)])
<1>1. Start(n) \in Tasks /\ Start(n)[1] = "Start"
  BY TaskNames
<1>2. Made(Start(n), GiveUpPlan, "Stopping", {"Stopping", "Gone", "Cleaned", "Over"}, "Over")
  BY <1>1, GiveUpMade
<1>3. Goes(Start(n), GiveUpPlan)
  BY DEF GiveUp, GiveUpPlan
<1>4. Moves(Start(n)) /\ todo'[Start(n)] = GiveUpPlan
  BY <1>1, <1>2, <1>3, GoesMoves DEF Made
<1> QED BY <1>2, <1>4 DEF Made, Bears, Films, Begins

LEMMA IsOver ==
    ASSUME PlansOK, NEW n \in StartIds, Goes(Start(n), <<"Over">>)
    PROVE  /\ Moves(Start(n)) /\ todo'[Start(n)] # <<>> /\ Head(todo'[Start(n)]) = "Over"
           /\ Bears(todo'[Start(n)], {}) /\ ~Films(todo'[Start(n)]) /\ ~Begins(todo'[Start(n)])
<1>1. Start(n) \in Tasks /\ Start(n)[1] = "Start"
  BY TaskNames
<1>2. Made(Start(n), <<"Over">>, "Over", {"Over"}, "Over")
  BY <1>1, OneMade
<1>3. Goes(Start(n), <<"Over">>)
  OBVIOUS
<1>4. Moves(Start(n)) /\ todo'[Start(n)] = <<"Over">>
  BY <1>1, <1>2, <1>3, GoesMoves DEF Made
<1> QED BY <1>2, <1>4 DEF Made, Bears, Films, Begins

LEMMA IsCold ==
    ASSUME PlansOK, NEW n \in StartIds, Goes(Start(n), ColdStart)
    PROVE  /\ Moves(Start(n)) /\ todo'[Start(n)] # <<>> /\ Head(todo'[Start(n)]) = "StopHere"
           /\ Bears(todo'[Start(n)], {"StopHere", "Gone"})
           /\ Films(todo'[Start(n)]) /\ ~Begins(todo'[Start(n)])
<1>1. Start(n) \in Tasks /\ Start(n)[1] = "Start"
  BY TaskNames
<1>2. Made(Start(n), ColdStart, "StopHere", {"StopHere", "Stopping", "Gone", "Cleaned",
                                              "Receiver", "Up", "Opened", "Rate", "Match",
                                              "Matched"}, "Matched")
  BY <1>1, ColdMade
<1>3. Goes(Start(n), ColdStart)
  OBVIOUS
<1>4. Moves(Start(n)) /\ todo'[Start(n)] = ColdStart
  BY <1>1, <1>2, <1>3, GoesMoves DEF Made
<1> QED BY <1>2, <1>4 DEF Made, Bears, Films, Begins

LEMMA IsRetry ==
    ASSUME PlansOK, NEW n \in StartIds, Goes(Start(n), <<"Retry">>)
    PROVE  /\ Moves(Start(n)) /\ todo'[Start(n)] # <<>> /\ Head(todo'[Start(n)]) = "Retry"
           /\ Bears(todo'[Start(n)], {}) /\ ~Films(todo'[Start(n)]) /\ ~Begins(todo'[Start(n)])
<1>1. Start(n) \in Tasks /\ Start(n)[1] = "Start"
  BY TaskNames
<1>2. Made(Start(n), <<"Retry">>, "Retry", {"Retry"}, "Retry")
  BY <1>1, OneMade
<1>3. Goes(Start(n), <<"Retry">>)
  OBVIOUS
<1>4. Moves(Start(n)) /\ todo'[Start(n)] = <<"Retry">>
  BY <1>1, <1>2, <1>3, GoesMoves DEF Made
<1> QED BY <1>2, <1>4 DEF Made, Bears, Films, Begins

\* A start that takes the next step of what is left of its plan.
After ==
    [Switch |-> "Reload", Ask |-> "HandSwitch", HandSwitch |-> "Opened", Receiver |-> "Up",
     Up |-> "Opened", Opened |-> "Rate", Rate |-> "Match", Match |-> "Matched",
     Launch |-> "Launched", Launched |-> "Begin"]

LEMMA GoesOn ==
    ASSUME PlansOK, NEW n \in StartIds, todo[Start(n)] # <<>>, Head(todo[Start(n)]) \in DOMAIN After,
           Done(Start(n))
    PROVE  /\ Moves(Start(n)) /\ todo'[Start(n)] # <<>>
           /\ Head(todo'[Start(n)]) = After[Head(todo[Start(n)])]
           /\ Bears(todo'[Start(n)], IF Head(todo[Start(n)]) = "Ask" THEN {"HandSwitch"} ELSE {})
           /\ Films(todo'[Start(n)]) <=> Films(todo[Start(n)])
           /\ Begins(todo'[Start(n)]) <=> Begins(todo[Start(n)])
<1> DEFINE t == Start(n)
<1>1. t \in Tasks /\ t[1] = "Start"
  BY TaskNames
<1> HIDE DEF t
<1>2. /\ Moves(t)
      /\ todo'[t] = <<>> => Head(todo[t]) \in Ends["Start"]
      /\ todo'[t] # <<>> => <<Head(todo[t]), Head(todo'[t])>> \in Links["Start"]
      /\ \A steps : EndsIn(todo[t], steps) <=>
            (IF todo'[t] = <<>> THEN Head(todo[t]) \in steps ELSE EndsIn(todo'[t], steps))
  BY <1>1, DoneMoves DEF t
<1>3. todo'[t] # <<>> /\ Head(todo'[t]) = After[Head(todo[t])]
  BY <1>2 DEF Ends, Links, Stop, After, t
<1>4. After[Head(todo[t])] \in DOMAIN Left
  BY DEF After, Left, t
<1>5. LeftIs(todo'[t])
  BY <1>1, <1>2, <1>3, <1>4, StartLeft DEF Moves
<1>6. /\ Films(todo'[t]) <=> Films(todo[t])
      /\ Begins(todo'[t]) <=> Begins(todo[t])
  BY <1>2, <1>3 DEF Films, Begins
<1>7. Bears(todo'[t], IF Head(todo[t]) = "Ask" THEN {"HandSwitch"} ELSE {})
  <2>1. \A step : Holds(todo'[t], step) <=> step \in Left[After[Head(todo[t])]]
    BY <1>3, <1>5 DEF LeftIs
  <2> QED BY <2>1 DEF Left, After, Bears, t
<1> QED BY <1>2, <1>3, <1>6, <1>7 DEF t

\* A quiet step of a start that is under way, to a plan with no film to take
\* off the record.
LEMMA StartKeeps ==
    ASSUME LiveInv, NEW n \in StartIds, Moves(Start(n)),
           todo[Start(n)] # <<>>, Head(todo[Start(n)]) \notin EarlySteps \cup {"Take", "Quit", "StopHere"},
           todo'[Start(n)] # <<>>, Head(todo'[Start(n)]) \notin EarlySteps \cup {"Launch"},
           ~Holds(todo'[Start(n)], "Finish"),
           Head(todo[Start(n)]) \in {"Launched", "Begin"}
               <=> Head(todo'[Start(n)]) \in {"Launched", "Begin"},
           own' \in [Tasks -> Nat \cup {None}],
           \A u \in Tasks : u # Start(n) => own'[u] = own[u],
           Head(todo'[Start(n)]) = "Match" => own'[Start(n)] \in 0..pnum + 1,
           UNCHANGED <<startVars, playVars, change, pnum, unit, given, here>>,
           handover' => handover, content' \in {content, None}, HeldOK'
    PROVE  LiveParts'
<1> DEFINE t == Start(n)
<1>1. t \in Tasks /\ t[1] = "Start" /\ t # Back
  BY TaskNames
<1>2. Walks(t)
  <2>1. pnum' \in Nat /\ pnum' >= pnum /\ SameFilm
    BY Held DEF SameFilm, playVars
  <2>2. t # Mpv(film'.number)
    BY TasksDiffer
  <2> QED BY <1>1, <2>1, <2>2 DEF Walks, startVars, playVars, given, EarlySteps, Is
<1>3. UNCHANGED <<pnum, unit, film>>
  BY DEF playVars
<1>4. ~Is(t, "Take") /\ ~Is(t, "Quit") /\ ~Is(t, "StopHere")
  BY DEF Is
<1> HIDE DEF t
<1> QED BY <1>1, <1>2, <1>3, <1>4, QuietKeeps DEF t

LEMMA AskKeeps == ASSUME LiveInv, NEW n \in StartIds, Ask(n) PROVE LiveParts'
<1> DEFINE t == Start(n)
<1>0. t \in Tasks /\ svc[n] \in Channels /\ own \in [Tasks -> Nat \cup {None}] /\ PlansOK /\ HeldOK
  <2>1. t \in Tasks /\ todo[t] # <<>>
    BY TaskNames DEF Ask, Is
  <2> QED BY <2>1, Held DEF Linked
<1>1. /\ todo[t] # <<>> /\ Head(todo[t]) = "Ask"
      /\ UNCHANGED <<startVars, playVars, shown, change, playerVars, given, own, here>>
      /\ \/ HandoverFailed /\ Goes(t, ColdStart) /\ UNCHANGED tunerVars
         \/ Select(n) /\ Done(t) /\ UNCHANGED <<life, receiver, matchVars>>
  BY DEF Ask, Is
<1>2. /\ Moves(t) /\ todo'[t] # <<>> /\ Head(todo'[t]) \in {"StopHere", "HandSwitch"}
      /\ ~Holds(todo'[t], "Finish")
  <2>1. CASE Goes(t, ColdStart)
    BY <1>0, <2>1, IsCold DEF Bears
  <2>2. CASE Done(t)
    BY <1>0, <1>1, <2>2, GoesOn DEF After, Bears
  <2> QED BY <1>1, <2>1, <2>2
<1>3. HeldOK' /\ (handover' => handover) /\ content' \in {content, None}
  <2>1. CASE HandoverFailed /\ UNCHANGED tunerVars
    BY <1>0, <1>1, <2>1 DEF HeldOK, HandoverFailed, playerVars, tunerVars
  <2>2. CASE Select(n) /\ UNCHANGED <<life, receiver, matchVars>>
    <3>1. /\ fifos' \in Nat /\ fifo' \in 0..fifos' /\ fifos' = fifos + 1
          /\ select' \in Services /\ select'.fifo <= fifos'
      BY <1>0, <2>2 DEF HeldOK, Select, Services
    <3>2. unit' \in 0..fifos' \cup {None}
      BY <1>0, <1>1, <3>1 DEF HeldOK, playerVars
    <3>3. receiver' # None => /\ receiver' \in [service : Channels, fifo : Nat, ended : BOOLEAN]
                              /\ receiver'.fifo <= fifos'
      BY <1>0, <2>2, <3>1 DEF HeldOK
    <3> QED BY <1>0, <1>1, <2>2, <3>1, <3>2, <3>3 DEF HeldOK, playerVars, matchVars
  <2> QED BY <1>1, <2>1, <2>2
<1> QED BY <1>0, <1>1, <1>2, <1>3, StartKeeps DEF EarlySteps, playerVars

LEMMA SwitchKeeps == ASSUME LiveInv, NEW n \in StartIds, Switch(n) PROVE LiveParts'
<1> DEFINE t == Start(n)
<1>0. t \in Tasks /\ own \in [Tasks -> Nat \cup {None}] /\ PlansOK /\ HeldOK
  BY TaskNames, Held
<1>1. /\ todo[t] # <<>> /\ Head(todo[t]) \in {"Switch", "HandSwitch"}
      /\ UNCHANGED <<startVars, playVars, shown, change, playerVars, fifo, fifos, select, receiver,
                     given, own, here>>
      /\ life' \in {life, "Starting"} /\ (HandoverFailed \/ UNCHANGED matchVars)
      /\ Goes(t, <<"Over">>) \/ Done(t) \/ Goes(t, <<"Retry">>) \/ Goes(t, ColdStart)
  BY DEF Switch, Is
<1>2. /\ Moves(t) /\ todo'[t] # <<>>
      /\ Head(todo'[t]) \in {"Over", "Reload", "Opened", "Retry", "StopHere"}
      /\ ~Holds(todo'[t], "Finish")
  <2>1. CASE Goes(t, <<"Over">>)
    BY <1>0, <2>1, IsOver DEF Bears
  <2>2. CASE Done(t)
    BY <1>0, <1>1, <2>2, GoesOn DEF After, Bears
  <2>3. CASE Goes(t, <<"Retry">>)
    BY <1>0, <2>3, IsRetry DEF Bears
  <2>4. CASE Goes(t, ColdStart)
    BY <1>0, <2>4, IsCold DEF Bears
  <2> QED BY <1>1, <2>1, <2>2, <2>3, <2>4
<1>3. HeldOK' /\ (handover' => handover) /\ content' \in {content, None}
  <2>1. content' \in {content, None} /\ handover' \in {handover, FALSE}
    BY <1>1 DEF HandoverFailed, matchVars
  <2>2. content' \in 0..pnum + 1 \cup {None} /\ handover' \in BOOLEAN
    BY <1>0, <2>1 DEF HeldOK
  <2>3. (handover' => handover) /\ life' \in {life, "Starting"}
    BY <1>1 DEF HandoverFailed, matchVars
  <2> QED BY <1>0, <1>1, <2>1, <2>2, <2>3 DEF HeldOK, playerVars
<1> QED BY <1>0, <1>1, <1>2, <1>3, StartKeeps DEF EarlySteps, playerVars

LEMMA ReceiverKeeps == ASSUME LiveInv, NEW n \in StartIds, Receiver(n) PROVE LiveParts'
<1> DEFINE t == Start(n)
<1>0. t \in Tasks /\ svc[n] \in Channels /\ own \in [Tasks -> Nat \cup {None}] /\ PlansOK /\ HeldOK
  <2>1. t \in Tasks /\ todo[t] # <<>>
    BY TaskNames DEF Receiver, Is
  <2> QED BY <2>1, Held DEF Linked
<1>1. /\ todo[t] # <<>> /\ Head(todo[t]) = "Receiver"
      /\ UNCHANGED <<startVars, playVars, shown, change, playerVars, fifos, matchVars, given, own, here>>
      /\ fifo' = 0 /\ select' = None
      /\ \/ /\ receiver' = [service |-> svc[n], fifo |-> 0, ended |-> FALSE]
            /\ life' = "Starting" /\ Done(t)
         \/ life' = "Failed" /\ Goes(t, <<"Over">>) /\ UNCHANGED receiver
  BY DEF Receiver, Is
<1>2. /\ Moves(t) /\ todo'[t] # <<>> /\ Head(todo'[t]) \in {"Up", "Over"}
      /\ ~Holds(todo'[t], "Finish")
  <2>1. CASE Goes(t, <<"Over">>)
    BY <1>0, <2>1, IsOver DEF Bears
  <2>2. CASE Done(t)
    BY <1>0, <1>1, <2>2, GoesOn DEF After, Bears
  <2> QED BY <1>1, <2>1, <2>2
<1>3. HeldOK'
  <2>1. receiver' # None => /\ receiver' \in [service : Channels, fifo : Nat, ended : BOOLEAN]
                            /\ receiver'.fifo <= fifos
    <3>1. CASE receiver' = [service |-> svc[n], fifo |-> 0, ended |-> FALSE]
      BY <1>0, <3>1 DEF HeldOK
    <3>2. CASE receiver' = receiver
      BY <1>0, <3>2 DEF HeldOK
    <3> QED BY <1>1, <3>1, <3>2
  <2>2. fifos \in Nat /\ 0 \in 0..fifos /\ life' \in {"Starting", "Failed"}
    BY <1>0, <1>1 DEF HeldOK
  <2> QED BY <1>0, <1>1, <2>1, <2>2 DEF HeldOK, playerVars, matchVars
<1> QED BY <1>0, <1>1, <1>2, <1>3, StartKeeps DEF EarlySteps, playerVars, matchVars

LEMMA UpKeeps == ASSUME LiveInv, NEW n \in StartIds, Up(n) PROVE LiveParts'
<1> DEFINE t == Start(n)
<1>0. t \in Tasks /\ own \in [Tasks -> Nat \cup {None}] /\ PlansOK /\ HeldOK
  BY TaskNames, Held
<1>1. /\ todo[t] # <<>> /\ Head(todo[t]) = "Up"
      /\ UNCHANGED <<startVars, playVars, shown, change, playerVars, fifo, fifos, select, receiver,
                     matchVars, given, own, here>>
      /\ life' \in {life, "Failed"}
      /\ Done(t) \/ Goes(t, <<"Over">>) \/ GiveUp(n)
  BY DEF Up, Is, Lives
<1>2. /\ Moves(t) /\ todo'[t] # <<>> /\ Head(todo'[t]) \in {"Opened", "Over", "Stopping"}
      /\ ~Holds(todo'[t], "Finish")
  <2>1. CASE Goes(t, <<"Over">>)
    BY <1>0, <2>1, IsOver DEF Bears
  <2>2. CASE Done(t)
    BY <1>0, <1>1, <2>2, GoesOn DEF After, Bears
  <2>3. CASE GiveUp(n)
    BY <1>0, <2>3, GivesUp DEF Bears
  <2> QED BY <1>1, <2>1, <2>2, <2>3
<1>3. HeldOK'
  BY <1>0, <1>1 DEF HeldOK, playerVars, matchVars
<1> QED BY <1>0, <1>1, <1>2, <1>3, StartKeeps DEF EarlySteps, playerVars, matchVars

LEMMA OpenedKeeps == ASSUME LiveInv, NEW n \in StartIds, Opened(n) PROVE LiveParts'
<1> DEFINE t == Start(n)
<1>0. t \in Tasks /\ own \in [Tasks -> Nat \cup {None}] /\ PlansOK /\ HeldOK
  BY TaskNames, Held
<1>1. /\ todo[t] # <<>> /\ Head(todo[t]) = "Opened"
      /\ UNCHANGED <<startVars, playVars, shown, change, playerVars, tunerVars, matchVars, given, own,
                     here>>
      /\ Done(t) \/ GiveUp(n)
  BY DEF Opened, Is
<1>2. /\ Moves(t) /\ todo'[t] # <<>> /\ Head(todo'[t]) \in {"Rate", "Stopping"}
      /\ ~Holds(todo'[t], "Finish")
  <2>1. CASE Done(t)
    BY <1>0, <1>1, <2>1, GoesOn DEF After, Bears
  <2>2. CASE GiveUp(n)
    BY <1>0, <2>2, GivesUp DEF Bears
  <2> QED BY <1>1, <2>1, <2>2
<1>3. HeldOK'
  BY <1>0, <1>1 DEF HeldOK, playerVars, tunerVars, matchVars
<1> QED BY <1>0, <1>1, <1>2, <1>3, StartKeeps DEF EarlySteps, playerVars, matchVars

LEMMA RateKeeps == ASSUME LiveInv, NEW n \in StartIds, Rate(n) PROVE LiveParts'
<1> DEFINE t == Start(n)
<1>0. /\ t \in Tasks /\ own \in [Tasks -> Nat \cup {None}] /\ PlansOK /\ HeldOK /\ pnum \in Nat
  BY TaskNames, Held
<1>1. /\ todo[t] # <<>> /\ Head(todo[t]) = "Rate" /\ Done(t)
      /\ own' = [own EXCEPT ![t] = pnum + 1]
      /\ UNCHANGED <<startVars, playVars, shown, change, playerVars, tunerVars, matchVars, given, here>>
  BY DEF Rate, Is
<1>2. /\ Moves(t) /\ todo'[t] # <<>> /\ Head(todo'[t]) = "Match" /\ ~Holds(todo'[t], "Finish")
  BY <1>0, <1>1, GoesOn DEF After, Bears
<1>3. HeldOK'
  BY <1>0, <1>1 DEF HeldOK, playerVars, tunerVars, matchVars
<1>4. /\ own' \in [Tasks -> Nat \cup {None}] /\ own'[t] \in 0..pnum + 1
      /\ \A u \in Tasks : u # t => own'[u] = own[u]
  BY <1>0, <1>1
<1> QED BY <1>0, <1>1, <1>2, <1>3, <1>4, StartKeeps DEF EarlySteps, playerVars, matchVars

LEMMA AfterMatchKept == ASSUME LiveInv, NEW n \in StartIds, AfterMatch(n) PROVE LiveParts'
<1> DEFINE t == Start(n)
<1>0. t \in Tasks /\ t[1] = "Start" /\ own \in [Tasks -> Nat \cup {None}] /\ PlansOK /\ HeldOK
  BY TaskNames, Held
<1>1. /\ todo[t] # <<>> /\ Head(todo[t]) = "Matched"
      /\ UNCHANGED <<startVars, playVars, shown, change, playerVars, tunerVars, matchVars, given, own,
                     here>>
      /\ Goes(t, LaunchPlan) \/ GiveUp(n)
  BY DEF AfterMatch, Is, LaunchPlan
<1>2. /\ Moves(t) /\ todo'[t] # <<>> /\ Head(todo'[t]) \in {"Take", "Stopping"}
      /\ ~Holds(todo'[t], "Finish")
  <2>1. CASE Goes(t, LaunchPlan)
    <3>1. Plan(t, LaunchPlan) /\ LaunchPlan # <<>> /\ Head(LaunchPlan) = "Take"
          /\ ~Holds(LaunchPlan, "Finish")
      BY <1>0, LaunchMade DEF Made
    <3> QED BY <1>0, <2>1, <3>1, GoesMoves
  <2>2. CASE GiveUp(n)
    BY <1>0, <2>2, GivesUp DEF Bears
  <2> QED BY <1>1, <2>1, <2>2
<1>3. HeldOK'
  BY <1>0, <1>1 DEF HeldOK, playerVars, tunerVars, matchVars
<1> QED BY <1>0, <1>1, <1>2, <1>3, StartKeeps DEF EarlySteps, playerVars, matchVars

LEMMA LaunchStepKeeps == ASSUME LiveInv, NEW n \in StartIds, Launch(n) PROVE LiveParts'
<1> DEFINE t == Start(n)
<1> USE Held
<1>0. t \in Tasks /\ t[1] = "Start" /\ t # Back
  BY TaskNames
<1>1. /\ todo[t] # <<>> /\ Head(todo[t]) = "Launch" /\ pnum' = pnum + 1
      /\ UNCHANGED <<startVars, playVars, shown, change, playing, tunerVars, matchVars, given, own,
                     here>>
      /\ \/ unit' = fifo /\ Done(t)
         \/ unit' = unit /\ GiveUp(n)
  BY DEF Launch, Is
<1>2. unit = None
  BY <1>1 DEF LiveInv, LiveParts, LaunchAlone, Is
<1> HIDE DEF t
<1>3. /\ Moves(t) /\ todo'[t] # <<>> /\ ~Holds(todo'[t], "Finish")
      /\ \/ Head(todo'[t]) = "Launched" /\ unit' = fifo
         \/ Head(todo'[t]) = "Stopping" /\ unit' = None
  <2>1. CASE unit' = fifo /\ Done(t)
    BY <1>1, <2>1, GoesOn DEF After, Bears, t
  <2>2. CASE unit' = unit /\ GiveUp(n)
    BY <1>2, <2>2, GivesUp DEF Bears, t
  <2> QED BY <1>1, <2>1, <2>2
<1>4. FilmsFollowed' /\ FinishLate' /\ MatchOwned' /\ Linked' /\ PlansOK'
  <2>1. pnum' \in Nat /\ pnum' >= pnum /\ SameFilm
    BY <1>1 DEF SameFilm, playVars
  <2>2. UNCHANGED <<begun, calledOff, underway, change, svc, may, next, here, own>>
    BY <1>1 DEF startVars, playVars, given
  <2>3. \A m \in StartIds : t # Mpv(m) /\ t # Display(m) /\ t # Source(m)
    BY TasksDiffer DEF t
  <2>4. FilmsFollowed'
    BY <1>0, <1>1, <1>3, <2>1, <2>2, <2>3, FollowedKept
  <2>5. Linked'
    <3>1. \A k \in StartIds : t = Start(k) =>
            Locked(k) /\ todo'[t] # <<>> /\ Head(todo'[t]) \notin {"Count", "CallOff", "Lock"}
      BY <1>1, <1>3 DEF Locked
    <3> QED BY <1>0, <1>3, <2>2, <3>1, LinkedKept
  <2>6. FinishLate'
    BY <1>0, <1>3, <2>1, <2>2, FinishKept
  <2>7. MatchOwned'
    BY <1>0, <1>3, <2>1, <2>2, MatchKept DEF Is
  <2>8. PlansOK'
    <3>1. ASSUME NEW u \in Tasks PROVE Plan(u, todo'[u])
      BY <1>3 DEF Moves, PlansOK
    <3> QED BY <1>3, <2>2, <3>1 DEF Moves, PlansOK
  <2> QED BY <2>4, <2>5, <2>6, <2>7, <2>8
<1>5. HeldOK'
  <2>1. unit' \in 0..fifos \cup {None} /\ pnum' = pnum + 1
    BY <1>1, <1>2 DEF HeldOK
  <2>2. content' \in 0..pnum' + 1 \cup {None}
    BY <1>1, <2>1 DEF HeldOK, matchVars
  <2> QED BY <1>1, <2>1, <2>2 DEF HeldOK, tunerVars, matchVars
<1>6. UnitWatched'
  <2>1. CASE Head(todo'[t]) = "Launched"
    BY <1>3, <2>1 DEF UnitWatched, Launching, Is, t
  <2>2. CASE unit' = None
    BY <2>2 DEF UnitWatched
  <2> QED BY <1>3, <2>1, <2>2
<1>7. LaunchAlone'
  <2> SUFFICES ASSUME NEW k \in StartIds, Is(Start(k), "Launch")' PROVE FALSE
    BY DEF LaunchAlone
  <2>1. k # n
    BY <1>3 DEF Is, t
  <2>2. todo'[Start(k)] = todo[Start(k)]
    BY <1>3, <2>1, TaskNames, TasksDiffer DEF Moves, t
  <2>3. Locked(k) /\ Locked(n)
    BY <1>1, <2>2 DEF Is, Locked, t
  <2> QED BY <2>1, <2>3 DEF Linked
<1>8. HandoverOlder'
  <2>1. ASSUME handover PROVE content = None \/ content < pnum'
    BY <1>1, <2>1
  <2> QED BY <1>1, <2>1 DEF HandoverOlder, Older, matchVars
<1>9. BackTakes'
  <2>1. SameFilm /\ UNCHANGED <<own, begun, calledOff>>
    BY <1>1 DEF SameFilm, playVars, startVars
  <2> QED BY <1>0, <1>3, <2>1, BackKept
<1> QED BY <1>4, <1>5, <1>6, <1>7, <1>8, <1>9 DEF LiveParts

LEMMA LaunchedKeeps == ASSUME LiveInv, NEW n \in StartIds, Launched(n) PROVE LiveParts'
<1> DEFINE t == Start(n)
<1>0. /\ t \in Tasks /\ svc[n] \in Channels /\ own \in [Tasks -> Nat \cup {None}] /\ PlansOK /\ HeldOK
  <2>1. t \in Tasks /\ todo[t] # <<>>
    BY TaskNames DEF Launched, Is
  <2> QED BY <2>1, Held DEF Linked
<1>1. /\ todo[t] # <<>> /\ Head(todo[t]) = "Launched" /\ Done(t) /\ playing' = svc[n]
      /\ UNCHANGED <<startVars, playVars, shown, change, pnum, unit, tunerVars, matchVars, given,
                     own, here>>
  BY DEF Launched, Is
<1>2. /\ Moves(t) /\ todo'[t] # <<>> /\ Head(todo'[t]) = "Begin" /\ ~Holds(todo'[t], "Finish")
  BY <1>0, <1>1, GoesOn DEF After, Bears
<1>3. HeldOK'
  BY <1>0, <1>1 DEF HeldOK, tunerVars, matchVars
<1> QED BY <1>0, <1>1, <1>2, <1>3, StartKeeps DEF EarlySteps, playerVars, matchVars

\* A new player on the receiver that stays, or everything anew.
LEMMA WarmOrColdKeeps ==
    ASSUME LiveInv, NEW n \in StartIds, todo[Start(n)] # <<>>, NEW reuse,
           Head(todo[Start(n)]) \in {"Decide", "Retry"}, WarmOrCold(Start(n), reuse),
           UNCHANGED <<startVars, shown, change, unit, tunerVars, given, here>>
    PROVE  LiveParts'
<1> DEFINE t == Start(n)
<1> USE Held
<1>0. t \in Tasks /\ t[1] = "Start" /\ t # Back
  BY TaskNames
<1>1. CASE ~reuse
  <2>1. Goes(t, ColdStart) /\ UNCHANGED <<playVars, pnum, playing, matchVars, own>>
    BY <1>1 DEF WarmOrCold
  <2>2. /\ Moves(t) /\ todo'[t] # <<>> /\ Head(todo'[t]) = "StopHere" /\ ~Holds(todo'[t], "Finish")
    BY <2>1, IsCold DEF Bears
  <2>3. HeldOK'
    BY <2>1 DEF HeldOK, tunerVars, matchVars
  <2> QED BY <2>1, <2>2, <2>3, StartKeeps DEF EarlySteps, playerVars, matchVars
<1>2. CASE reuse
  <2>1. /\ handover' = TRUE /\ content' = content /\ own' = [own EXCEPT ![t] = Current]
        /\ playing' = None /\ pnum' = pnum + 1
        /\ Goes(t, WarmPlan)
        /\ next' = next
        /\ IF film = None THEN film' = film
           ELSE \E intent \in P!Intents : film' = [film EXCEPT !.intent = intent]
    BY <1>2 DEF WarmOrCold, Intended, P!Intend, LetsGo, WarmPlan, playVars, P!Intents
  <2>2. /\ Moves(t) /\ todo'[t] # <<>> /\ Head(todo'[t]) = "Quit"
    <3>1. Made(t, WarmPlan, "Quit", {"Quit", "Finish", "Ask", "HandSwitch", "Opened", "Rate",
                                     "Match", "Matched"}, "Matched")
      BY <1>0, WarmMade
    <3> QED BY <1>0, <2>1, <3>1, GoesMoves DEF Made
  <2>3. /\ own' \in [Tasks -> Nat \cup {None}] /\ own'[t] = Current
        /\ \A u \in Tasks : u # t => own'[u] = own[u]
    BY <1>0, <2>1 DEF Current
  <2>4. SameFilm /\ (film' = None <=> film = None) /\ (film # None => film'.number = film.number)
    <3>1. film # None => film \in P!Film
      BY DEF LiveInv, Recorded
    <3>2. ASSUME film # None, NEW intent \in P!Intents, film' = [film EXCEPT !.intent = intent]
          PROVE  film'.number = film.number /\ film'.live = film.live /\ film' # None
      <4>1. film' \in P!Film
        BY <3>1, <3>2 DEF P!Film
      <4> QED BY <3>1, <3>2, <4>1, NoneAssumption DEF P!Film
    <3> QED BY <2>1, <3>2 DEF SameFilm
  <2>5. Walks(t)
    <3>1. t # Mpv(film'.number)
      BY TasksDiffer
    <3>2. UNCHANGED <<begun, calledOff, underway, change, svc, may, next, here>>
      BY <2>1 DEF startVars, given
    <3>3. film # None => here[film.number] < pnum'
      BY <2>1
    <3> QED BY <1>0, <2>1, <2>2, <2>3, <2>4, <3>1, <3>2, <3>3 DEF Walks, EarlySteps, Is
  <2>6. HeldOK'
    <3>1. content' \in 0..pnum' + 1 \cup {None} /\ pnum' \in Nat
      BY <2>1 DEF HeldOK
    <3> QED BY <2>1, <3>1 DEF HeldOK, tunerVars
  <2>7. UnitWatched'
    BY <1>0, <2>2 DEF UnitWatched, ToQuit, Is
  <2>8. HandoverOlder'
    <3>1. ~Launching
      <4> SUFFICES ASSUME NEW k \in StartIds, Is(Start(k), "Launched") \/ Is(Start(k), "Begin")
                   PROVE  FALSE
        BY DEF Launching
      <4>1. Locked(k) /\ Locked(n)
        BY DEF Is, Locked
      <4>2. k = n
        BY <4>1 DEF Linked
      <4> QED BY <4>2 DEF Is
    <3>2. ~Launching'
      BY <1>0, <2>2, <3>1, LaunchingKept
    <3>3. ~FilmOn'
      BY <2>1, <2>4, <2>5 DEF FilmOn, Walks
    <3>4. content' = None \/ content' <= pnum'
      BY <2>1 DEF HeldOK
    <3> QED BY <3>2, <3>3, <3>4 DEF HandoverOlder
  <2>9. BackTakes'
    BY <1>0, <2>5, WalkKeeps
  <2> QED BY <1>0, <2>5, <2>6, <2>7, <2>8, <2>9, WalkKeeps DEF LiveParts
<1> QED BY <1>1, <1>2

LEMMA DecideKeeps == ASSUME LiveInv, NEW n \in StartIds, Decide(n) PROVE LiveParts'
<1> DEFINE t == Start(n)
<1> USE Held
<1>1. /\ todo[t] # <<>> /\ Head(todo[t]) = "Decide"
      /\ UNCHANGED <<startVars, shown, change, unit, given, here>>
  BY DEF Decide, Is
<1>2. \/ /\ Goes(t, <<"Over">>) /\ UNCHANGED <<tunerVars, own, playVars, pnum, playing, matchVars>>
      \/ /\ Select(n) /\ UNCHANGED <<life, receiver, playVars, pnum, playing, matchVars>>
         /\ own' = [own EXCEPT ![t] = Current] /\ Goes(t, <<"Switch", "Reload">>)
      \/ \E reuse \in BOOLEAN : WarmOrCold(t, reuse) /\ UNCHANGED tunerVars
  <2>1. \A reuse \in CanReuse : reuse \in BOOLEAN
    BY DEF CanReuse
  <2> QED BY <2>1 DEF Decide
<1>0. t \in Tasks /\ t[1] = "Start" /\ svc[n] \in Channels
  BY <1>1, TaskNames DEF Linked
<1>3. CASE Goes(t, <<"Over">>) /\ UNCHANGED <<tunerVars, own, playVars, pnum, playing, matchVars>>
  <2>1. /\ Moves(t) /\ todo'[t] # <<>> /\ Head(todo'[t]) = "Over" /\ ~Holds(todo'[t], "Finish")
    BY <1>3, IsOver DEF Bears
  <2>2. HeldOK'
    BY <1>1, <1>3 DEF HeldOK, tunerVars, matchVars
  <2> QED BY <1>1, <1>3, <2>1, <2>2, StartKeeps DEF EarlySteps, matchVars
<1>4. CASE /\ Select(n) /\ UNCHANGED <<life, receiver, playVars, pnum, playing, matchVars>>
           /\ own' = [own EXCEPT ![t] = Current] /\ Goes(t, <<"Switch", "Reload">>)
  <2>1. /\ Moves(t) /\ todo'[t] # <<>> /\ Head(todo'[t]) = "Switch" /\ ~Holds(todo'[t], "Finish")
    <3>1. Made(t, <<"Switch", "Reload">>, "Switch", {"Switch", "Reload"}, "Reload")
      BY <1>0, SwitchMade
    <3> QED BY <1>0, <1>4, <3>1, GoesMoves DEF Made
  <2>2. HeldOK'
    <3>1. /\ fifos' \in Nat /\ fifo' \in 0..fifos' /\ fifos' = fifos + 1
          /\ select' \in Services /\ select'.fifo <= fifos'
      BY <1>0, <1>4 DEF HeldOK, Select, Services
    <3>2. unit' \in 0..fifos' \cup {None}
      BY <1>1, <3>1 DEF HeldOK
    <3>3. receiver' # None => /\ receiver' \in [service : Channels, fifo : Nat, ended : BOOLEAN]
                              /\ receiver'.fifo <= fifos'
      BY <1>4, <3>1 DEF HeldOK
    <3> QED BY <1>1, <1>4, <3>1, <3>2, <3>3 DEF HeldOK, matchVars
  <2>3. own' \in [Tasks -> Nat \cup {None}] /\ \A u \in Tasks : u # t => own'[u] = own[u]
    BY <1>0, <1>4 DEF Current
  <2> QED BY <1>1, <1>4, <2>1, <2>2, <2>3, StartKeeps DEF EarlySteps, matchVars
<1>5. CASE \E reuse \in BOOLEAN : WarmOrCold(t, reuse) /\ UNCHANGED tunerVars
  BY <1>1, <1>5, WarmOrColdKeeps
<1> QED BY <1>2, <1>3, <1>4, <1>5

LEMMA RetryKeeps == ASSUME LiveInv, NEW n \in StartIds, Retry(n) PROVE LiveParts'
<1>1. /\ todo[Start(n)] # <<>> /\ Head(todo[Start(n)]) = "Retry"
      /\ UNCHANGED <<startVars, shown, change, unit, tunerVars, given, here>>
      /\ \E reuse \in CanReuse : WarmOrCold(Start(n), reuse)
  BY DEF Retry, Is
<1> QED BY <1>1, WarmOrColdKeeps

----------------------------------------------------------------------------
(* What happens to the receiver and the player of itself.                     *)

\* Nothing but the receiver, the player's unit and what the receiver reads.
LEMMA OutsideKeeps ==
    ASSUME LiveInv, HeldOK', unit' \in {unit, None},
           UNCHANGED <<startVars, playVars, change, pnum, matchVars, given, taskVars>>
    PROVE  LiveParts'
<1> USE Held
<1>1. UNCHANGED <<todo, own, here, begun, calledOff, underway, next, film, svc, may, content, handover>>
  BY DEF startVars, playVars, matchVars, given, taskVars
<1>2. PlansOK' /\ Linked' /\ FinishLate' /\ MatchOwned' /\ BackTakes' /\ HandoverOlder'
  BY <1>1 DEF LiveInv, LiveParts, PlansOK, Linked, Early, Locked, FinishLate, MatchOwned, BackTakes,
              HandoverOlder, Launching, FilmOn, Older, Is, Has
<1>3. FilmsFollowed'
  BY <1>1 DEF FilmsFollowed, Is
<1>4. UnitWatched' /\ LaunchAlone'
  BY <1>1 DEF LiveInv, LiveParts, UnitWatched, ToQuit, Launching, FilmOn, LaunchAlone, Is
<1> QED BY <1>2, <1>3, <1>4 DEF LiveParts

LEMMA FollowsKeeps == ASSUME LiveInv, ReceiverFollows PROVE LiveParts'
<1> USE Held
<1>1. /\ select # None /\ receiver # None /\ select' = None
      /\ receiver' = [receiver EXCEPT !.service = select.service, !.fifo = select.fifo]
      /\ UNCHANGED <<startVars, playVars, shown, change, playerVars, life, fifo, fifos, matchVars, given,
                     taskVars>>
  BY DEF ReceiverFollows, ReceiverUp
<1>2. /\ receiver' \in [service : Channels, fifo : Nat, ended : BOOLEAN]
      /\ receiver'.fifo <= fifos
  BY <1>1 DEF HeldOK, Services
<1>3. HeldOK'
  BY <1>1, <1>2 DEF HeldOK, playerVars, matchVars
<1> QED BY <1>1, <1>3, OutsideKeeps DEF playerVars

LEMMA EndsKeeps == ASSUME LiveInv, ReceiverEnds PROVE LiveParts'
<1> USE Held
<1>1. /\ receiver # None /\ receiver' = [receiver EXCEPT !.ended = TRUE]
      /\ UNCHANGED <<startVars, playVars, shown, change, playerVars, life, fifo, fifos, select,
                     matchVars, given, taskVars>>
  BY DEF ReceiverEnds, ReceiverUp
<1>2. /\ receiver' \in [service : Channels, fifo : Nat, ended : BOOLEAN]
      /\ receiver'.fifo <= fifos
  BY <1>1 DEF HeldOK
<1>3. HeldOK'
  BY <1>1, <1>2 DEF HeldOK, playerVars, matchVars
<1> QED BY <1>1, <1>3, OutsideKeeps DEF playerVars

LEMMA DiesKeeps == ASSUME LiveInv, PlayerDies PROVE LiveParts'
<1> USE Held
<1>1. /\ unit' = None
      /\ UNCHANGED <<startVars, playVars, shown, change, pnum, playing, tunerVars, matchVars, given,
                     taskVars>>
  BY DEF PlayerDies
<1>2. HeldOK'
  BY <1>1 DEF HeldOK, tunerVars, matchVars
<1> QED BY <1>1, <1>2, OutsideKeeps

----------------------------------------------------------------------------
(* The counters, the lock and Back.                                           *)

LEMMA CountersKeep ==
    ASSUME LiveInv, NEW t \in Tasks, Moves(t), t[1] \in {"Start", "Back"},
           UNCHANGED <<playVars, shown, playerVars, tunerVars, matchVars, here, may>>,
           svc' \in [StartIds -> Channels \cup {None}],
           own' \in [Tasks -> Nat \cup {None}], \A u \in Tasks : u # t => own'[u] = own[u],
           todo[t] # <<>> => Head(todo[t]) \in {"Idle", "Over"} \cup EarlySteps,
           todo'[t] # <<>> => Head(todo'[t]) \in {"StopHere", "Decide", "Over"} \cup EarlySteps,
           Holds(todo'[t], "Finish") => Holds(todo[t], "Finish") /\ own'[t] = own[t],
           Linked', BackTakes'
    PROVE  LiveParts'
<1> USE Held
<1>1. /\ SameFilm /\ UNCHANGED <<next, film, pnum, unit, content, handover>>
      /\ pnum' \in Nat /\ pnum' >= pnum
  BY DEF SameFilm, playVars, playerVars, matchVars
<1>2. PlansOK'
  <2>1. ASSUME NEW u \in Tasks PROVE Plan(u, todo'[u])
    BY DEF Moves, PlansOK
  <2> QED BY <2>1 DEF Moves, PlansOK
<1>3. HeldOK'
  BY DEF HeldOK, playerVars, tunerVars, matchVars
<1>4. FilmsFollowed'
  <2>1. \A m \in StartIds : t # Mpv(m) /\ t # Display(m) /\ t # Source(m)
    BY TaskNames
  <2> QED BY <1>1, <2>1, FollowedKept
<1>5. FinishLate' /\ MatchOwned' /\ LaunchAlone'
  <2>1. ~Is(t, "Match")' /\ ~Is(t, "Launch")'
    BY DEF Is, EarlySteps
  <2> QED BY <1>1, <2>1, FinishKept, MatchKept, LaunchKept
<1>6. FilmOn' <=> FilmOn
  BY <1>1 DEF FilmOn
<1>7. ~Is(t, "Take") /\ ~Is(t, "Quit") /\ ~Is(t, "Launched") /\ ~Is(t, "Begin")
      /\ ~Is(t, "Launched")' /\ ~Is(t, "Begin")'
  BY DEF Is, EarlySteps
<1>8. UnitWatched'
  BY <1>1, <1>6, <1>7, UnitKept
<1>9. HandoverOlder'
  BY <1>1, <1>6, <1>7, HandoverKept
<1> QED BY <1>2, <1>3, <1>4, <1>5, <1>8, <1>9 DEF LiveParts

LEMMA ChooseKeeps == ASSUME LiveInv, NEW c \in Channels, Choose(c) PROVE LiveParts'
<1> DEFINE k == begun + 1
           t == Start(k)
           s == <<"Count", "CallOff", "Lock">>
<1> USE Held
<1>1. /\ begun < MaxStarts /\ begun' = begun + 1 /\ calledOff' = calledOff /\ underway' = underway
      /\ svc' = [svc EXCEPT ![k] = c] /\ Goes(t, s)
      /\ UNCHANGED <<playVars, shown, change, playerVars, tunerVars, matchVars, may, own, here>>
  BY DEF Choose, S!TakeNumber
<1>2. begun \in Nat /\ k \in StartIds /\ calledOff <= begun /\ calledOff \in Nat
  BY <1>1, LiveStartAssumption DEF LiveInv, Counted, StartIds
<1>3. t \in Tasks /\ t[1] = "Start" /\ t # Back
  BY <1>2, TaskNames
<1>4. todo[t] = <<>>
  BY <1>2 DEF Linked
<1>5. Plan(t, s) /\ s # <<>> /\ Head(s) = "Count"
  BY <1>3, Literal
<1>6. ~Holds(s, "Finish")
  <2>1. Len(s) = 3 /\ s[1] = "Count" /\ s[2] = "CallOff" /\ s[3] = "Lock"
    OBVIOUS
  <2> HIDE DEF s
  <2> QED BY <2>1 DEF Holds
<1> HIDE DEF s
<1>7. Moves(t) /\ todo'[t] = s
  BY <1>1, <1>3, <1>5, GoesMoves
<1>8. svc' \in [StartIds -> Channels \cup {None}]
  BY <1>1 DEF PlansOK
<1>9. Linked'
  <2>1. begun' <= MaxStarts /\ change' \in StartIds \cup {None}
    BY <1>1, <1>2, LiveStartAssumption DEF Linked
  <2>2. ASSUME NEW n \in StartIds
        PROVE  /\ todo'[Start(n)] # <<>> => n <= begun'
               /\ n <= begun' => svc'[n] \in Channels
               /\ n <= begun' /\ ~Early(n)' => n - 1 <= calledOff'
               /\ Early(n)' \/ todo'[Start(n)] = <<>> \/ n \in underway'
               /\ change' = n <=> Locked(n)'
    <3>0. n \in Nat
      BY DEF StartIds
    <3>1. CASE n = k
      <4>1. Early(n)' /\ ~Locked(n)' /\ ~Locked(n)
        BY <1>4, <1>5, <1>7, <3>1 DEF Early, Locked
      <4>2. change # n
        BY <4>1 DEF Linked
      <4>3. svc'[n] = c
        BY <1>1, <3>1 DEF PlansOK
      <4> QED BY <1>1, <1>2, <3>1, <4>1, <4>2, <4>3
    <3>2. CASE n # k
      <4>1. todo'[Start(n)] = todo[Start(n)]
        BY <1>7, <3>2, TaskNames, TasksDiffer DEF Moves
      <4>2. (Early(n)' <=> Early(n)) /\ (Locked(n)' <=> Locked(n))
        BY <4>1 DEF Early, Locked
      <4>3. n <= begun' => n <= begun
        BY <1>1, <1>2, <3>0, <3>2
      <4>4. n <= begun => n <= begun'
        BY <1>1, <1>2, <3>0
      <4>5. svc'[n] = svc[n]
        BY <1>1, <3>2 DEF PlansOK
      <4> QED BY <1>1, <4>1, <4>2, <4>3, <4>4, <4>5 DEF Linked
    <3> QED BY <3>1, <3>2
  <2> QED BY <2>1, <2>2 DEF Linked
<1>10. BackTakes'
  BY <1>1, <1>2 DEF BackTakes
<1> HIDE DEF t
<1> QED BY <1>1, <1>3, <1>4, <1>5, <1>6, <1>7, <1>8, <1>9, <1>10, CountersKeep DEF EarlySteps

LEMMA CountInKeeps == ASSUME LiveInv, NEW n \in StartIds, CountIn(n) PROVE LiveParts'
<1> DEFINE t == Start(n)
<1> USE Held
<1>1. /\ todo[t] # <<>> /\ Head(todo[t]) = "Count" /\ Done(t)
      /\ UNCHANGED <<begun, calledOff, underway>>
      /\ UNCHANGED <<playVars, shown, change, playerVars, tunerVars, matchVars, given, own, here>>
  BY DEF CountIn, S!Count, Is
<1>2. t \in Tasks /\ t[1] = "Start" /\ t # Back
  BY TaskNames
<1>3. /\ Moves(t) /\ todo'[t] # <<>> /\ Head(todo'[t]) = "CallOff"
      /\ Holds(todo'[t], "Finish") => Holds(todo[t], "Finish")
  <2>1. /\ Moves(t)
        /\ todo'[t] = <<>> => "Count" \in Ends["Start"]
        /\ todo'[t] # <<>> => <<"Count", Head(todo'[t])>> \in Links["Start"]
        /\ Holds(todo'[t], "Finish") => Holds(todo[t], "Finish")
    BY <1>1, <1>2, DoneMoves
  <2> QED BY <2>1 DEF Links, Ends, Stop
<1>4. Linked'
  <2> SUFFICES ASSUME NEW k \in StartIds
               PROVE  /\ todo'[Start(k)] # <<>> => k <= begun
                      /\ Early(k)' <=> Early(k)
                      /\ todo'[Start(k)] = <<>> <=> todo[Start(k)] = <<>>
                      /\ Locked(k)' <=> Locked(k)
    BY <1>1 DEF Linked, given
  <2>1. CASE k = n
    BY <1>1, <1>3, <2>1 DEF Early, Locked, Linked
  <2>2. CASE k # n
    <3>1. todo'[Start(k)] = todo[Start(k)]
      BY <1>3, <2>2, TaskNames, TasksDiffer DEF Moves
    <3> QED BY <3>1 DEF Early, Locked, Linked
  <2> QED BY <2>1, <2>2
<1>5. BackTakes'
  BY <1>1, <1>2, <1>3, BackKept DEF SameFilm, playVars
<1> HIDE DEF t
<1> QED BY <1>1, <1>2, <1>3, <1>4, <1>5, CountersKeep DEF EarlySteps, given, PlansOK

LEMMA CallOffOlderKeeps == ASSUME LiveInv, NEW n \in StartIds, CallOffOlder(n) PROVE LiveParts'
<1> DEFINE t == Start(n)
<1> USE Held
<1>1. /\ todo[t] # <<>> /\ Head(todo[t]) = "CallOff" /\ Done(t)
      /\ begun' = begun /\ calledOff' = S!Raised(n - 1) /\ underway' = underway \cup {n}
      /\ UNCHANGED <<playVars, shown, change, playerVars, tunerVars, matchVars, given, own, here>>
  BY DEF CallOffOlder, S!CallOffOlder, Is
<1>2. t \in Tasks /\ t[1] = "Start" /\ t # Back
  BY TaskNames
<1>3. /\ Moves(t) /\ todo'[t] # <<>> /\ Head(todo'[t]) = "Lock"
      /\ Holds(todo'[t], "Finish") => Holds(todo[t], "Finish")
  <2>1. /\ Moves(t)
        /\ todo'[t] = <<>> => "CallOff" \in Ends["Start"]
        /\ todo'[t] # <<>> => <<"CallOff", Head(todo'[t])>> \in Links["Start"]
        /\ Holds(todo'[t], "Finish") => Holds(todo[t], "Finish")
    BY <1>1, <1>2, DoneMoves
  <2> QED BY <2>1 DEF Links, Ends, Stop
<1>4. /\ n \in Nat /\ n <= begun /\ begun \in Nat /\ calledOff \in Nat /\ calledOff <= begun
      /\ calledOff' \in Int /\ calledOff' >= calledOff /\ calledOff' >= n - 1
      /\ calledOff' = begun => calledOff = begun
  <2>1. n \in Nat /\ n <= begun /\ begun \in Nat /\ calledOff \in Nat /\ calledOff <= begun
    BY <1>1 DEF Linked, StartIds, LiveInv, Counted
  <2> QED BY <1>1, <2>1 DEF S!Raised
<1>5. Linked'
  <2> SUFFICES ASSUME NEW k \in StartIds
               PROVE  /\ todo'[Start(k)] # <<>> => k <= begun
                      /\ k <= begun /\ ~Early(k)' => k - 1 <= calledOff'
                      /\ Early(k)' \/ todo'[Start(k)] = <<>> \/ k \in underway'
                      /\ Locked(k)' <=> Locked(k)
    BY <1>1 DEF Linked, given
  <2>1. CASE k = n
    BY <1>1, <1>3, <1>4, <2>1 DEF Early, Locked, Linked
  <2>2. CASE k # n
    <3>1. todo'[Start(k)] = todo[Start(k)]
      BY <1>3, <2>2, TaskNames, TasksDiffer DEF Moves
    <3>2. (Early(k)' <=> Early(k)) /\ (Locked(k)' <=> Locked(k)) /\ k \in Nat
      BY <3>1 DEF Early, Locked, StartIds
    <3>3. k <= begun /\ ~Early(k) => k - 1 <= calledOff
      BY DEF Linked
    <3>4. k - 1 <= calledOff => k - 1 <= calledOff'
      BY <1>4, <3>2
    <3> QED BY <1>1, <3>1, <3>2, <3>3, <3>4 DEF Linked
  <2> QED BY <2>1, <2>2
<1>6. BackTakes'
  BY <1>1, <1>2, <1>3, <1>4, BackKept DEF SameFilm, playVars
<1> HIDE DEF t
<1> QED BY <1>1, <1>2, <1>3, <1>5, <1>6, CountersKeep DEF EarlySteps, given, PlansOK

\* The lock is taken by one start, and by none that is past it.
LEMMA LockKeeps == ASSUME LiveInv, NEW n \in StartIds, Lock(n) PROVE LiveParts'
<1> DEFINE t == Start(n)
<1> USE Held
<1>1. /\ todo[t] # <<>> /\ Head(todo[t]) = "Lock" /\ change = None /\ change' = n
      /\ Goes(t, <<"Over">>) \/ Goes(t, <<"Decide">>)
      /\ UNCHANGED <<startVars, playVars, shown, playerVars, tunerVars, matchVars, given, own, here>>
  BY DEF Lock, Is
<1>2. t \in Tasks /\ t[1] = "Start" /\ t # Back
  BY TaskNames
<1>3. /\ Moves(t) /\ todo'[t] # <<>> /\ Head(todo'[t]) \in {"Over", "Decide"}
      /\ ~Holds(todo'[t], "Finish")
  <2>1. CASE Goes(t, <<"Over">>)
    BY <2>1, IsOver DEF Bears
  <2>2. CASE Goes(t, <<"Decide">>)
    <3>1. Made(t, <<"Decide">>, "Decide", {"Decide"}, "Decide")
      BY <1>2, OneMade
    <3> QED BY <1>2, <2>2, <3>1, GoesMoves DEF Made
  <2> QED BY <1>1, <2>1, <2>2
<1>4. UNCHANGED <<begun, calledOff, underway, svc, may>>
  BY <1>1 DEF startVars, given
<1>5. Linked'
  <2> SUFFICES ASSUME NEW k \in StartIds
               PROVE  /\ todo'[Start(k)] # <<>> => k <= begun
                      /\ Early(k)' <=> Early(k)
                      /\ todo'[Start(k)] = <<>> <=> todo[Start(k)] = <<>>
                      /\ n = k <=> Locked(k)'
    BY <1>1, <1>4 DEF Linked
  <2>1. CASE k = n
    BY <1>1, <1>3, <2>1 DEF Early, Locked, Linked
  <2>2. CASE k # n
    <3>1. todo'[Start(k)] = todo[Start(k)]
      BY <1>3, <2>2, TaskNames, TasksDiffer DEF Moves
    <3>2. k # None
      BY LiveStartAssumption DEF StartIds
    <3>3. ~Locked(k)
      BY <1>1, <3>2 DEF Linked
    <3> QED BY <2>2, <3>1, <3>3 DEF Early, Locked, Linked
  <2> QED BY <2>1, <2>2
<1>6. BackTakes'
  BY <1>1, <1>2, <1>3, <1>4, BackKept DEF SameFilm, playVars
<1> HIDE DEF t
<1> QED BY <1>1, <1>2, <1>3, <1>4, <1>5, <1>6, CountersKeep DEF EarlySteps, PlansOK

LEMMA OverKeeps == ASSUME LiveInv, NEW n \in StartIds, Over(n) PROVE LiveParts'
<1> DEFINE t == Start(n)
<1> USE Held
<1>1. /\ todo[t] # <<>> /\ Head(todo[t]) = "Over" /\ Done(t) /\ change' = None
      /\ begun' = begun /\ calledOff' = calledOff /\ underway' = underway \ {n}
      /\ own' = [own EXCEPT ![t] = None]
      /\ UNCHANGED <<playVars, shown, playerVars, tunerVars, matchVars, given, here>>
  BY DEF Over, S!EndStart, Is
<1>2. t \in Tasks /\ t[1] = "Start" /\ t # Back
  BY TaskNames
<1>3. Moves(t) /\ todo'[t] = <<>> /\ ~Holds(todo'[t], "Finish")
  <2>1. Moves(t) /\ (todo'[t] # <<>> => <<"Over", Head(todo'[t])>> \in Links["Start"])
    BY <1>1, <1>2, DoneMoves
  <2>2. todo'[t] = <<>>
    BY <2>1 DEF Links, Stop
  <2> QED BY <2>1, <2>2, EmptyPlan
<1>4. /\ own' \in [Tasks -> Nat \cup {None}] /\ \A u \in Tasks : u # t => own'[u] = own[u]
  BY <1>1
<1>5. Linked'
  <2> SUFFICES ASSUME NEW k \in StartIds
               PROVE  /\ todo'[Start(k)] # <<>> => k <= begun
                      /\ k <= begun /\ ~Early(k)' => k - 1 <= calledOff
                      /\ Early(k)' \/ todo'[Start(k)] = <<>> \/ k \in underway'
                      /\ ~Locked(k)' /\ k # None
    BY <1>1 DEF Linked, given
  <2>0. k # None
    BY LiveStartAssumption DEF StartIds
  <2>1. CASE k = n
    <3>1. ~Early(n)
      BY <1>1 DEF Early
    <3> QED BY <1>1, <1>3, <2>0, <2>1, <3>1 DEF Early, Locked, Linked
  <2>2. CASE k # n
    <3>1. todo'[Start(k)] = todo[Start(k)]
      BY <1>3, <2>2, TaskNames, TasksDiffer DEF Moves
    <3>2. Locked(n)
      BY <1>1 DEF Locked
    <3>3. ~Locked(k)
      BY <2>2, <3>2 DEF Linked
    <3> QED BY <1>1, <2>0, <2>2, <3>1, <3>3 DEF Early, Locked, Linked
  <2> QED BY <2>1, <2>2
<1>6. BackTakes'
  BY <1>1, <1>2, <1>3, <1>4, BackKept, TaskNames DEF SameFilm, playVars
<1> HIDE DEF t
<1> QED BY <1>1, <1>2, <1>3, <1>4, <1>5, <1>6, CountersKeep DEF EarlySteps, PlansOK, given

LEMMA PressBackKeeps == ASSUME LiveInv, PressBack PROVE LiveParts'
<1> USE Held
<1> DEFINE s == <<"CallOff", "StopHere">>
<1>1. /\ todo[Back] = <<"Idle">> /\ Goes(Back, s) /\ begun' = begun
      /\ UNCHANGED <<calledOff, underway>>
      /\ UNCHANGED <<playVars, shown, change, playerVars, tunerVars, matchVars, given, own, here>>
  BY DEF PressBack, S!ReadBegun
<1>2. Back \in Tasks /\ Back[1] = "Back" /\ \A n \in StartIds : Start(n) # Back
  BY TaskNames, TasksDiffer
<1>3. Plan(Back, s) /\ s # <<>> /\ Head(s) = "CallOff" /\ ~Holds(s, "Finish")
  <2>1. s \in Seq(Steps) /\ Len(s) = 2 /\ s[1] = "CallOff" /\ s[2] = "StopHere" /\ Head(s) = s[1]
        /\ s # <<>>
    BY DEF Steps
  <2> HIDE DEF s
  <2>2. Plan(Back, s)
    BY <1>2, <2>1 DEF Plan, Links, Ends
  <2>3. ~Holds(s, "Finish")
    BY <2>1 DEF Holds
  <2> QED BY <2>1, <2>2, <2>3
<1> HIDE DEF s
<1>4. Moves(Back) /\ todo'[Back] = s
  BY <1>1, <1>2, <1>3, GoesMoves
<1>5. todo[Back] # <<>> /\ Head(todo[Back]) = "Idle" /\ ~Has(Back, "Finish")
  <2>1. Len(todo[Back]) = 1 /\ todo[Back][1] = "Idle" /\ todo[Back] # <<>>
        /\ Head(todo[Back]) = "Idle"
    BY <1>1
  <2> QED BY <2>1 DEF Has, Holds
<1>6. Linked'
  <2>1. \A n \in StartIds : todo'[Start(n)] = todo[Start(n)]
    BY <1>2, <1>4, TaskNames DEF Moves
  <2> QED BY <1>1, <2>1 DEF Linked, Early, Locked, given
<1>7. BackTakes'
  <2>1. ~(calledOff = begun /\ film # None)
    BY <1>5 DEF LiveInv, LiveParts, BackTakes, Is
  <2> QED BY <1>1, <2>1 DEF BackTakes, playVars
<1> QED BY <1>1, <1>2, <1>3, <1>4, <1>5, <1>6, <1>7, CountersKeep DEF EarlySteps, PlansOK, given

LEMMA BackCallsOffKeeps == ASSUME LiveInv, BackCallsOff PROVE LiveParts'
<1> USE Held
<1>1. /\ todo[Back] # <<>> /\ Head(todo[Back]) = "CallOff" /\ Done(Back)
      /\ begun' = begun /\ underway' = underway
      /\ \E read \in backs : calledOff' = S!Raised(read)
      /\ UNCHANGED <<playVars, shown, change, playerVars, tunerVars, matchVars, given, own, here>>
  BY DEF BackCallsOff, S!CallOffRead, Is
<1>2. Back \in Tasks /\ Back[1] = "Back" /\ \A n \in StartIds : Start(n) # Back
  BY TaskNames, TasksDiffer
<1>3. /\ Moves(Back) /\ todo'[Back] # <<>> /\ Head(todo'[Back]) = "StopHere"
      /\ Holds(todo'[Back], "Finish") => Holds(todo[Back], "Finish")
  <2>1. /\ Moves(Back)
        /\ todo'[Back] = <<>> => "CallOff" \in Ends["Back"]
        /\ todo'[Back] # <<>> => <<"CallOff", Head(todo'[Back])>> \in Links["Back"]
        /\ Holds(todo'[Back], "Finish") => Holds(todo[Back], "Finish")
    BY <1>1, <1>2, DoneMoves
  <2> QED BY <2>1 DEF Links, Ends, Stop
<1>4. calledOff \in Nat /\ calledOff' \in Int /\ calledOff' >= calledOff
  <2>1. calledOff \in Nat /\ begun \in Nat /\ backs \subseteq 0..begun
    BY DEF LiveInv, Counted
  <2> QED BY <1>1, <2>1 DEF S!Raised
<1>5. Linked'
  <2>1. \A n \in StartIds : todo'[Start(n)] = todo[Start(n)]
    BY <1>2, <1>3, TaskNames DEF Moves
  <2>2. \A n \in StartIds : n - 1 <= calledOff => n - 1 <= calledOff'
    BY <1>4 DEF StartIds
  <2> QED BY <1>1, <2>1, <2>2 DEF Linked, Early, Locked, given
<1>6. BackTakes'
  BY <1>3 DEF BackTakes, Is
<1> QED BY <1>1, <1>2, <1>3, <1>5, <1>6, CountersKeep DEF EarlySteps, PlansOK, given

----------------------------------------------------------------------------
(* The two steps that set other tasks to work.                                *)

LEMMA ReloadKeeps == ASSUME LiveInv, NEW n \in StartIds, Reload(n) PROVE LiveParts'
<1> DEFINE t == Start(n)
           r == Rematch(n)
<1> USE Held
<1>0. t \in Tasks /\ r \in Tasks /\ t # r /\ t # Back /\ r # Back /\ t[1] = "Start" /\ r[1] = "Rematch"
  BY TaskNames, TasksDiffer
<1>1. /\ todo[t] # <<>> /\ Head(todo[t]) = "Reload"
      /\ UNCHANGED <<startVars, playVars, change, pnum, fifo, fifos, select, receiver, matchVars,
                     given, here>>
  BY DEF Reload, Is
<1>2. \/ /\ unit # None /\ unit' = fifo
         /\ playing' = (IF playing = None THEN None ELSE svc[n])
         /\ shown' = (IF P!Playing(own[t]) THEN svc[n] ELSE shown)
         /\ life' \in {life, "Playing"}
         /\ own' = [own EXCEPT ![r] = pnum]
         /\ todo' = [todo EXCEPT ![t] = <<"Over">>, ![r] = <<"Match">>]
      \/ Goes(t, <<"Retry">>) /\ UNCHANGED <<unit, playing, shown, life, own>>
  BY DEF Reload, Lives
<1>3. svc[n] \in Channels
  BY <1>1 DEF Linked
<1>4. CASE Goes(t, <<"Retry">>) /\ UNCHANGED <<unit, playing, shown, life, own>>
  <2>1. /\ Moves(t) /\ todo'[t] # <<>> /\ Head(todo'[t]) = "Retry" /\ ~Holds(todo'[t], "Finish")
    BY <1>4, IsRetry DEF Bears
  <2>2. HeldOK'
    BY <1>1, <1>4 DEF HeldOK, matchVars
  <2>3. own' \in [Tasks -> Nat \cup {None}] /\ \A u \in Tasks : u # t => own'[u] = own[u]
    BY <1>4
  <2> QED BY <1>1, <1>4, <2>1, <2>2, <2>3, StartKeeps DEF EarlySteps, matchVars
<1>5. CASE /\ unit # None /\ unit' = fifo
           /\ playing' = (IF playing = None THEN None ELSE svc[n])
           /\ shown' = (IF P!Playing(own[t]) THEN svc[n] ELSE shown)
           /\ life' \in {life, "Playing"}
           /\ own' = [own EXCEPT ![r] = pnum]
           /\ todo' = [todo EXCEPT ![t] = <<"Over">>, ![r] = <<"Match">>]
  <2>1. /\ DOMAIN todo' = Tasks /\ todo'[t] = <<"Over">> /\ todo'[r] = <<"Match">>
        /\ \A u \in Tasks : u # t /\ u # r => todo'[u] = todo[u]
    BY <1>0, <1>5
  <2>2. /\ own' \in [Tasks -> Nat \cup {None}] /\ own'[r] = pnum
        /\ \A u \in Tasks : u # r => own'[u] = own[u]
    BY <1>0, <1>5
  <2>3. /\ Plan(t, <<"Over">>) /\ <<"Over">> # <<>> /\ Head(<<"Over">>) = "Over"
        /\ ~Holds(<<"Over">>, "Finish")
    BY <1>0, OneMade DEF Made
  <2>4. /\ Plan(r, <<"Match">>) /\ <<"Match">> # <<>> /\ Head(<<"Match">>) = "Match"
        /\ ~Holds(<<"Match">>, "Finish")
    BY <1>0 DEF Plan, Ends, Holds, Steps
  <2>5. \A k \in StartIds : k # n => todo'[Start(k)] = todo[Start(k)]
    BY <2>1, TaskNames, TasksDiffer
  <2>6. \A k \in StartIds : /\ todo'[Mpv(k)] = todo[Mpv(k)] /\ todo'[Display(k)] = todo[Display(k)]
                            /\ todo'[Source(k)] = todo[Source(k)]
    BY <2>1, TaskNames, TasksDiffer
  <2>7. UNCHANGED <<begun, calledOff, underway, next, film, svc, may, content, handover>>
    BY <1>1 DEF startVars, playVars, given, matchVars
  <2> HIDE DEF t, r
  <2>a. PlansOK'
    <3>1. ASSUME NEW u \in Tasks PROVE Plan(u, todo'[u])
      BY <2>1, <2>3, <2>4 DEF PlansOK
    <3> QED BY <1>1, <2>1, <2>2, <2>7, <3>1 DEF PlansOK
  <2>b. HeldOK'
    <3>1. unit' \in 0..fifos \cup {None} /\ life' \in {life, "Playing"}
          /\ playing' \in Channels \cup {None} /\ shown' \in Channels \cup {None}
      BY <1>3, <1>5 DEF HeldOK
    <3> QED BY <1>1, <2>7, <3>1 DEF HeldOK
  <2>c. Linked'
    <3> SUFFICES ASSUME NEW k \in StartIds
                 PROVE  /\ Early(k)' <=> Early(k)
                        /\ todo'[Start(k)] = <<>> <=> todo[Start(k)] = <<>>
                        /\ Locked(k)' <=> Locked(k)
      BY <1>1, <2>7 DEF Linked
    <3>1. CASE k = n
      BY <1>1, <2>1, <2>3, <3>1 DEF Early, Locked, t
    <3>2. CASE k # n
      BY <2>5, <3>2 DEF Early, Locked
    <3> QED BY <3>1, <3>2
  <2>d. FilmsFollowed'
    BY <1>1, <2>6, <2>7 DEF FilmsFollowed, Is
  <2>e. FinishLate'
    <3> SUFFICES ASSUME NEW u \in Tasks, Has(u, "Finish")', own'[u] # None
                 PROVE  own'[u] \in 1..next /\ here[own'[u]] < pnum
      BY <1>1, <2>7 DEF FinishLate
    <3>1. u # t /\ u # r
      BY <2>1, <2>3, <2>4 DEF Has
    <3> QED BY <2>1, <2>2, <3>1 DEF Has, LiveInv, LiveParts, FinishLate
  <2>f. MatchOwned'
    <3> SUFFICES ASSUME NEW u \in Tasks, Is(u, "Match")' PROVE own'[u] \in 0..pnum + 1
      BY <1>1 DEF MatchOwned
    <3>1. CASE u = r
      BY <2>2, <3>1
    <3>2. CASE u # r
      <4>1. u # t
        BY <2>1, <2>3 DEF Is
      <4>2. Is(u, "Match")
        BY <2>1, <3>2, <4>1 DEF Is
      <4> QED BY <2>2, <3>2, <4>2 DEF LiveInv, LiveParts, MatchOwned
    <3> QED BY <3>1, <3>2
  <2>g. FilmOn' <=> FilmOn
    BY <1>1, <2>7 DEF FilmOn
  <2>h. Launching' <=> Launching
    <3>1. ASSUME NEW k \in StartIds
          PROVE  (Is(Start(k), "Launched") \/ Is(Start(k), "Begin"))'
                 <=> Is(Start(k), "Launched") \/ Is(Start(k), "Begin")
      <4>1. CASE k = n
        BY <1>1, <2>1, <2>3, <4>1 DEF Is, t
      <4>2. CASE k # n
        BY <2>5, <4>2 DEF Is
      <4> QED BY <4>1, <4>2
    <3> QED BY <3>1 DEF Launching
  <2>i. ToQuit => ToQuit'
    <3> SUFFICES ASSUME NEW u \in Tasks, Is(u, "Take") \/ Is(u, "Quit") PROVE ToQuit'
      BY DEF ToQuit
    <3>1. u # t
      BY <1>1 DEF Is
    <3>2. u # r
      <4>1. ASSUME u = r PROVE FALSE
        <5>1. Head(todo[r]) \in {"Take", "Quit"} /\ todo[r] # <<>> /\ Plan(r, todo[r])
          BY <1>0, <4>1 DEF Is
        <5>2. r[1] \in {"Start", "Back", "Mpv", "Source"}
          BY <1>0, <5>1, StepOf
        <5> QED BY <1>0, <5>2
      <4> QED BY <4>1
    <3> QED BY <2>1, <3>1, <3>2 DEF ToQuit, Is
  <2>j. UnitWatched'
    BY <1>5, <2>g, <2>h, <2>i DEF UnitWatched, LiveInv, LiveParts
  <2>k. LaunchAlone'
    <3> SUFFICES ASSUME NEW k \in StartIds, Is(Start(k), "Launch")' PROVE FALSE
      BY DEF LaunchAlone
    <3>1. k # n
      BY <2>1, <2>3 DEF Is, t
    <3>2. Locked(k) /\ Locked(n)
      BY <1>1, <2>5, <3>1 DEF Is, Locked, t
    <3> QED BY <3>1, <3>2 DEF Linked
  <2>l. HandoverOlder'
    BY <1>1, <2>7, <2>g, <2>h DEF HandoverOlder, Older
  <2>m. BackTakes'
    <3>1. todo'[Back] = todo[Back] /\ own'[Back] = own[Back]
      BY <1>0, <2>1, <2>2, TaskNames
    <3> QED BY <2>7, <3>1 DEF LiveInv, LiveParts, BackTakes, Is, Has
  <2> QED BY <2>a, <2>b, <2>c, <2>d, <2>e, <2>f, <2>j, <2>k, <2>l, <2>m DEF LiveParts
<1> QED BY <1>2, <1>4, <1>5

\* A player that was launched for a start called off is put away.
LEMMA UndoKeeps ==
    ASSUME LiveInv, NEW n \in StartIds, todo[Start(n)] # <<>>, Head(todo[Start(n)]) = "Begin",
           Goes(Start(n), UndoPlan),
           UNCHANGED <<startVars, playVars, shown, change, playerVars, tunerVars, matchVars, given, own, here>>
    PROVE  LiveParts'
<1> DEFINE t == Start(n)
<1> USE Held
<1>0. t \in Tasks /\ t[1] = "Start" /\ t # Back /\ t # Mpv(film'.number)
  <2>1. t # Mpv(film'.number)
    BY TasksDiffer
  <2> QED BY <2>1, TaskNames
<1>2. /\ Moves(t) /\ todo'[t] # <<>> /\ Head(todo'[t]) = "Take" /\ ~Holds(todo'[t], "Finish")
  <2>1. /\ Plan(t, UndoPlan) /\ UndoPlan # <<>> /\ Head(UndoPlan) = "Take"
        /\ ~Holds(UndoPlan, "Finish")
    BY <1>0, UndoMade DEF Made
  <2> QED BY <1>0, <2>1, GoesMoves
<1>1. UNCHANGED <<begun, calledOff, underway, change, svc, may, next, film, pnum, unit, content, handover>>
  BY DEF startVars, playVars, playerVars, matchVars, given
<1>3. Walks(t)
  BY <1>0, <1>1, <1>2 DEF Walks, SameFilm, EarlySteps, Is
<1>4. HeldOK'
  BY DEF HeldOK, playerVars, tunerVars, matchVars
<1>5. UnitWatched'
  BY <1>0, <1>2 DEF UnitWatched, ToQuit, Is
<1>6. HandoverOlder'
  <2>1. FilmOn' => FilmOn
    BY <1>1, <1>3 DEF FilmOn, Walks
  <2> QED BY <1>0, <1>1, <1>2, <2>1, HandoverKept DEF Is
<1> QED BY <1>0, <1>3, <1>4, <1>5, <1>6, WalkKeeps DEF LiveParts

\* A film on record and its followers set to work.
LEMMA RecordKeeps ==
    ASSUME LiveInv, NEW n \in StartIds, todo[Start(n)] # <<>>, Head(todo[Start(n)]) = "Begin",
           n > calledOff, Record(n),
           UNCHANGED <<startVars, change, playerVars, fifo, fifos, select, receiver, matchVars, given, own>>
    PROVE  LiveParts'
<1> DEFINE t == Start(n)
           k == next + 1
<1> USE Held
<1>1. /\ next < MaxStarts /\ next' = k
      /\ film' = P!Begun(k, "Here", TRUE, FALSE, None, FALSE, "Short")
      /\ shown' = svc[n] /\ life' \in {life, "Playing"}
      /\ here' = [here EXCEPT ![k] = pnum]
      /\ todo' = [todo EXCEPT ![t] = <<"Over">>, ![Mpv(k)] = <<"Hear">>,
                              ![Display(k)] = <<"Opening", "End">>, ![Source(k)] = <<"Watch">>]
  BY DEF Record, P!Begin, Lives
<1>2. k \in StartIds /\ k \in Nat
  BY <1>1, LiveStartAssumption DEF StartIds
<1>3. /\ film'.number = k /\ film'.live /\ film' # None
  <2>1. film' = [number |-> k, player |-> "Here", live |-> TRUE, watch |-> FALSE,
                 session |-> None, sourceEnd |-> None, given |-> FALSE, measured |-> FALSE,
                 position |-> "Short", intent |-> None, told |-> FALSE, jumped |-> FALSE]
    BY <1>1 DEF P!Begun
  <2>2. film' \in P!Film
    BY <1>2, <2>1 DEF P!Film, P!Players, P!Places
  <2> QED BY <2>1, <2>2, NoneAssumption
<1>4. /\ {t, Mpv(k), Display(k), Source(k)} \subseteq Tasks
      /\ t # Mpv(k) /\ t # Display(k) /\ t # Source(k) /\ Mpv(k) # Display(k)
      /\ Mpv(k) # Source(k) /\ Display(k) # Source(k) /\ t # Back /\ Mpv(k) # Back
      /\ Display(k) # Back /\ Source(k) # Back
  BY <1>2, TaskNames, TasksDiffer
<1>5. /\ DOMAIN todo' = Tasks /\ todo'[t] = <<"Over">> /\ todo'[Mpv(k)] = <<"Hear">>
      /\ todo'[Display(k)] = <<"Opening", "End">> /\ todo'[Source(k)] = <<"Watch">>
      /\ \A u \in Tasks : u \notin {t, Mpv(k), Display(k), Source(k)} => todo'[u] = todo[u]
  BY <1>1, <1>4
<1>6. \A j \in StartIds : /\ j # n => todo'[Start(j)] = todo[Start(j)]
                          /\ j # k => /\ todo'[Mpv(j)] = todo[Mpv(j)]
                                      /\ todo'[Display(j)] = todo[Display(j)]
                                      /\ todo'[Source(j)] = todo[Source(j)]
  <2> SUFFICES ASSUME NEW j \in StartIds
               PROVE  /\ j # n => Start(j) \in Tasks \ {t, Mpv(k), Display(k), Source(k)}
                      /\ j # k => {Mpv(j), Display(j), Source(j)}
                                      \subseteq Tasks \ {t, Mpv(k), Display(k), Source(k)}
    BY <1>5
  <2>1. {Start(j), Mpv(j), Display(j), Source(j)} \subseteq Tasks
    BY TaskNames
  <2>2. j # n => Start(j) \notin {t, Mpv(k), Display(k), Source(k)}
    BY TasksDiffer
  <2>3. j # k => Mpv(j) \notin {t, Mpv(k), Display(k), Source(k)}
    BY TasksDiffer
  <2>4. j # k => Display(j) \notin {t, Mpv(k), Display(k), Source(k)}
    BY TasksDiffer
  <2>5. j # k => Source(j) \notin {t, Mpv(k), Display(k), Source(k)}
    BY TasksDiffer
  <2> QED BY <2>1, <2>2, <2>3, <2>4, <2>5
<1>7. /\ Head(<<"Over">>) = "Over" /\ Head(<<"Hear">>) = "Hear"
      /\ Head(<<"Opening", "End">>) = "Opening" /\ Head(<<"Watch">>) = "Watch"
      /\ <<"Over">> # <<>> /\ <<"Hear">> # <<>> /\ <<"Opening", "End">> # <<>> /\ <<"Watch">> # <<>>
  OBVIOUS
<1>8. /\ Plan(t, <<"Over">>) /\ Plan(Mpv(k), <<"Hear">>)
      /\ Plan(Display(k), <<"Opening", "End">>) /\ Plan(Source(k), <<"Watch">>)
  <2>1. t[1] = "Start" /\ Mpv(k)[1] = "Mpv" /\ Display(k)[1] = "Display" /\ Source(k)[1] = "Source"
    BY <1>2, TaskNames
  <2>2. Plan(t, <<"Over">>)
    BY <2>1 DEF Plan, Ends, Steps
  <2>3. Plan(Mpv(k), <<"Hear">>)
    BY <2>1 DEF Plan, Ends, Steps
  <2>4. Plan(Display(k), <<"Opening", "End">>)
    BY <2>1 DEF Plan, Ends, Links, Steps
  <2>5. Plan(Source(k), <<"Watch">>)
    BY <2>1 DEF Plan, Ends, Steps
  <2> QED BY <2>2, <2>3, <2>4, <2>5
<1>9. /\ ~Holds(<<"Over">>, "Finish") /\ ~Holds(<<"Hear">>, "Finish")
      /\ ~Holds(<<"Opening", "End">>, "Finish") /\ ~Holds(<<"Watch">>, "Finish")
  BY DEF Holds
<1>10. UNCHANGED <<begun, calledOff, underway, change, svc, may, own, pnum, unit, playing, fifo, fifos,
                   select, receiver, content, handover>>
  BY DEF startVars, playerVars, matchVars, given
<1>11. /\ here' \in [StartIds -> Nat \cup {None}] /\ here'[k] = pnum
       /\ \A j \in StartIds : j # k => here'[j] = here[j]
  BY <1>1, <1>2 DEF PlansOK
<1>12. Locked(n) /\ Launching
  BY DEF Locked, Launching, Is
<1> HIDE DEF t
<1>a. PlansOK'
  <2>1. ASSUME NEW u \in Tasks PROVE Plan(u, todo'[u])
    BY <1>5, <1>8 DEF PlansOK
  <2> QED BY <1>5, <1>10, <1>11, <2>1 DEF PlansOK
<1>b. HeldOK'
  <2>1. svc[n] \in Channels
    BY DEF Linked
  <2> QED BY <1>1, <1>10, <2>1 DEF HeldOK
<1>c. Linked'
  <2> SUFFICES ASSUME NEW j \in StartIds
               PROVE  /\ Early(j)' <=> Early(j)
                      /\ todo'[Start(j)] = <<>> <=> todo[Start(j)] = <<>>
                      /\ Locked(j)' <=> Locked(j)
    BY <1>10 DEF Linked
  <2>1. CASE j = n
    BY <1>5, <1>7, <2>1 DEF Early, Locked, t
  <2>2. CASE j # n
    BY <1>6, <2>2 DEF Early, Locked
  <2> QED BY <2>1, <2>2
<1>d. FilmsFollowed'
  <2>1. film' # None => film'.live /\ next' >= 1 /\ Is(Mpv(film.number), "Hear")'
    <3>1. Mpv(film'.number) = Mpv(k)
      BY <1>3
    <3>2. next' >= 1
      BY <1>1, <1>2 DEF StartIds
    <3> QED BY <1>3, <1>5, <1>7, <3>1, <3>2 DEF Is
  <2>2. ASSUME NEW m \in StartIds
        PROVE  IF m <= next' THEN here'[m] \in 0..pnum
               ELSE todo'[Mpv(m)] = <<>> /\ todo'[Display(m)] = <<>> /\ todo'[Source(m)] = <<>>
    <3>0. m \in Nat /\ next \in Nat /\ pnum \in Nat
      BY DEF StartIds
    <3>1. CASE m = k
      BY <1>1, <1>2, <1>11, <3>0, <3>1
    <3>2. CASE m < k
      <4>1. m <= next /\ m <= next' /\ m # k
        BY <1>1, <3>0, <3>2
      <4> QED BY <1>11, <4>1 DEF FilmsFollowed
    <3>3. CASE m > k
      <4>1. ~(m <= next) /\ ~(m <= next') /\ m # k
        BY <1>1, <3>0, <3>3
      <4> QED BY <1>6, <4>1 DEF FilmsFollowed
    <3> QED BY <1>2, <3>0, <3>1, <3>2, <3>3
  <2> QED BY <1>10, <2>1, <2>2 DEF FilmsFollowed
<1>e. FinishLate'
  <2> SUFFICES ASSUME NEW u \in Tasks, Has(u, "Finish")', own[u] # None
               PROVE  own[u] \in 1..next' /\ here'[own[u]] < pnum
    BY <1>10 DEF FinishLate
  <2>1. u \notin {t, Mpv(k), Display(k), Source(k)}
    BY <1>5, <1>9 DEF Has
  <2>2. own[u] \in 1..next /\ here[own[u]] < pnum
    BY <1>5, <2>1 DEF Has, LiveInv, LiveParts, FinishLate
  <2>3. own[u] \in StartIds /\ own[u] # k /\ own[u] \in 1..next'
    BY <1>1, <2>2, LiveStartAssumption DEF StartIds
  <2> QED BY <1>11, <2>2, <2>3
<1>f. MatchOwned'
  <2> SUFFICES ASSUME NEW u \in Tasks, Is(u, "Match")' PROVE own[u] \in 0..pnum + 1
    BY <1>10 DEF MatchOwned
  <2>1. u \notin {t, Mpv(k), Display(k), Source(k)}
    BY <1>5, <1>7 DEF Is
  <2>2. Is(u, "Match")
    BY <1>5, <2>1 DEF Is
  <2> QED BY <2>2 DEF LiveInv, LiveParts, MatchOwned
<1>g. UnitWatched'
  BY <1>3, <1>10, <1>11 DEF UnitWatched, FilmOn
<1>h. LaunchAlone'
  <2> SUFFICES ASSUME NEW j \in StartIds, Is(Start(j), "Launch")' PROVE unit = None
    BY <1>10 DEF LaunchAlone
  <2>1. j # n
    BY <1>5, <1>7 DEF Is, t
  <2> QED BY <1>6, <2>1 DEF Is, LiveInv, LiveParts, LaunchAlone
<1>i. HandoverOlder'
  BY <1>10, <1>12 DEF HandoverOlder, Older
<1>j. BackTakes'
  <2>1. calledOff \in Nat /\ begun \in Nat /\ n <= begun /\ n \in Nat
    BY DEF LiveInv, Counted, Linked, StartIds
  <2> QED BY <1>10, <2>1 DEF BackTakes
<1> QED BY <1>a, <1>b, <1>c, <1>d, <1>e, <1>f, <1>g, <1>h, <1>i, <1>j DEF LiveParts

LEMMA BeginKeeps == ASSUME LiveInv, NEW n \in StartIds, Begin(n) PROVE LiveParts'
<1>1. /\ todo[Start(n)] # <<>> /\ Head(todo[Start(n)]) = "Begin"
      /\ UNCHANGED <<startVars, change, playerVars, fifo, fifos, select, receiver, matchVars, given, own>>
  BY DEF Begin, Is
<1>2. CASE S!CalledOff(n)
  BY <1>1, <1>2, UndoKeeps DEF Begin, UndoPlan, tunerVars
<1>3. CASE ~S!CalledOff(n)
  <2>1. n > calledOff
    BY <1>3 DEF S!CalledOff, LiveInv, Counted, StartIds
  <2> QED BY <1>1, <1>3, <2>1, RecordKeeps DEF Begin
<1> QED BY <1>2, <1>3

----------------------------------------------------------------------------
(* The counters and the record, whatever the rest does.                       *)

LEMMA StartsStep == ASSUME [LiveStartNext]_vars PROVE [S!StartsNext]_startVars
<1>1. ASSUME NEW c, Choose(c) PROVE S!StartsNext
  BY <1>1 DEF Choose, S!StartsNext
<1>2. ASSUME NEW n \in StartIds, StartStep(n) PROVE [S!StartsNext]_startVars
  <2>1. CountIn(n) => S!StartsNext
    BY DEF CountIn, S!Count, S!StartsNext
  <2>2. CallOffOlder(n) => S!StartsNext
    BY DEF CallOffOlder, S!CallOffOlder, S!StartsNext
  <2>3. Over(n) => S!StartsNext
    BY DEF Over, S!EndStart, S!StartsNext
  <2>4. \/ Lock(n) \/ Decide(n) \/ Retry(n) \/ Ask(n) \/ Switch(n)
        \/ Reload(n) \/ Receiver(n) \/ Up(n) \/ Opened(n) \/ Rate(n) \/ AfterMatch(n)
        \/ Launch(n) \/ Launched(n) \/ Begin(n)
        => UNCHANGED startVars
    BY DEF Lock, Decide, Retry, Ask, Switch, Reload, Receiver, Up, Opened, Rate, AfterMatch, Launch,
           Launched, Begin
  <2> QED BY <1>2, <2>1, <2>2, <2>3, <2>4 DEF StartStep
<1>3. ASSUME NEW n \in StartIds, FollowStep(n) PROVE UNCHANGED startVars
  BY <1>3 DEF FollowStep, Hear, Opening, End, Watch
<1>4. ASSUME NEW t \in Tasks, StopStep(t) PROVE UNCHANGED startVars
  BY <1>4 DEF StopStep, Take, Quit, Stopping, Gone, Cleaned, StopHere, Finish, Match
<1>5. PressBack => S!StartsNext
  BY DEF PressBack, S!StartsNext
<1>6. BackCallsOff => S!StartsNext
  BY DEF BackCallsOff, S!CallOffRead, S!StartsNext
<1>7. ReceiverFollows \/ ReceiverEnds \/ PlayerDies \/ UNCHANGED vars => UNCHANGED startVars
  BY DEF ReceiverFollows, ReceiverEnds, PlayerDies, vars
<1> QED BY <1>1, <1>2, <1>3, <1>4, <1>5, <1>6, <1>7 DEF LiveStartNext

\* The supervisor's methods that live television has a use for: no place in a
\* film is told, and no account of it kept.
Supervised ==
    \/ P!Begin("Here", TRUE, FALSE, None, FALSE, "Short")
    \/ \E m \in P!Numbers, intent \in P!Intents : P!Intend(m, intent)
    \/ \E m \in P!Numbers, end \in P!SourceEnds : P!SourceEnded(m, end)
    \/ \E m \in P!Numbers, signal \in P!Signals : P!Finish(m, signal)

\* Every step is one of them, or none.
LEMMA PlayStep ==
    ASSUME PP!PlayInv, [LiveStartNext]_vars PROVE [Supervised]_playVars
<1>1. \A m : P!Playing(m) => m \in P!Numbers
  BY DEF PP!PlayInv, PP!PlayingIsNumbered, PP!Numbers, P!Numbers, P!Playing
<1>2. ASSUME NEW m, NEW signal \in P!Signals, P!Finish(m, signal) PROVE Supervised
  <2>1. m \in P!Numbers
    BY <1>1, <1>2 DEF P!Finish
  <2> QED BY <1>2, <2>1 DEF Supervised
<1>3. ASSUME NEW m, NEW intent \in P!Intents, P!Intend(m, intent) PROVE Supervised
  BY <1>1, <1>3 DEF P!Intend, Supervised
<1>4. ASSUME NEW m, NEW end \in P!SourceEnds, P!SourceEnded(m, end) PROVE Supervised
  BY <1>1, <1>4 DEF P!SourceEnded, Supervised
<1>5. P!Begin("Here", TRUE, FALSE, None, FALSE, "Short") => Supervised
  BY DEF Supervised
<1>6. ASSUME NEW t, Intended(t) PROVE [Supervised]_playVars
  BY <1>3, <1>6 DEF Intended, P!Intents
<1>7. ASSUME NEW n \in StartIds, StartStep(n) PROVE [Supervised]_playVars
  <2>1. ASSUME NEW t, NEW reuse, WarmOrCold(t, reuse) PROVE [Supervised]_playVars
    BY <1>6, <2>1 DEF WarmOrCold
  <2>2. Decide(n) => [Supervised]_playVars
    BY <2>1 DEF Decide
  <2>3. Retry(n) => [Supervised]_playVars
    BY <2>1 DEF Retry
  <2>4. Begin(n) => [Supervised]_playVars
    BY <1>5 DEF Begin, Record
  <2>5. \/ CountIn(n) \/ CallOffOlder(n) \/ Lock(n) \/ Ask(n) \/ Switch(n)
        \/ Reload(n) \/ Receiver(n) \/ Up(n) \/ Opened(n) \/ Rate(n) \/ AfterMatch(n)
        \/ Launch(n) \/ Launched(n) \/ Over(n)
        => UNCHANGED playVars
    BY DEF CountIn, CallOffOlder, Lock, Ask, Switch, Reload, Receiver, Up, Opened, Rate, AfterMatch,
           Launch, Launched, Over
  <2> QED BY <1>7, <2>2, <2>3, <2>4, <2>5 DEF StartStep
<1>8. ASSUME NEW m \in StartIds, FollowStep(m) PROVE [Supervised]_playVars
  <2>1. Hear(m) => [Supervised]_playVars
    BY <1>2 DEF Hear, P!Signals
  <2>2. Watch(m) => [Supervised]_playVars
    BY <1>4 DEF Watch, P!SourceEnds
  <2>3. Opening(m) \/ End(m) => UNCHANGED playVars
    BY DEF Opening, End
  <2> QED BY <1>8, <2>1, <2>2, <2>3 DEF FollowStep
<1>9. ASSUME NEW t \in Tasks, StopStep(t) PROVE [Supervised]_playVars
  <2>1. StopHere(t) => [Supervised]_playVars
    BY <1>6 DEF StopHere
  <2>2. Finish(t) => [Supervised]_playVars
    BY <1>2 DEF Finish, P!Signals
  <2>3. Take(t) \/ Quit(t) \/ Stopping(t) \/ Gone(t) \/ Cleaned(t) \/ Match(t) => UNCHANGED playVars
    BY DEF Take, Quit, Stopping, Gone, Cleaned, Match
  <2> QED BY <1>9, <2>1, <2>2, <2>3 DEF StopStep
<1>10. \/ \E c \in Channels : Choose(c)
       \/ PressBack \/ BackCallsOff \/ ReceiverFollows \/ ReceiverEnds \/ PlayerDies \/ UNCHANGED vars
       => UNCHANGED playVars
  BY DEF Choose, PressBack, BackCallsOff, ReceiverFollows, ReceiverEnds, PlayerDies, vars
<1> QED BY <1>7, <1>8, <1>9, <1>10 DEF LiveStartNext

----------------------------------------------------------------------------
(* The inductive invariant, and what follows from it.                         *)

Inv == SP!StartsInv /\ PP!PlayInv /\ LiveParts

\* The assumptions of the two modules, for the constants they have here.
LEMMA Assumed == SP!StartsAssumption /\ PP!PlaybackAssumption
<1>1. SP!StartsAssumption
  BY LiveStartAssumption DEF SP!StartsAssumption
<1>2. PP!PlaybackAssumption
  BY NoneAssumption DEF P!PlaybackAssumption, PP!PlaybackAssumption, P!Intents, PP!Intents,
     P!Verdicts, PP!Verdicts, P!Outcomes, PP!Outcomes
<1> QED BY <1>1, <1>2

LEMMA InvIsLive == Inv => LiveInv
<1> SUFFICES ASSUME Inv PROVE LiveInv
  OBVIOUS
<1>1. Counted
  BY DEF Inv, SP!StartsInv, SP!StartsTypeOK, SP!Places, SP!Passed, SP!NoneAheadOfItself, Counted
<1>2. Recorded
  <2>1. next \in 0..MaxStarts /\ (film # None => film \in PP!Film /\ film.number = next)
    BY DEF Inv, PP!PlayInv, PP!PlayTypeOK
  <2>2. P!Film = PP!Film
    BY DEF PP!Film, P!Film, PP!Players, P!Players, PP!Places, P!Places, PP!SourceEnds, P!SourceEnds,
           PP!Intents, P!Intents
  <2> QED BY <2>1, <2>2 DEF Recorded
<1> QED BY <1>1, <1>2 DEF Inv, LiveInv

\* What the counters and the record are known to keep, they keep.
LEMMA CountersInv == ASSUME SP!StartsInv, [LiveStartNext]_vars PROVE SP!StartsInv'
<1>1. [S!StartsNext]_startVars => [SP!StartsNext]_(SP!startVars)
  BY DEF S!StartsNext, SP!StartsNext, S!TakeNumber, SP!TakeNumber, S!Count, SP!Count, S!CallOffOlder,
         SP!CallOffOlder, S!EndStart, SP!EndStart, S!ReadBegun, SP!ReadBegun, S!CallOffRead,
         SP!CallOffRead, S!Raised, SP!Raised, startVars, SP!startVars
<1>2. SP!StartsInv /\ [SP!StartsNext]_(SP!startVars) => SP!StartsInv'
  BY Assumed, SP!NextInv
<1> QED BY <1>1, <1>2, StartsStep

\* The record's operators, as PlaybackProofs has them.
LEMMA SameRecord ==
    /\ P!Players = PP!Players /\ P!Intents = PP!Intents /\ P!Signals = PP!Signals
    /\ P!Places = PP!Places /\ P!SourceEnds = PP!SourceEnds /\ P!Numbers = PP!Numbers
    /\ \A f, signal : P!CloseEffects(f, signal) = PP!CloseEffects(f, signal)
    /\ \A f, signal : P!Close(f, signal) => PP!Close(f, signal)
    /\ \A f : P!Replaced(f) = PP!Replaced(f)
    /\ \A f, closed : P!Change(f, closed) = PP!Change(f, closed)
    /\ \A number : P!Playing(number) = PP!Playing(number)
<1>1. /\ P!Players = PP!Players /\ P!Intents = PP!Intents /\ P!Signals = PP!Signals
      /\ P!Places = PP!Places /\ P!SourceEnds = PP!SourceEnds /\ P!Numbers = PP!Numbers
  BY DEF P!Players, PP!Players, P!Intents, PP!Intents, P!Signals, PP!Signals, P!Places, PP!Places,
         P!SourceEnds, PP!SourceEnds, P!Numbers, PP!Numbers
<1>2. \A f : P!ReachedTheEnd(f) = PP!ReachedTheEnd(f)
  BY DEF P!ReachedTheEnd, PP!ReachedTheEnd, P!HasLength, PP!HasLength
<1>3. \A f, signal : P!FilmVerdict(f, signal) = PP!FilmVerdict(f, signal)
  BY <1>2 DEF P!FilmVerdict, PP!FilmVerdict
<1>4. \A f, signal : P!LiveVerdict(f, signal) = PP!LiveVerdict(f, signal)
  BY DEF P!LiveVerdict, PP!LiveVerdict
<1>5. \A f, signal : P!Verdict(f, signal) = PP!Verdict(f, signal)
  BY <1>3, <1>4 DEF P!Verdict, PP!Verdict
<1>6. \A f, closed : P!Change(f, closed) = PP!Change(f, closed)
  BY DEF P!Change, PP!Change, P!Account, PP!Account, P!HasLength, PP!HasLength
<1>7. \A f, outcome : P!Closes(f, outcome) = PP!Closes(f, outcome)
  BY DEF P!Closes, PP!Closes
<1>8. \A f, signal : P!CloseEffects(f, signal) = PP!CloseEffects(f, signal)
  BY <1>5, <1>6, <1>7 DEF P!CloseEffects, PP!CloseEffects, P!Release, PP!Release
<1>9. \A f, signal : P!Close(f, signal) => PP!Close(f, signal)
  BY <1>5 DEF P!Close, PP!Close
<1>10. \A f : P!Replaced(f) = PP!Replaced(f)
  BY DEF P!Replaced, PP!Replaced
<1>11. \A number : P!Playing(number) = PP!Playing(number)
  BY DEF P!Playing, PP!Playing
<1> QED BY <1>1, <1>6, <1>8, <1>9, <1>10, <1>11

LEMMA RecordInv == ASSUME PP!PlayInv, [LiveStartNext]_vars PROVE PP!PlayInv'
<1> USE SameRecord
<1>1. P!Begin("Here", TRUE, FALSE, None, FALSE, "Short")
      => PP!Begin("Here", TRUE, FALSE, None, FALSE, "Short")
  BY DEF P!Begin, PP!Begin, P!Begun, PP!Begun
<1>2. ASSUME NEW m, NEW intent, P!Intend(m, intent) PROVE PP!Intend(m, intent)
  BY <1>2 DEF P!Intend, PP!Intend
<1>3. ASSUME NEW m, NEW end, P!SourceEnded(m, end) PROVE PP!SourceEnded(m, end)
  BY <1>3 DEF P!SourceEnded, PP!SourceEnded
<1>4. ASSUME NEW m, NEW signal, P!Finish(m, signal) PROVE PP!Finish(m, signal)
  BY <1>4 DEF P!Finish, PP!Finish
<1>5. "Here" \in PP!Players
  BY DEF PP!Players
<1>6. Supervised => PP!PlayNext
  BY <1>1, <1>2, <1>3, <1>4, <1>5 DEF Supervised, PP!PlayNext
<1>7. [Supervised]_playVars => [PP!PlayNext]_(PP!playVars)
  BY <1>6 DEF playVars, PP!playVars
<1>8. PP!PlayInv /\ [PP!PlayNext]_(PP!playVars) => PP!PlayInv'
  BY Assumed, PP!StepInv
<1> QED BY <1>7, <1>8, PlayStep

LEMMA InitInv == ASSUME LiveStartInit PROVE Inv
<1> USE DEF LiveStartInit
<1>1. SP!StartsInv
  <2>1. S!StartsInit => SP!StartsInit
    BY DEF S!StartsInit, SP!StartsInit
  <2> QED BY <2>1, Assumed, SP!InitInv
<1>2. PP!PlayInv
  <2>1. P!PlayInit => PP!PlayInit
    BY DEF P!PlayInit, PP!PlayInit, P!Numbers, PP!Numbers
  <2> QED BY <2>1, Assumed, PP!InitInv
<1>3. /\ begun = 0 /\ calledOff = 0 /\ numbered = {} /\ counted = {} /\ underway = {} /\ backs = {}
      /\ next = 0 /\ film = None
  BY DEF S!StartsInit, P!PlayInit
<1>4. Back \in Tasks /\ Back[1] = "Back" /\ todo[Back] = <<"Idle">>
  BY DEF Tasks, Back
<1>5. /\ DOMAIN todo = Tasks
      /\ \A t \in Tasks : t # Back => todo[t] = <<>>
  OBVIOUS
<1>6. \A m \in StartIds : /\ todo[Start(m)] = <<>> /\ todo[Mpv(m)] = <<>>
                          /\ todo[Display(m)] = <<>> /\ todo[Source(m)] = <<>>
  <2> TAKE m \in StartIds
  <2>1. {Start(m), Mpv(m), Display(m), Source(m)} \subseteq Tasks
    BY TaskNames
  <2>2. /\ Start(m) # Back /\ Mpv(m) # Back /\ Display(m) # Back /\ Source(m) # Back
    BY DEF Start, Mpv, Display, Source, Back
  <2> QED BY <1>5, <2>1, <2>2
<1>7. PlansOK
  <2>1. Plan(Back, <<"Idle">>)
    BY <1>4 DEF Plan, Ends, Steps
  <2>2. \A t \in Tasks : Plan(t, todo[t])
    BY <1>4, <1>5, <2>1, EmptyPlan
  <2> QED BY <1>5, <2>2 DEF PlansOK
<1>8. HeldOK
  <2>1. pnum = 0 /\ fifos = 0 /\ fifo = 0 /\ content = None /\ handover = FALSE
    OBVIOUS
  <2>2. select = None /\ receiver = None /\ unit = None /\ shown = None /\ playing = None
    OBVIOUS
  <2>3. life = "Cleaned"
    OBVIOUS
  <2> HIDE DEF LiveStartInit
  <2>4. fifo \in 0..fifos /\ unit \in 0..fifos \cup {None} /\ content \in 0..pnum + 1 \cup {None}
    BY <2>1, <2>2
  <2> QED BY <2>1, <2>2, <2>3, <2>4 DEF HeldOK
<1>9. Linked
  BY <1>3, <1>6, LiveStartAssumption DEF Linked, Early, Locked, StartIds
<1>10. FilmsFollowed
  BY <1>3, <1>6 DEF FilmsFollowed, StartIds
<1>11. FinishLate /\ MatchOwned /\ UnitWatched /\ LaunchAlone /\ HandoverOlder
  <2>1. MatchOwned
    <3>1. Head(<<"Idle">>) # "Match"
      OBVIOUS
    <3> QED BY <1>4, <1>5, <3>1 DEF MatchOwned, Is
  <2> QED BY <2>1 DEF FinishLate, UnitWatched, LaunchAlone, HandoverOlder
<1>12. BackTakes
  BY <1>3 DEF BackTakes
<1> QED BY <1>1, <1>2, <1>7, <1>8, <1>9, <1>10, <1>11, <1>12 DEF Inv, LiveParts

LEMMA NextInv == ASSUME Inv, [LiveStartNext]_vars PROVE Inv'
<1> USE InvIsLive
<1>1. ASSUME NEW n \in StartIds, StartStep(n) PROVE LiveParts'
  BY <1>1, CountInKeeps, CallOffOlderKeeps, LockKeeps, DecideKeeps, RetryKeeps, AskKeeps, SwitchKeeps,
     ReloadKeeps, ReceiverKeeps, UpKeeps, OpenedKeeps, RateKeeps, AfterMatchKept, LaunchStepKeeps,
     LaunchedKeeps, BeginKeeps, OverKeeps DEF StartStep
<1>2. ASSUME NEW m \in StartIds, FollowStep(m) PROVE LiveParts'
  BY <1>2, HearKeeps, OpeningKeeps, EndKeeps, WatchKeeps DEF FollowStep
<1>3. ASSUME NEW t \in Tasks, StopStep(t) PROVE LiveParts'
  BY <1>3, TakeKeeps, QuitKeeps, StoppingKeeps, GoneKeeps, CleanedKeeps, StopHereKeeps, FinishKeeps,
     MatchKeeps DEF StopStep
<1>4. ASSUME NEW c \in Channels, Choose(c) PROVE LiveParts'
  BY <1>4, ChooseKeeps
<1>5. ASSUME UNCHANGED vars PROVE LiveParts'
  <2>1. HeldOK'
    BY <1>5 DEF LiveInv, LiveParts, HeldOK, vars, playerVars, tunerVars, matchVars
  <2>2. unit' = unit /\ UNCHANGED <<startVars, playVars, change, pnum, matchVars, given, taskVars>>
    BY <1>5 DEF vars, playerVars
  <2> QED BY <2>1, <2>2, OutsideKeeps
<1>6. LiveParts'
  <2>1. PressBack => LiveParts'
    BY PressBackKeeps
  <2>2. BackCallsOff => LiveParts'
    BY BackCallsOffKeeps
  <2>3. ReceiverFollows \/ ReceiverEnds \/ PlayerDies => LiveParts'
    BY FollowsKeeps, EndsKeeps, DiesKeeps
  <2> QED BY <1>1, <1>2, <1>3, <1>4, <1>5, <2>1, <2>2, <2>3 DEF LiveStartNext
<1>7. SP!StartsInv' /\ PP!PlayInv'
  BY CountersInv, RecordInv DEF Inv
<1> QED BY <1>6, <1>7 DEF Inv

\* Inv holds in every state of every run.
THEOREM LiveStartInvariance == LiveStartSpec => []Inv
  BY InitInv, NextInv, PTL DEF LiveStartSpec

\* What is held is what the code can hold (PlayerManager, LiveManager, Output).
THEOREM LiveTypeCorrect == LiveStartSpec => []LiveStartTypeOK
<1>1. Inv => LiveStartTypeOK
  <2> SUFFICES ASSUME Inv PROVE LiveStartTypeOK
    OBVIOUS
  <2>1. S!StartsTypeOK
    BY DEF Inv, SP!StartsInv, SP!StartsTypeOK, S!StartsTypeOK
  <2>2. Linked /\ HeldOK
    BY DEF Inv, LiveParts
  <2>3. change # None => change \in underway
    <3> SUFFICES ASSUME change # None PROVE change \in underway
      OBVIOUS
    <3>1. change \in StartIds /\ Locked(change)
      BY <2>2 DEF Linked
    <3> QED BY <2>2, <3>1 DEF Linked, Locked, Early
  <2>4. receiver # None => receiver.service \in Channels /\ receiver.fifo \in 0..fifos
    BY <2>2 DEF HeldOK
  <2> QED BY <2>1, <2>2, <2>3, <2>4 DEF LiveStartTypeOK, HeldOK
<1> QED BY <1>1, LiveStartInvariance, PTL

\* When nothing is under way no task is to stop a player, or to record one.
LEMMA NothingUnderWay ==
    ASSUME Inv, Quiet
    PROVE  ~ToQuit /\ ~Launching /\ ~Is(Back, "StopHere") /\ ~Has(Back, "Finish")
<1>1. \A t \in Tasks : \/ todo[t] = <<>>
                       \/ todo[t] # <<>> /\ Head(todo[t]) \in {"Idle", "Hear", "End", "Watch"}
  <2> TAKE t \in Tasks
  <2>1. CASE t = Back
    BY <2>1 DEF Quiet, Is
  <2>2. CASE t # Back
    <3>1. PICK m \in StartIds : t \in {Start(m), Rematch(m), Mpv(m), Display(m), Source(m)}
      BY <2>2 DEF Tasks, Start, Rematch, Mpv, Display, Source
    <3> QED BY <3>1 DEF Quiet, Is
  <2> QED BY <2>1, <2>2
<1>2. ~ToQuit
  BY <1>1 DEF ToQuit, Is
<1>3. ~Launching /\ ~Is(Back, "StopHere")
  BY DEF Launching, Quiet, Is
<1>4. ~Has(Back, "Finish")
  <2>1. Plan(Back, todo[Back])
    BY TaskNames DEF Inv, LiveParts, PlansOK
  <2>2. CASE todo[Back] = <<>>
    BY <2>2, EmptyPlan DEF Has
  <2>3. CASE Is(Back, "Idle")
    <3> SUFFICES ASSUME NEW i \in 1..Len(todo[Back]), todo[Back][i] = "Finish" PROVE FALSE
      BY DEF Has, Holds
    <3>1. todo[Back] \in Seq(Steps) /\ todo[Back][1] = "Idle"
      BY <2>1, <2>3 DEF Plan, Is
    <3>2. 1 \in 1..Len(todo[Back]) - 1
      BY <3>1
    <3>3. <<todo[Back][1], todo[Back][1 + 1]>> \in Links["Back"]
      BY <2>1, <3>2, TaskNames DEF Plan, Back
    <3> QED BY <3>1, <3>3 DEF Links, Stop
  <2> QED BY <2>2, <2>3 DEF Quiet
<1> QED BY <1>2, <1>3, <1>4

\* No player is left playing that is not on record, whatever called its start
\* off and when (play_live, stop_here, follow_mpv).
THEOREM NoPlayerStrays == LiveStartSpec => []NoStrayPlayer
<1>1. Inv => NoStrayPlayer
  BY NothingUnderWay DEF Inv, LiveParts, UnitWatched, FilmOn, NoStrayPlayer
<1> QED BY <1>1, LiveStartInvariance, PTL

\* Back, once it has called every start off, leaves nothing playing (play_live,
\* MediaStopHere).
THEOREM BackHasLive == LiveStartSpec => []BackStopsLive
<1>1. Inv => BackStopsLive
  BY NothingUnderWay DEF Inv, LiveParts, UnitWatched, FilmOn, BackTakes, BackStopsLive
<1> QED BY <1>1, LiveStartInvariance, PTL

\* The starts of channels are those of Starts: begin_start and call_off_starts,
\* one atomic at a time, and nothing else touches the counters.
THEOREM StartsKept == LiveStartSpec => S!StartsSpec
<1>1. LiveStartInit => S!StartsInit
  BY DEF LiveStartInit
<1>2. S!startVars = startVars
  BY DEF S!startVars, startVars
<1>3. [LiveStartNext]_vars => [S!StartsNext]_(S!startVars)
  BY <1>2, StartsStep DEF S!startVars, startVars
<1> QED BY <1>1, <1>3, PTL DEF LiveStartSpec, S!StartsSpec

\* A channel's film is one the supervisor begins, intends, ends and decides as
\* any other, whoever asks (Supervisor's methods).
THEOREM SupervisorKept == LiveStartSpec => P!PlaySpec
<1>1. LiveStartInit => P!PlayInit
  BY DEF LiveStartInit
<1>2. Inv /\ [LiveStartNext]_vars => [P!PlayNext]_(P!playVars)
  <2> SUFFICES ASSUME Inv, [LiveStartNext]_vars PROVE [P!PlayNext]_(P!playVars)
    OBVIOUS
  <2>1. Supervised => P!PlayNext
    BY DEF Supervised, P!PlayNext, P!Players
  <2>2. [Supervised]_playVars
    BY PlayStep DEF Inv
  <2> QED BY <2>1, <2>2 DEF playVars, P!playVars
<1> QED BY <1>1, <1>2, LiveStartInvariance, PTL DEF LiveStartSpec, P!PlaySpec

----------------------------------------------------------------------------
(* The receiver, while Back and failures come apart.  With both, the player   *)
(* fails to answer, the start that keeps the receiver for another player is   *)
(* called off, and Back, which finds neither film nor player, leaves it too.  *)

\* A plan that will show a channel, and one that keeps the receiver for a new
\* player until it streams the channel.
Puts(n)  == EndsIn(todo[Start(n)], {"Matched", "Begin"})
Keeps(n) == Has(Start(n), "HandSwitch")
Tends(n) == Puts(n) /\ ~Keeps(n)
Tending  == \E n \in StartIds : Tends(n)
ToGo     == \E t \in Tasks : Has(t, "Gone")

\* A start that has put away what was on, or is about to.
Away == {"Take", "Quit", "Finish", "Stopping", "Gone", "Cleaned"}
Clears(n) == Puts(n) \/ (todo[Start(n)] # <<>> /\ Head(todo[Start(n)]) \in Away)

\* Back can call nothing off any more.
Past == ~may.stop \/ ~(Is(Back, "Idle") \/ Is(Back, "CallOff") \/ Is(Back, "StopHere"))
\* A start that is not called off will show its channel or stop the receiver.
Waits(n) == /\ n > calledOff /\ todo[Start(n)] # <<>>
            /\ Head(todo[Start(n)]) \notin {"Switch", "Reload", "Over"}
Waiting == \E n \in StartIds : Waits(n)

Unpressed == ~may.stop => todo[Back] = <<"Idle">>
\* Whoever came later than the start that has the lock is still to come.
Queued ==
    \A n \in StartIds : Locked(n) /\ ~Is(Start(n), "Over") =>
        \A k \in StartIds : n < k /\ k <= begun => todo[Start(k)] # <<>>
\* The player's number is of no film but the one on record.
HereOn == \A m \in StartIds : m <= next /\ here[m] = pnum => film # None /\ film.number = m
ReceiverAlone ==
    \A n \in StartIds : Is(Start(n), "Cleaned") \/ Is(Start(n), "Receiver") => receiver = None
FilmGone ==
    \A n \in StartIds : Clears(n) =>
        \/ Is(Start(n), "StopHere")
        \/ Has(Start(n), "Finish") /\ (film # None => own[Start(n)] = film.number)
        \/ film = None
FilmLeaving ==
    film # None /\ pnum # here[film.number] /\ ReceiverUp =>
        ToGo \/ \E n \in StartIds : Puts(n)

\* A plan that ends with a film on record stops no receiver.
Straight ==
    \A n \in StartIds : EndsIn(todo[Start(n)], {"Begin"}) =>
        ~Has(Start(n), "Gone") /\ ~Has(Start(n), "Cleaned")

\* A receiver that is up is to be stopped, or used, or somebody is to come who will.
ReceiverWatched == ReceiverUp => ToGo \/ Tending \/ FilmOn \/ (Past /\ Waiting)

\* Before Back, without failures: who has the channel on has it whole.
Uses(n) ==
    \/ EndsIn(todo[Start(n)], {"Begin"}) \/ Is(Start(n), "Opened") \/ Is(Start(n), "Rate")
    \/ Is(Start(n), "Match") \/ Is(Start(n), "Matched")
Whole(n) ==
    /\ ~Is(Start(n), "Retry") /\ ~Keeps(n)
    /\ Is(Start(n), "Switch") \/ Is(Start(n), "Reload") => FilmOn
    /\ Uses(n) => ReceiverUp /\ life # "Cleaned"
    /\ Is(Start(n), "Launched") \/ Is(Start(n), "Begin") => unit # None
Calm ==
    /\ \A n \in StartIds : Whole(n)
    /\ \A m \in StartIds : /\ todo[Mpv(m)] = <<>> \/ Is(Mpv(m), "Hear")
                           /\ todo[Source(m)] = <<>> \/ Is(Source(m), "Watch")
    /\ FilmOn => unit # None /\ ReceiverUp /\ life # "Cleaned"

Apartness == ~(may.stop /\ may.fail)
Watching ==
    /\ Unpressed /\ Queued /\ HereOn /\ ReceiverAlone /\ FilmGone /\ FilmLeaving
    /\ Straight
    /\ Apartness => ReceiverWatched /\ (~Past => Calm)

----------------------------------------------------------------------------
(* Starts that have no part in it, and tasks that stop no receiver.           *)

Aside(s) ==
    /\ s # <<>> => Head(s) \in EarlySteps \cup {"Decide", "Over"}
    /\ ~EndsIn(s, {"Matched", "Begin"}) /\ ~EndsIn(s, {"Begin"})
    /\ ~Holds(s, "Gone") /\ ~Holds(s, "HandSwitch")

LEMMA LeftAside ==
    ASSUME NEW t, t[1] = "Start", NEW s, Plan(t, s),
           s # <<>> => Head(s) \in EarlySteps \cup {"Decide", "Over"}
    PROVE  Aside(s)
<1>1. CASE s = <<>>
  BY <1>1, EmptyPlan DEF Aside
<1>2. ASSUME NEW r, Plan(t, r), r # <<>>, Head(r) \in {"Lock", "Decide", "Over"}
      PROVE  Aside(r)
  <2>1. LeftIs(r)
    BY <1>2, StartLeft DEF Left
  <2> QED BY <1>2, <2>1 DEF LeftIs, Left, Last, Aside, EarlySteps
<1>3. ASSUME NEW r, Plan(t, r), r # <<>>, Head(r) = "CallOff"
      PROVE  Aside(r)
  <2> DEFINE q == Tail(r)
  <2>p. /\ Plan(t, q)
        /\ \A step : Holds(r, step) <=> Head(r) = step \/ Holds(q, step)
        /\ \A steps : EndsIn(r, steps) <=> (IF q = <<>> THEN Head(r) \in steps ELSE EndsIn(q, steps))
    BY <1>3, PlanTail
  <2>l. /\ q = <<>> => Head(r) \in Ends[t[1]]
        /\ q # <<>> => <<Head(r), Head(q)>> \in Links[t[1]]
    BY <1>3, PlanTail
  <2> HIDE DEF q
  <2>0. /\ q = <<>> => "CallOff" \in Ends["Start"]
        /\ q # <<>> => <<"CallOff", Head(q)>> \in Links["Start"]
    BY <1>3, <2>l
  <2>1. q # <<>> /\ Head(q) = "Lock"
    BY <2>0 DEF Links, Stop, Ends
  <2>2. Aside(q)
    BY <1>2, <2>p, <2>1
  <2> QED BY <1>3, <2>p, <2>1, <2>2 DEF Aside, EarlySteps
<1>4. CASE s # <<>> /\ Head(s) = "Count"
  <2> DEFINE q == Tail(s)
  <2>p. /\ Plan(t, q)
        /\ \A step : Holds(s, step) <=> Head(s) = step \/ Holds(q, step)
        /\ \A steps : EndsIn(s, steps) <=> (IF q = <<>> THEN Head(s) \in steps ELSE EndsIn(q, steps))
    BY <1>4, PlanTail
  <2>l. /\ q = <<>> => Head(s) \in Ends[t[1]]
        /\ q # <<>> => <<Head(s), Head(q)>> \in Links[t[1]]
    BY <1>4, PlanTail
  <2> HIDE DEF q
  <2>0. /\ q = <<>> => "Count" \in Ends["Start"]
        /\ q # <<>> => <<"Count", Head(q)>> \in Links["Start"]
    BY <1>4, <2>l
  <2>1. q # <<>> /\ Head(q) = "CallOff"
    BY <2>0 DEF Links, Stop, Ends
  <2>2. Aside(q)
    BY <1>3, <2>p, <2>1
  <2> QED BY <1>4, <2>p, <2>1, <2>2 DEF Aside, EarlySteps
<1> QED BY <1>1, <1>2, <1>3, <1>4 DEF EarlySteps

\* While one start has the lock the others are aside.
LEMMA OthersAside ==
    ASSUME LiveInv, NEW n \in StartIds, Locked(n), NEW k \in StartIds, k # n
    PROVE  Aside(todo[Start(k)]) /\ ~Locked(k)
<1>1. ~Locked(k)
  BY DEF LiveInv, LiveParts, Linked
<1>2. Plan(Start(k), todo[Start(k)]) /\ Start(k)[1] = "Start"
  BY TaskNames DEF LiveInv, LiveParts, PlansOK
<1> QED BY <1>1, <1>2, LeftAside DEF Locked, EarlySteps

\* What a plan holds is the last of it, or comes before something.
LEMMA NoneGone ==
    ASSUME LiveInv, NEW u \in Tasks, u[1] \in {"Rematch", "Display", "Source"}
    PROVE  ~Has(u, "Gone")
<1> SUFFICES ASSUME Has(u, "Gone") PROVE FALSE
  OBVIOUS
<1> DEFINE s == todo[u]
<1>1. Plan(u, s)
  BY DEF LiveInv, LiveParts, PlansOK
<1>2. PICK i \in 1..Len(s) : s[i] = "Gone"
  BY DEF Has, Holds
<1>3. Len(s) \in Nat /\ s # <<>>
  <2>1. s \in Seq(Steps)
    BY <1>1 DEF Plan
  <2>2. Len(s) \in Nat
    BY <2>1
  <2> QED BY <1>2, <2>1, <2>2
<1>4. CASE i = Len(s)
  BY <1>1, <1>2, <1>3, <1>4 DEF Plan, Ends
<1>5. CASE i # Len(s)
  <2>1. <<s[i], s[i + 1]>> \in Links[u[1]]
    BY <1>1, <1>3, <1>5 DEF Plan
  <2> QED BY <1>2, <2>1 DEF Links, Stop
<1> QED BY <1>4, <1>5

\* The plans that count stay as they are but for one task's.
Still(t) == \A u \in Tasks : u # t /\ u[1] \notin {"Rematch", "Display"} => todo'[u] = todo[u]

LEMMA MovesStill == \A t \in Tasks : Moves(t) => Still(t)
  BY DEF Moves, Still

\* What a start needs of the others, it needs of none.
LEMMA StillGone ==
    ASSUME LiveInv, NEW t \in Tasks, Still(t), ToGo, Has(t, "Gone") => Has(t, "Gone")'
    PROVE  ToGo'
<1>1. PICK u \in Tasks : Has(u, "Gone")
  BY DEF ToGo
<1>2. u[1] \notin {"Rematch", "Display"}
  BY <1>1, NoneGone
<1>3. Has(u, "Gone")'
  BY <1>1, <1>2 DEF Still, Has
<1> QED BY <1>3 DEF ToGo

\* A start that has put away what was on has no film on.
LEMMA AwayOff ==
    ASSUME LiveInv, Watching, NEW n \in StartIds, Clears(n), ~Is(Start(n), "StopHere")
    PROVE  /\ ~FilmOn
           /\ film # None => Has(Start(n), "Finish") /\ own[Start(n)] = film.number
<1> USE Held
<1>1. film # None => Has(Start(n), "Finish") /\ own[Start(n)] = film.number
  BY DEF Watching, FilmGone
<1>2. film # None => here[film.number] < pnum
  BY <1>1, TaskNames DEF LiveInv, LiveParts, FinishLate
<1>3. film # None => pnum # here[film.number]
  BY <1>2
<1> QED BY <1>1, <1>3 DEF FilmOn

----------------------------------------------------------------------------
(* What keeps it: a step of a task that is no start with the lock, and one of *)
(* the start that has it.                                                     *)

\* No film's number comes up with the player's again.
LEMMA HereKept ==
    ASSUME LiveInv, HereOn, UNCHANGED <<next, here>>, SameFilm, pnum' \in Nat, pnum' >= pnum,
           FilmOn => FilmOn' \/ pnum' > pnum
    PROVE  HereOn' /\ (FilmOn' => FilmOn /\ pnum' = pnum)
<1> USE Held
<1>0. \A m \in StartIds : m <= next => here[m] \in 0..pnum
  BY DEF FilmsFollowed
<1>1. HereOn'
  <2> SUFFICES ASSUME NEW m \in StartIds, m <= next, here[m] = pnum'
               PROVE  film' # None /\ film'.number = m
    BY DEF HereOn
  <2>1. pnum' = pnum
    BY <1>0
  <2>2. film # None /\ film.number = m
    BY <2>1 DEF HereOn
  <2>3. FilmOn'
    BY <2>1, <2>2 DEF FilmOn
  <2> QED BY <2>2, <2>3 DEF FilmOn, SameFilm
<1>2. FilmOn' => FilmOn /\ pnum' = pnum
  <2> SUFFICES ASSUME FilmOn' PROVE FilmOn /\ pnum' = pnum
    OBVIOUS
  <2>1. film # None /\ film'.number = film.number /\ pnum' = here'[film'.number]
    BY DEF FilmOn, SameFilm
  <2>2. pnum' = here[film.number]
    BY <2>1
  <2> QED BY <2>1, <2>2 DEF FilmOn
<1> QED BY <1>1, <1>2

LEMMA BesideKeeps ==
    ASSUME LiveInv, Watching, NEW t \in Tasks, Still(t), UNCHANGED <<may, next, here>>, SameFilm,
           t[1] = "Start" => Aside(todo[t]) /\ Aside(todo'[t]),
           \A n \in StartIds : t # Start(n) => own'[Start(n)] = own[Start(n)],
           pnum' \in Nat, pnum' >= pnum, FilmOn => FilmOn' \/ pnum' > pnum,
           receiver = None => receiver' = None, ReceiverUp' => ReceiverUp,
           ReceiverUp' /\ Has(t, "Gone") => Has(t, "Gone")',
           ReceiverUp' /\ film # None /\ pnum' # pnum => Has(t, "Gone")',
           Unpressed', Queued', Past => Past', Past /\ Waiting => Waiting',
           Apartness /\ ~Past' =>
               /\ unit' = unit /\ life' = life /\ (ReceiverUp => ReceiverUp') /\ (FilmOn => FilmOn')
               /\ \A m \in StartIds : /\ t = Mpv(m) => todo'[t] = <<>> \/ Is(t, "Hear")'
                                      /\ t = Source(m) => todo'[t] = <<>> \/ Is(t, "Watch")'
    PROVE  Watching'
<1>1. HereOn' /\ (FilmOn' => FilmOn /\ pnum' = pnum)
  BY HereKept DEF Watching
<1>2. ASSUME NEW n \in StartIds
      PROVE  todo'[Start(n)] = todo[Start(n)] \/ (Aside(todo[Start(n)]) /\ Aside(todo'[Start(n)]))
  BY TaskNames DEF Still
<1>3. ReceiverAlone'
  <2> SUFFICES ASSUME NEW n \in StartIds, (Is(Start(n), "Cleaned") \/ Is(Start(n), "Receiver"))'
               PROVE  receiver' = None
    BY DEF ReceiverAlone
  <2>1. todo'[Start(n)] = todo[Start(n)]
    BY <1>2 DEF Aside, Is, EarlySteps
  <2> QED BY <2>1 DEF Watching, ReceiverAlone, Is
<1>4. FilmGone'
  <2> SUFFICES ASSUME NEW n \in StartIds, Clears(n)', film' # None
               PROVE  \/ Is(Start(n), "StopHere")'
                      \/ Has(Start(n), "Finish")' /\ own'[Start(n)] = film'.number
    BY DEF FilmGone
  <2>1. ~Aside(todo'[Start(n)])
    BY DEF Clears, Puts, Aside, EarlySteps, Away
  <2>2. todo'[Start(n)] = todo[Start(n)]
    BY <1>2, <2>1
  <2>3. Start(n) # t
    BY <2>1, TaskNames
  <2>4. own'[Start(n)] = own[Start(n)] /\ Clears(n)
    BY <2>2, <2>3 DEF Clears, Puts
  <2> QED BY <2>2, <2>4 DEF Watching, FilmGone, SameFilm, Is, Has
<1>5. ASSUME ReceiverUp', ToGo PROVE ToGo'
  BY <1>5, StillGone
<1>6. FilmLeaving'
  <2> SUFFICES ASSUME film' # None, pnum' # here'[film'.number], ReceiverUp'
               PROVE  ToGo' \/ \E n \in StartIds : Puts(n)'
    BY DEF FilmLeaving
  <2>1. film # None /\ film'.number = film.number
    BY DEF SameFilm
  <2>2. CASE pnum' # pnum
    BY <2>1, <2>2 DEF ToGo
  <2>3. CASE pnum' = pnum
    <3>1. ToGo \/ \E n \in StartIds : Puts(n)
      BY <2>1, <2>3 DEF Watching, FilmLeaving
    <3>2. \A n \in StartIds : Puts(n) => Puts(n)'
      BY <1>2 DEF Puts, Aside
    <3> QED BY <1>5, <3>1, <3>2
  <2> QED BY <2>2, <2>3
<1>7. ASSUME Apartness PROVE ReceiverWatched'
  <2> SUFFICES ASSUME ReceiverUp' PROVE ToGo' \/ Tending' \/ FilmOn' \/ (Past' /\ Waiting')
    BY DEF ReceiverWatched
  <2>1. ToGo \/ Tending \/ FilmOn \/ (Past /\ Waiting)
    BY <1>7 DEF Watching, ReceiverWatched
  <2>2. Tending => Tending'
    BY <1>2 DEF Tending, Tends, Puts, Keeps, Has, Aside
  <2>3. ASSUME FilmOn, ~FilmOn' PROVE ToGo'
    BY <2>3, LiveStartAssumption DEF ToGo, FilmOn, LiveInv, LiveParts, HeldOK
  <2> QED BY <1>5, <2>1, <2>2, <2>3
<1>8. ASSUME Apartness, ~Past' PROVE Calm'
  <2>1. Calm
    BY <1>8 DEF Watching
  <2>2. ASSUME NEW n \in StartIds PROVE Whole(n)'
    <3>1. CASE Aside(todo'[Start(n)])
      BY <3>1 DEF Whole, Uses, Aside, EarlySteps, Is, Keeps, Has
    <3>2. CASE todo'[Start(n)] = todo[Start(n)]
      <4>1. Whole(n)
        BY <2>1 DEF Calm
      <4> QED BY <1>8, <3>2, <4>1 DEF Whole, Uses, Is, Keeps, Has
    <3> QED BY <1>2, <3>1, <3>2
  <2>3. ASSUME NEW m \in StartIds
        PROVE  /\ todo'[Mpv(m)] = <<>> \/ Is(Mpv(m), "Hear")'
               /\ todo'[Source(m)] = <<>> \/ Is(Source(m), "Watch")'
    BY <1>8, <2>1, TaskNames DEF Calm, Still, Is
  <2>4. FilmOn' => unit' # None /\ ReceiverUp' /\ life' # "Cleaned"
    BY <1>1, <1>8, <2>1 DEF Calm
  <2> QED BY <2>2, <2>3, <2>4 DEF Calm
<1>9. Straight'
  <2> SUFFICES ASSUME NEW n \in StartIds, EndsIn(todo'[Start(n)], {"Begin"})
               PROVE  ~Has(Start(n), "Gone")' /\ ~Has(Start(n), "Cleaned")'
    BY DEF Straight
  <2>1. todo'[Start(n)] = todo[Start(n)]
    BY <1>2 DEF Aside
  <2> QED BY <2>1 DEF Watching, Straight, Has
<1>10. Apartness' <=> Apartness
  BY DEF Apartness
<1> QED BY <1>1, <1>3, <1>4, <1>6, <1>7, <1>8, <1>9, <1>10 DEF Watching

\* What the start that has the lock has to leave.
LEMMA HolderKeeps ==
    ASSUME LiveInv, Watching, NEW n \in StartIds, Locked(n), ~Is(Start(n), "Over"), Still(Start(n)),
           UNCHANGED <<begun, calledOff, may, next, here>>, SameFilm,
           pnum' \in Nat, pnum' >= pnum, FilmOn => FilmOn' \/ pnum' > pnum,
           (Is(Start(n), "Cleaned") \/ Is(Start(n), "Receiver"))' => receiver' = None,
           Clears(n)' => \/ Is(Start(n), "StopHere")'
                         \/ Has(Start(n), "Finish")' /\ (film' # None => own'[Start(n)] = film'.number)
                         \/ film' = None,
           EndsIn(todo'[Start(n)], {"Begin"}) =>
               ~Has(Start(n), "Gone")' /\ ~Has(Start(n), "Cleaned")',
           ReceiverUp' => ReceiverUp \/ Tends(n)',
           ReceiverUp' /\ Has(Start(n), "Gone") => Has(Start(n), "Gone")',
           ReceiverUp' /\ film' # None /\ (Puts(n) \/ (FilmOn /\ pnum' # pnum))
               => Puts(n)' \/ Has(Start(n), "Gone")',
           ReceiverUp' /\ Tends(n) => Tends(n)' \/ Has(Start(n), "Gone")',
           Apartness /\ ReceiverUp' /\ FilmOn /\ pnum' # pnum
               => Tends(n)' \/ Has(Start(n), "Gone")' \/ (Past /\ Waiting'),
           Apartness /\ ReceiverUp' /\ Waits(n) => Waits(n)' \/ ToGo' \/ Tending' \/ FilmOn',
           Apartness /\ ~Past => Whole(n)' /\ (FilmOn' => unit' # None /\ ReceiverUp' /\ life' # "Cleaned")
    PROVE  Watching'
<1> DEFINE t == Start(n)
<1>0. t \in Tasks /\ t[1] = "Start" /\ t # Back /\ Back \in Tasks /\ Back[1] = "Back"
  BY TaskNames, TasksDiffer
<1>1. HereOn' /\ (FilmOn' => FilmOn /\ pnum' = pnum)
  BY HereKept DEF Watching
<1>2. ASSUME NEW k \in StartIds, k # n
      PROVE  todo'[Start(k)] = todo[Start(k)] /\ Aside(todo[Start(k)]) /\ ~Locked(k)
  BY <1>2, OthersAside, TaskNames, TasksDiffer DEF Still
<1>b. todo'[Back] = todo[Back] /\ (Past' <=> Past)
  BY <1>0 DEF Still, Past, Is
<1>3. ReceiverAlone'
  <2> SUFFICES ASSUME NEW k \in StartIds, (Is(Start(k), "Cleaned") \/ Is(Start(k), "Receiver"))'
               PROVE  receiver' = None
    BY DEF ReceiverAlone
  <2>1. k = n
    BY <1>2 DEF Aside, Is, EarlySteps
  <2> QED BY <2>1
<1>4. FilmGone'
  <2>1. ASSUME NEW k \in StartIds, Clears(k)' PROVE k = n
    BY <1>2, <2>1 DEF Clears, Puts, Aside, EarlySteps, Away
  <2> QED BY <2>1 DEF FilmGone
<1>5. ASSUME ReceiverUp', ToGo PROVE ToGo'
  BY <1>0, <1>5, StillGone
<1>6. FilmLeaving'
  <2> SUFFICES ASSUME film' # None, pnum' # here'[film'.number], ReceiverUp'
               PROVE  ToGo' \/ \E k \in StartIds : Puts(k)'
    BY DEF FilmLeaving
  <2>1. film # None /\ film'.number = film.number /\ ~FilmOn'
    BY DEF SameFilm, FilmOn
  <2>2. Has(t, "Gone")' => ToGo'
    BY <1>0 DEF ToGo
  <2>3. CASE FilmOn
    <3>1. pnum' # pnum
      BY <2>1, <2>3, LiveStartAssumption DEF LiveInv, LiveParts, HeldOK
    <3> QED BY <2>2, <2>3, <3>1
  <2>4. CASE ~ReceiverUp
    BY <2>4 DEF Tends
  <2>5. CASE ~FilmOn /\ ReceiverUp
    <3>1. ToGo \/ \E k \in StartIds : Puts(k)
      BY <2>1, <2>5 DEF Watching, FilmLeaving, FilmOn
    <3>2. \A k \in StartIds : Puts(k) => k = n
      BY <1>2 DEF Puts, Aside
    <3> QED BY <1>5, <2>2, <3>1, <3>2
  <2> QED BY <2>3, <2>4, <2>5
<1>7. ASSUME Apartness PROVE ReceiverWatched'
  <2> SUFFICES ASSUME ReceiverUp' PROVE ToGo' \/ Tending' \/ FilmOn' \/ (Past' /\ Waiting')
    BY DEF ReceiverWatched
  <2>0. (Tends(n)' => Tending') /\ (Has(t, "Gone")' => ToGo')
    BY <1>0 DEF ToGo, Tending
  <2>1. CASE ~ReceiverUp
    BY <2>0, <2>1
  <2>2. CASE ToGo
    BY <1>5, <2>2
  <2>3. CASE Tending
    <3>1. Tends(n)
      BY <1>2, <2>3 DEF Tending, Tends, Puts, Aside
    <3> QED BY <2>0, <3>1
  <2>4. CASE FilmOn
    <3>1. FilmOn' \/ pnum' # pnum
      BY <2>4, LiveStartAssumption DEF LiveInv, LiveParts, HeldOK
    <3> QED BY <1>7, <1>b, <2>0, <2>4, <3>1
  <2>5. CASE Past /\ Waiting
    <3>1. PICK k \in StartIds : Waits(k)
      BY <2>5 DEF Waiting
    <3>2. CASE k = n
      BY <1>7, <1>b, <2>5, <3>1, <3>2 DEF Waiting
    <3>3. CASE k # n
      <4>1. Waits(k)'
        BY <1>2, <3>1, <3>3 DEF Waits
      <4> QED BY <1>b, <2>5, <4>1 DEF Waiting
    <3> QED BY <3>2, <3>3
  <2>6. ReceiverUp => ToGo \/ Tending \/ FilmOn \/ (Past /\ Waiting)
    BY <1>7 DEF Watching, ReceiverWatched
  <2> QED BY <2>1, <2>2, <2>3, <2>4, <2>5, <2>6
<1>8. ASSUME Apartness, ~Past' PROVE Calm'
  <2>1. Calm /\ ~Past
    BY <1>8, <1>b DEF Watching
  <2>2. ASSUME NEW k \in StartIds PROVE Whole(k)'
    <3>1. CASE k = n
      BY <1>8, <2>1, <3>1
    <3>2. CASE k # n
      BY <1>2, <3>2 DEF Whole, Uses, Aside, EarlySteps, Is, Keeps, Has
    <3> QED BY <3>1, <3>2
  <2>3. ASSUME NEW m \in StartIds
        PROVE  /\ todo'[Mpv(m)] = <<>> \/ Is(Mpv(m), "Hear")'
               /\ todo'[Source(m)] = <<>> \/ Is(Source(m), "Watch")'
    <3>1. todo'[Mpv(m)] = todo[Mpv(m)] /\ todo'[Source(m)] = todo[Source(m)]
      BY <1>0, TaskNames DEF Still
    <3> QED BY <2>1, <3>1 DEF Calm, Is
  <2> QED BY <1>8, <2>1, <2>2, <2>3 DEF Calm
<1>9. Straight'
  <2>1. ASSUME NEW k \in StartIds, EndsIn(todo'[Start(k)], {"Begin"}) PROVE k = n
    BY <1>2, <2>1 DEF Aside
  <2> QED BY <2>1 DEF Straight
<1>10. Unpressed'
  BY <1>b DEF Watching, Unpressed
<1>11. Queued'
  <2> SUFFICES ASSUME NEW m \in StartIds, Locked(m)', NEW k \in StartIds, m < k, k <= begun'
               PROVE  todo'[Start(k)] # <<>>
    BY DEF Queued
  <2>1. m = n
    BY <1>2 DEF Locked
  <2>2. k # n
    BY <2>1 DEF StartIds
  <2>3. todo[Start(k)] # <<>>
    BY <2>1 DEF Watching, Queued
  <2> QED BY <1>2, <2>2, <2>3
<1>12. Apartness' <=> Apartness
  BY DEF Apartness
<1> QED BY <1>1, <1>3, <1>4, <1>6, <1>7, <1>8, <1>9, <1>10, <1>11, <1>12 DEF Watching

----------------------------------------------------------------------------
(* A start that goes on with its plan.                                        *)

LEMMA StartDone ==
    ASSUME LiveInv, NEW n \in StartIds, todo[Start(n)] # <<>>, Done(Start(n)),
           Head(todo[Start(n)]) \notin EarlySteps \cup Ends["Start"]
    PROVE  /\ Locked(n) /\ ~Is(Start(n), "Over") /\ Still(Start(n)) /\ todo'[Start(n)] # <<>>
           /\ <<Head(todo[Start(n)]), Head(todo'[Start(n)])>> \in Links["Start"]
           /\ \A step : Has(Start(n), step) <=> Is(Start(n), step) \/ Has(Start(n), step)'
           /\ \A steps : EndsIn(todo[Start(n)], steps) <=> EndsIn(todo'[Start(n)], steps)
<1>1. Start(n) \in Tasks /\ Start(n)[1] = "Start" /\ PlansOK
  BY TaskNames DEF LiveInv, LiveParts
<1>2. Locked(n) /\ ~Is(Start(n), "Over")
  BY DEF Locked, EarlySteps, Is, Ends
<1>3. /\ Moves(Start(n))
      /\ \A step : Holds(todo[Start(n)], step)
            <=> Head(todo[Start(n)]) = step \/ Holds(todo'[Start(n)], step)
      /\ todo'[Start(n)] # <<>>
      /\ <<Head(todo[Start(n)]), Head(todo'[Start(n)])>> \in Links["Start"]
      /\ \A steps : EndsIn(todo[Start(n)], steps) <=> EndsIn(todo'[Start(n)], steps)
  BY <1>1, DoneMoves
<1>4. Still(Start(n))
  BY <1>1, <1>3, MovesStill
<1> QED BY <1>2, <1>3, <1>4 DEF Has, Is

\* A start that clears is not at one of the steps that no plan to clear begins with.
LEMMA AwayDone ==
    ASSUME LiveInv, Watching, NEW n \in StartIds, Clears(n), todo[Start(n)] # <<>>, Done(Start(n)),
           Head(todo[Start(n)]) \notin EarlySteps \cup Ends["Start"] \cup {"StopHere", "Switch"},
           UNCHANGED <<begun, calledOff, may, next, here>>, SameFilm, pnum' \in Nat, pnum' >= pnum,
           Has(Start(n), "Finish")' => own'[Start(n)] = own[Start(n)],
           Is(Start(n), "Finish") => film' = None,
           (Is(Start(n), "Cleaned") \/ Is(Start(n), "Receiver"))' => receiver' = None,
           Is(Start(n), "Gone") => ~ReceiverUp', ReceiverUp' => ReceiverUp \/ Tends(n)',
           Apartness /\ ~Past /\ Whole(n) /\ Uses(n)' => ReceiverUp' /\ life' # "Cleaned",
           Apartness /\ ~Past /\ Whole(n) /\ (Is(Start(n), "Launched") \/ Is(Start(n), "Begin"))'
               => unit' # None
    PROVE  Watching'
<1> DEFINE t == Start(n)
<1>1. /\ Locked(n) /\ ~Is(t, "Over") /\ Still(t) /\ todo'[t] # <<>>
      /\ <<Head(todo[t]), Head(todo'[t])>> \in Links["Start"]
      /\ \A step : Has(t, step) <=> Is(t, step) \/ Has(t, step)'
      /\ \A steps : EndsIn(todo[t], steps) <=> EndsIn(todo'[t], steps)
  BY StartDone
<1>2. /\ ~FilmOn
      /\ film # None => Has(t, "Finish") /\ own[t] = film.number
  BY AwayOff DEF Is
<1>3. ~FilmOn'
  BY <1>2, HereKept DEF Watching
<1>4. /\ Head(todo'[t]) \notin {"Switch", "Reload", "Retry", "StopHere"}
      /\ Head(todo'[t]) = "Over" => Head(todo[t]) = "Cleaned"
      /\ Head(todo'[t]) \in Away => Head(todo[t]) \in Away
  BY <1>1 DEF Links, Stop, Away, Ends
<1>5. Clears(n)' => film' = None \/ (Has(t, "Finish")' /\ own'[t] = film'.number)
  BY <1>1, <1>2 DEF SameFilm
<1>6. EndsIn(todo'[t], {"Begin"}) => ~Has(t, "Gone")' /\ ~Has(t, "Cleaned")'
  BY <1>1 DEF Watching, Straight
<1>7. (Puts(n)' <=> Puts(n)) /\ (Tends(n) => Tends(n)')
  BY <1>1 DEF Puts, Tends, Keeps
<1>8. ReceiverUp' /\ Has(t, "Gone") => Has(t, "Gone")'
  BY <1>1
<1>9. ReceiverUp' /\ Waits(n) => Waits(n)' \/ Tending'
  <2>1. CASE Head(todo'[t]) = "Over"
    <3>1. receiver = None
      BY <1>4, <2>1 DEF Watching, ReceiverAlone, Is
    <3> QED BY <3>1 DEF ReceiverUp, Tending
  <2>2. CASE Head(todo'[t]) # "Over"
    BY <1>1, <1>4, <2>2 DEF Waits
  <2> QED BY <2>1, <2>2
<1>10. ASSUME Apartness, ~Past PROVE Whole(n)'
  <2>1. Whole(n)
    BY <1>10 DEF Watching, Calm
  <2>2. ~Is(t, "Retry")' /\ ~Is(t, "Switch")' /\ ~Is(t, "Reload")'
    BY <1>4 DEF Is
  <2>3. ~Keeps(n)'
    BY <1>1, <2>1 DEF Whole, Keeps
  <2> QED BY <1>10, <2>1, <2>2, <2>3 DEF Whole
<1> QED BY <1>1, <1>2, <1>3, <1>5, <1>6, <1>7, <1>8, <1>9, <1>10, HolderKeeps

\* The receiver is stopped, or everything anew.
LEMMA GoesDown ==
    ASSUME LiveInv, Watching, NEW n \in StartIds, Locked(n), ~Is(Start(n), "Over"), GiveUp(n), Puts(n),
           ~Is(Start(n), "StopHere"), ~Has(Start(n), "Finish"), ~Has(Start(n), "Gone"),
           UNCHANGED <<begun, calledOff, may, next, film, here, receiver>>, pnum' \in Nat, pnum' >= pnum
    PROVE  Watching'
<1> DEFINE t == Start(n)
<1>0. t \in Tasks /\ t[1] = "Start" /\ PlansOK
  BY TaskNames DEF LiveInv, LiveParts
<1>1. Made(t, GiveUpPlan, "Stopping", {"Stopping", "Gone", "Cleaned", "Over"}, "Over")
  BY <1>0, GiveUpMade
<1>2. Moves(t) /\ todo'[t] = GiveUpPlan
  BY <1>0, <1>1, GoesMoves DEF GiveUp, GiveUpPlan, Made
<1>3. film = None /\ ~FilmOn /\ ~FilmOn'
  BY AwayOff DEF Clears, FilmOn
<1>4. Has(t, "Gone")' /\ Is(t, "Stopping")' /\ Still(t) /\ \A ends : EndsIn(todo'[t], ends) <=> "Over" \in ends
  BY <1>0, <1>1, <1>2, MovesStill DEF Made, Has, Is
<1>5. Whole(n)'
  <2>1. ~Keeps(n)' /\ ~Uses(n)'
    BY <1>1, <1>2, <1>4 DEF Made, Keeps, Has, Uses, Is
  <2> QED BY <1>4, <2>1 DEF Whole, Is
<1>6. SameFilm /\ (ReceiverUp' <=> ReceiverUp)
  BY <1>3 DEF SameFilm, ReceiverUp
<1>7. Waits(n) => Waits(n)'
  BY <1>4 DEF Waits, Is
<1> QED BY <1>3, <1>4, <1>5, <1>6, <1>7, HolderKeeps DEF Is

LEMMA GoesCold ==
    ASSUME LiveInv, Watching, NEW n \in StartIds, Locked(n), ~Is(Start(n), "Over"),
           Goes(Start(n), ColdStart), ~Has(Start(n), "Gone"),
           UNCHANGED <<begun, calledOff, may, next, film, here, pnum, unit, receiver, life>>
    PROVE  Watching'
<1> DEFINE t == Start(n)
<1>0. t \in Tasks /\ t[1] = "Start" /\ PlansOK /\ pnum \in Nat
  BY TaskNames DEF LiveInv, LiveParts, HeldOK
<1>1. Made(t, ColdStart, "StopHere", {"StopHere", "Stopping", "Gone", "Cleaned", "Receiver",
                                      "Up", "Opened", "Rate", "Match", "Matched"}, "Matched")
  BY <1>0, ColdMade
<1>2. Moves(t) /\ todo'[t] = ColdStart
  BY <1>0, <1>1, GoesMoves DEF Made
<1>3. /\ Is(t, "StopHere")' /\ Still(t) /\ \A ends : EndsIn(todo'[t], ends) <=> "Matched" \in ends
      /\ Tends(n)' /\ Puts(n)'
  BY <1>0, <1>1, <1>2, MovesStill DEF Made, Has, Is, Tends, Puts, Keeps
<1>4. FilmOn' <=> FilmOn
  BY DEF FilmOn
<1>5. Whole(n)'
  <2>1. ~Keeps(n)' /\ ~Uses(n)'
    BY <1>3 DEF Tends, Uses, Is
  <2> QED BY <1>3, <2>1 DEF Whole, Is
<1>6. SameFilm /\ (ReceiverUp' <=> ReceiverUp)
  BY DEF SameFilm, ReceiverUp
<1>7. Waits(n) => Waits(n)'
  BY <1>3 DEF Waits, Is
<1>8. Apartness /\ ~Past /\ FilmOn => unit # None /\ ReceiverUp /\ life # "Cleaned"
  BY DEF Watching, Calm
<1>9. ~(Is(t, "Cleaned") \/ Is(t, "Receiver"))'
  BY <1>3 DEF Is
<1> QED BY <1>0, <1>3, <1>4, <1>5, <1>6, <1>7, <1>8, <1>9, HolderKeeps

----------------------------------------------------------------------------
(* The steps of a start that shows its channel, or stops what is on.          *)

\* What a start has before it, by its first step.
LEMMA StartHolds ==
    ASSUME LiveInv, NEW n \in StartIds, todo[Start(n)] # <<>>, Head(todo[Start(n)]) \in DOMAIN Left
    PROVE  /\ \A step : Has(Start(n), step) <=> step \in Left[Head(todo[Start(n)])]
           /\ \A ends : EndsIn(todo[Start(n)], ends) <=> Last[Head(todo[Start(n)])] \in ends
<1>1. Plan(Start(n), todo[Start(n)]) /\ Start(n)[1] = "Start"
  BY TaskNames DEF LiveInv, LiveParts, PlansOK
<1>2. LeftIs(todo[Start(n)])
  BY <1>1, StartLeft
<1> QED BY <1>2 DEF LeftIs, Has

LEMMA TakeWatched == ASSUME LiveInv, Watching, NEW n \in StartIds, Take(Start(n)) PROVE Watching'
<1> DEFINE t == Start(n)
<1>1. /\ todo[t] # <<>> /\ Head(todo[t]) = "Take" /\ Done(t) /\ pnum' = pnum + 1
      /\ UNCHANGED <<begun, calledOff, may, next, here, film, own, receiver, life, unit>>
  BY DEF Take, Is, LetsGo, startVars, playVars, given, tunerVars
<1>2. Clears(n) /\ pnum \in Nat
  BY <1>1, Held DEF Clears, Away
<1>3. Head(todo'[t]) = "Quit" /\ \A steps : EndsIn(todo[t], steps) <=> EndsIn(todo'[t], steps)
  BY <1>1, StartDone DEF EarlySteps, Ends, Links, Stop
<1>4. SameFilm /\ (ReceiverUp' <=> ReceiverUp)
  BY <1>1 DEF SameFilm, ReceiverUp
<1>5. Uses(n)' => Uses(n)
  BY <1>3 DEF Uses, Is
<1> QED BY <1>1, <1>2, <1>3, <1>4, <1>5, AwayDone DEF EarlySteps, Ends, Is, Whole

LEMMA QuitWatched == ASSUME LiveInv, Watching, NEW n \in StartIds, Quit(Start(n)) PROVE Watching'
<1> DEFINE t == Start(n)
<1>1. /\ todo[t] # <<>> /\ Head(todo[t]) = "Quit" /\ Done(t)
      /\ UNCHANGED <<begun, calledOff, may, next, here, film, own, receiver, life, pnum>>
  BY DEF Quit, Is, startVars, playVars, given, tunerVars
<1>2. Clears(n) /\ pnum \in Nat
  BY <1>1, Held DEF Clears, Away
<1>3. /\ Head(todo'[t]) \in {"Stopping", "Finish", "Launch"}
      /\ \A steps : EndsIn(todo[t], steps) <=> EndsIn(todo'[t], steps)
  BY <1>1, StartDone DEF EarlySteps, Ends, Links, Stop
<1>4. SameFilm /\ (ReceiverUp' <=> ReceiverUp)
  BY <1>1 DEF SameFilm, ReceiverUp
<1>5. Uses(n)' => Uses(n)
  BY <1>3 DEF Uses, Is
<1> QED BY <1>1, <1>2, <1>3, <1>4, <1>5, AwayDone DEF EarlySteps, Ends, Is, Whole

LEMMA FinishWatched == ASSUME LiveInv, Watching, NEW n \in StartIds, Finish(Start(n)) PROVE Watching'
<1> DEFINE t == Start(n)
<1>1. /\ todo[t] # <<>> /\ Head(todo[t]) = "Finish" /\ Done(t)
      /\ UNCHANGED <<begun, calledOff, may, here, own, receiver, life, pnum, unit>>
      /\ IF P!Playing(own[t]) THEN P!Finish(own[t], "Gone") ELSE UNCHANGED playVars
  BY DEF Finish, Is, startVars, playerVars, given, tunerVars
<1>2. Clears(n) /\ pnum \in Nat
  BY <1>1, Held DEF Clears, Away
<1>3. /\ Head(todo'[t]) \in {"Stopping", "Ask"}
      /\ \A steps : EndsIn(todo[t], steps) <=> EndsIn(todo'[t], steps)
  BY <1>1, StartDone DEF EarlySteps, Ends, Links, Stop
<1>4. film' = None /\ next' = next
  <2>1. film # None => own[t] = film.number
    BY <1>1, <1>2, AwayOff DEF Is
  <2> QED BY <1>1, <2>1 DEF P!Playing, P!Finish, playVars
<1>5. SameFilm /\ (ReceiverUp' <=> ReceiverUp)
  BY <1>1, <1>4 DEF SameFilm, ReceiverUp
<1>6. Uses(n)' => Uses(n)
  BY <1>3 DEF Uses, Is
<1> QED BY <1>1, <1>2, <1>3, <1>4, <1>5, <1>6, AwayDone DEF EarlySteps, Ends, Is, Whole

LEMMA StoppingWatched ==
    ASSUME LiveInv, Watching, NEW n \in StartIds, Stopping(Start(n)) PROVE Watching'
<1> DEFINE t == Start(n)
<1>1. /\ todo[t] # <<>> /\ Head(todo[t]) = "Stopping"
      /\ UNCHANGED <<begun, calledOff, may, next, here, film, own, receiver, pnum, unit>>
      /\ \/ life = "Cleaned" /\ receiver = None /\ life' = life
            /\ Goes(t, SubSeq(todo[t], 4, Len(todo[t])))
         \/ life' = "Stopping" /\ Done(t)
  BY DEF Stopping, Is, startVars, playVars, playerVars, given
<1>2. Clears(n) /\ pnum \in Nat
  BY <1>1, Held DEF Clears, Away
<1>4. SameFilm /\ (ReceiverUp' <=> ReceiverUp)
  BY <1>1 DEF SameFilm, ReceiverUp
<1>5. CASE life' = "Stopping" /\ Done(t)
  <2>1. /\ Head(todo'[t]) = "Gone"
        /\ \A steps : EndsIn(todo[t], steps) <=> EndsIn(todo'[t], steps)
    BY <1>1, <1>5, StartDone DEF EarlySteps, Ends, Links, Stop
  <2>2. Uses(n)' => Uses(n)
    BY <2>1 DEF Uses, Is
  <2> QED BY <1>1, <1>2, <1>4, <1>5, <2>1, <2>2, AwayDone DEF EarlySteps, Ends, Is, Whole
<1>6. CASE receiver = None /\ life' = life /\ Goes(t, SubSeq(todo[t], 4, Len(todo[t])))
  <2> DEFINE r == Skipped(todo[t])
  <2>1. Plan(t, todo[t]) /\ t \in Tasks /\ t[1] = "Start" /\ PlansOK
    BY TaskNames DEF LiveInv, LiveParts, PlansOK
  <2>2. /\ Plan(t, r)
        /\ \A step : Holds(todo[t], step) <=> step \in {"Stopping", "Gone", "Cleaned"} \/ Holds(r, step)
        /\ \A steps : r # <<>> => (EndsIn(todo[t], steps) <=> EndsIn(r, steps))
        /\ r # <<>> => <<"Cleaned", Head(r)>> \in Links["Start"]
        /\ r = <<>> => "Cleaned" \in Ends["Start"]
    BY <1>1, <2>1, SkipMade
  <2>3. Moves(t) /\ todo'[t] = r
    BY <1>6, <2>1, <2>2, GoesMoves DEF Skipped
  <2> HIDE DEF r
  <2>4. /\ todo'[t] # <<>> /\ Head(todo'[t]) \in {"Finish", "Receiver", "Over"}
        /\ \A steps : EndsIn(todo[t], steps) <=> EndsIn(todo'[t], steps)
        /\ Has(t, "Finish") <=> Has(t, "Finish")'
    BY <2>2, <2>3 DEF Ends, Links, Stop, Has
  <2>5. Still(t) /\ Locked(n) /\ ~Is(t, "Over") /\ ~Is(t, "StopHere")
    BY <1>1, <2>1, <2>3, MovesStill DEF Locked, Is
  <2>6. ~ReceiverUp /\ ~ReceiverUp' /\ receiver' = None
    BY <1>1, <1>4, <1>6 DEF ReceiverUp
  <2>7. ~FilmOn /\ ~FilmOn'
    BY <1>1, <1>2, <2>5, AwayOff DEF FilmOn
  <2>8. ~EndsIn(todo'[t], {"Begin"})
    <3>1. Has(t, "Gone")
      BY <2>2 DEF Has
    <3> QED BY <2>4, <3>1 DEF Watching, Straight
  <2>9. Clears(n)' => film' = None \/ (Has(t, "Finish")' /\ own'[t] = film'.number)
    BY <1>1, <1>2, <2>4, <2>5, AwayOff
  <2>10. ASSUME Apartness, ~Past PROVE Whole(n)'
    <3>1. Whole(n)
      BY <2>10 DEF Watching, Calm
    <3>2. ~Keeps(n)'
      BY <2>2, <2>3, <3>1 DEF Whole, Keeps, Has
    <3> QED BY <2>4, <2>8, <3>2 DEF Whole, Uses, Is
  <2> QED BY <1>1, <1>2, <1>4, <2>5, <2>6, <2>7, <2>8, <2>9, <2>10, HolderKeeps
<1> QED BY <1>1, <1>5, <1>6

LEMMA GoneWatched == ASSUME LiveInv, Watching, NEW n \in StartIds, Gone(Start(n)) PROVE Watching'
<1> DEFINE t == Start(n)
<1>1. /\ todo[t] # <<>> /\ Head(todo[t]) = "Gone" /\ Done(t) /\ receiver' = None
      /\ UNCHANGED <<begun, calledOff, may, next, here, film, own, life, pnum, unit>>
  BY DEF Gone, Is, startVars, playVars, playerVars, given
<1>2. Clears(n) /\ pnum \in Nat
  BY <1>1, Held DEF Clears, Away
<1>3. /\ Head(todo'[t]) = "Cleaned"
      /\ \A steps : EndsIn(todo[t], steps) <=> EndsIn(todo'[t], steps)
      /\ Has(t, "Gone")
  BY <1>1, StartDone DEF EarlySteps, Ends, Links, Stop, Is
<1>4. SameFilm /\ ~ReceiverUp'
  BY <1>1 DEF SameFilm, ReceiverUp
<1>5. ~Uses(n)'
  BY <1>3 DEF Uses, Is, Watching, Straight
<1> QED BY <1>1, <1>2, <1>3, <1>4, <1>5, AwayDone DEF EarlySteps, Ends, Is

LEMMA CleanedWatched == ASSUME LiveInv, Watching, NEW n \in StartIds, Cleaned(Start(n)) PROVE Watching'
<1> DEFINE t == Start(n)
<1>1. /\ todo[t] # <<>> /\ Head(todo[t]) = "Cleaned" /\ Done(t)
      /\ UNCHANGED <<begun, calledOff, may, next, here, film, own, receiver, pnum, unit>>
  BY DEF Cleaned, Is, startVars, playVars, playerVars, given
<1>2. Clears(n) /\ pnum \in Nat /\ receiver' = None
  BY <1>1, Held DEF Clears, Away, Watching, ReceiverAlone, Is
<1>3. /\ Head(todo'[t]) \in {"Finish", "Receiver", "Over"}
      /\ \A steps : EndsIn(todo[t], steps) <=> EndsIn(todo'[t], steps)
      /\ Has(t, "Cleaned")
  BY <1>1, StartDone DEF EarlySteps, Ends, Links, Stop, Is
<1>4. SameFilm /\ ~ReceiverUp'
  BY <1>1, <1>2 DEF SameFilm, ReceiverUp
<1>5. ~Uses(n)'
  BY <1>3 DEF Uses, Is, Watching, Straight
<1> QED BY <1>1, <1>2, <1>3, <1>4, <1>5, AwayDone DEF EarlySteps, Ends, Is

LEMMA MatchWatched == ASSUME LiveInv, Watching, NEW n \in StartIds, Match(Start(n)) PROVE Watching'
<1> DEFINE t == Start(n)
<1>1. /\ todo[t] # <<>> /\ Head(todo[t]) = "Match" /\ Done(t)
      /\ UNCHANGED <<begun, calledOff, may, next, here, film, own, receiver, life, pnum, unit>>
  BY DEF Match, Is, startVars, playVars, playerVars, tunerVars, given
<1>2. Clears(n) /\ pnum \in Nat
  <2>1. EndsIn(todo[t], {"Matched", "Begin"}) <=> Last["Match"] \in {"Matched", "Begin"}
    BY <1>1, StartHolds DEF Left
  <2> QED BY <2>1, Held DEF Clears, Puts, Last
<1>3. Head(todo'[t]) = "Matched"
  BY <1>1, StartDone DEF EarlySteps, Ends, Links, Stop
<1>4. SameFilm /\ (ReceiverUp' <=> ReceiverUp) /\ Uses(n)
  BY <1>1 DEF SameFilm, ReceiverUp, Uses, Is
<1> QED BY <1>1, <1>2, <1>3, <1>4, AwayDone DEF EarlySteps, Ends, Is, Whole

LEMMA AskWatched == ASSUME LiveInv, Watching, NEW n \in StartIds, Ask(n) PROVE Watching'
<1> DEFINE t == Start(n)
<1>1. /\ todo[t] # <<>> /\ Head(todo[t]) = "Ask"
      /\ UNCHANGED <<begun, calledOff, may, next, here, film, own, receiver, life, pnum, unit>>
      /\ Goes(t, ColdStart) \/ Done(t)
  BY DEF Ask, Is, startVars, playVars, playerVars, tunerVars, given
<1>h. /\ \A step : Has(t, step) <=> step \in Left["Ask"]
      /\ \A ends : EndsIn(todo[t], ends) <=> "Matched" \in ends
  BY <1>1, StartHolds DEF Left, Last
<1>2. Clears(n) /\ pnum \in Nat
  BY <1>h, Held DEF Clears, Puts
<1>3. CASE Goes(t, ColdStart)
  <2>1. Locked(n) /\ ~Is(t, "Over") /\ ~Has(t, "Gone")
    BY <1>1, <1>h DEF Locked, Is, Left
  <2> QED BY <1>1, <1>3, <2>1, GoesCold
<1>4. CASE Done(t)
  <2>1. /\ Head(todo'[t]) = "HandSwitch"
        /\ \A ends : EndsIn(todo'[t], ends) <=> "Matched" \in ends
    BY <1>1, <1>4, <1>h, StartDone DEF EarlySteps, Ends, Links, Stop
  <2>2. SameFilm /\ (ReceiverUp' <=> ReceiverUp) /\ ~Uses(n)'
    BY <1>1, <2>1 DEF SameFilm, ReceiverUp, Uses, Is
  <2> QED BY <1>1, <1>2, <1>4, <2>1, <2>2, AwayDone DEF EarlySteps, Ends, Is
<1> QED BY <1>1, <1>3, <1>4

LEMMA ReceiverWatchedStart ==
    ASSUME LiveInv, Watching, NEW n \in StartIds, Receiver(n) PROVE Watching'
<1> DEFINE t == Start(n)
<1>1. /\ todo[t] # <<>> /\ Head(todo[t]) = "Receiver"
      /\ UNCHANGED <<begun, calledOff, may, next, here, film, own, pnum, unit>>
      /\ \/ life' = "Starting" /\ Done(t)
         \/ Goes(t, <<"Over">>) /\ receiver' = receiver
  BY DEF Receiver, Is, startVars, playVars, playerVars, tunerVars, given
<1>h. /\ \A step : Has(t, step) <=> step \in Left["Receiver"]
      /\ \A ends : EndsIn(todo[t], ends) <=> "Matched" \in ends
  BY <1>1, StartHolds DEF Left, Last
<1>2. Clears(n) /\ pnum \in Nat /\ receiver = None
  BY <1>1, <1>h, Held DEF Clears, Puts, Watching, ReceiverAlone, Is
<1>3. SameFilm /\ ~ReceiverUp
  BY <1>1, <1>2 DEF SameFilm, ReceiverUp
<1>4. CASE life' = "Starting" /\ Done(t)
  <2>1. /\ Head(todo'[t]) = "Up"
        /\ \A step : Has(t, step)' => Has(t, step)
        /\ \A ends : EndsIn(todo'[t], ends) <=> "Matched" \in ends
    BY <1>1, <1>4, <1>h, StartDone DEF EarlySteps, Ends, Links, Stop
  <2>2. Tends(n)' /\ ~Uses(n)'
    BY <2>1, <1>h DEF Tends, Puts, Keeps, Uses, Is, Left
  <2> QED BY <1>1, <1>2, <1>3, <1>4, <2>1, <2>2, AwayDone DEF EarlySteps, Ends, Is
<1>5. CASE Goes(t, <<"Over">>) /\ receiver' = receiver
  <2>1. ~ReceiverUp' /\ receiver' = None /\ film' = None
    <3>1. ~Has(t, "Finish") /\ ~Is(t, "StopHere")
      BY <1>1, <1>h DEF Left, Is
    <3> QED BY <1>1, <1>2, <1>3, <1>5, <3>1, AwayOff DEF ReceiverUp
  <2>2. /\ Moves(t) /\ Head(todo'[t]) = "Over" /\ todo'[t] # <<>>
        /\ Bears(todo'[t], {}) /\ ~Films(todo'[t]) /\ ~Begins(todo'[t])
    BY <1>5, IsOver DEF LiveInv, LiveParts
  <2>3. Still(t) /\ Locked(n) /\ ~Is(t, "Over")
    BY <1>1, <2>2, MovesStill, TaskNames DEF Locked, Is
  <2>4. ~Puts(n)' /\ ~Has(t, "Gone")' /\ ~Keeps(n)' /\ ~EndsIn(todo'[t], {"Begin"})
    BY <2>2 DEF Puts, Has, Keeps, Films, Begins, Bears
  <2>5. Whole(n)'
    BY <2>2, <2>4 DEF Whole, Uses, Is
  <2>6. ~FilmOn /\ ~FilmOn'
    BY <1>1, <2>1 DEF FilmOn
  <2> QED BY <1>1, <1>2, <1>3, <2>1, <2>2, <2>3, <2>4, <2>5, <2>6, HolderKeeps
<1> QED BY <1>1, <1>4, <1>5

LEMMA UpWatched == ASSUME LiveInv, Watching, NEW n \in StartIds, Up(n) PROVE Watching'
<1> DEFINE t == Start(n)
<1>1. /\ todo[t] # <<>> /\ Head(todo[t]) = "Up"
      /\ UNCHANGED <<begun, calledOff, may, next, here, film, own, pnum, unit, receiver>>
      /\ \/ ReceiverUp /\ life # "Cleaned" /\ life' = life /\ Done(t)
         \/ ~ReceiverUp /\ Goes(t, <<"Over">>)
         \/ GiveUp(n)
  BY DEF Up, Is, startVars, playVars, playerVars, tunerVars, given
<1>h. /\ \A step : Has(t, step) <=> step \in Left["Up"]
      /\ \A ends : EndsIn(todo[t], ends) <=> "Matched" \in ends
  BY <1>1, StartHolds DEF Left, Last
<1>2. Clears(n) /\ Puts(n) /\ pnum \in Nat
  BY <1>1, <1>h, Held DEF Clears, Puts
<1>3. SameFilm /\ (ReceiverUp' <=> ReceiverUp)
  BY <1>1, <1>2 DEF SameFilm, ReceiverUp
<1>l. /\ Locked(n) /\ ~Is(t, "Over") /\ ~Is(t, "StopHere")
      /\ ~Has(t, "Finish") /\ ~Has(t, "Gone")
  BY <1>1, <1>h DEF Locked, Is, Left
<1>4. CASE ReceiverUp /\ life # "Cleaned" /\ life' = life /\ Done(t)
  <2>1. Head(todo'[t]) = "Opened"
    BY <1>1, <1>4, <1>h, StartDone DEF EarlySteps, Ends, Links, Stop
  <2> QED BY <1>1, <1>2, <1>3, <1>4, <2>1, AwayDone DEF EarlySteps, Ends, Is
<1>5. CASE ~ReceiverUp /\ Goes(t, <<"Over">>)
  <2>1. ~ReceiverUp' /\ film' = None
    BY <1>1, <1>2, <1>3, <1>5, <1>l, AwayOff DEF ReceiverUp
  <2>2. /\ Moves(t) /\ Head(todo'[t]) = "Over" /\ todo'[t] # <<>>
        /\ Bears(todo'[t], {}) /\ ~Films(todo'[t]) /\ ~Begins(todo'[t])
    BY <1>5, IsOver DEF LiveInv, LiveParts
  <2>3. Still(t)
    BY <1>1, <2>2, MovesStill, TaskNames DEF Locked, Is
  <2>4. ~Puts(n)' /\ ~Has(t, "Gone")' /\ ~Keeps(n)' /\ ~EndsIn(todo'[t], {"Begin"})
    BY <2>2 DEF Puts, Has, Keeps, Films, Begins, Bears
  <2>5. Whole(n)' /\ ~(Is(t, "Cleaned") \/ Is(t, "Receiver"))'
    BY <2>2, <2>4 DEF Whole, Uses, Is
  <2>6. ~FilmOn /\ ~FilmOn'
    BY <1>1, <2>1 DEF FilmOn
  <2> QED BY <1>1, <1>2, <1>3, <1>5, <1>l, <2>1, <2>2, <2>3, <2>4, <2>5, <2>6, HolderKeeps
<1>6. CASE GiveUp(n)
  BY <1>1, <1>2, <1>6, <1>l, GoesDown
<1> QED BY <1>1, <1>4, <1>5, <1>6

LEMMA OpenedWatched == ASSUME LiveInv, Watching, NEW n \in StartIds, Opened(n) PROVE Watching'
<1> DEFINE t == Start(n)
<1>1. /\ todo[t] # <<>> /\ Head(todo[t]) = "Opened"
      /\ UNCHANGED <<begun, calledOff, may, next, here, film, own, pnum, unit, receiver, life>>
      /\ Done(t) \/ GiveUp(n)
  BY DEF Opened, Is, startVars, playVars, playerVars, tunerVars, given
<1>h. /\ \A step : Has(t, step) <=> step \in Left["Opened"]
      /\ \A ends : EndsIn(todo[t], ends) <=> "Matched" \in ends
  BY <1>1, StartHolds DEF Left, Last
<1>2. Clears(n) /\ Puts(n) /\ pnum \in Nat /\ Uses(n)
  BY <1>1, <1>h, Held DEF Clears, Puts, Uses, Is
<1>3. SameFilm /\ (ReceiverUp' <=> ReceiverUp)
  BY <1>1, <1>2 DEF SameFilm, ReceiverUp
<1>l. /\ Locked(n) /\ ~Is(t, "Over") /\ ~Is(t, "StopHere")
      /\ ~Has(t, "Finish") /\ ~Has(t, "Gone")
  BY <1>1, <1>h DEF Locked, Is, Left
<1>4. CASE Done(t)
  <2>1. Head(todo'[t]) = "Rate"
    BY <1>1, <1>4, <1>h, StartDone DEF EarlySteps, Ends, Links, Stop
  <2> QED BY <1>1, <1>2, <1>3, <1>4, <2>1, AwayDone DEF EarlySteps, Ends, Is, Whole
<1>6. CASE GiveUp(n)
  BY <1>1, <1>2, <1>6, <1>l, GoesDown
<1> QED BY <1>1, <1>4, <1>6

LEMMA RateWatched == ASSUME LiveInv, Watching, NEW n \in StartIds, Rate(n) PROVE Watching'
<1> DEFINE t == Start(n)
<1>1. /\ todo[t] # <<>> /\ Head(todo[t]) = "Rate" /\ Done(t)
      /\ UNCHANGED <<begun, calledOff, may, next, here, film, pnum, unit, receiver, life>>
  BY DEF Rate, Is, startVars, playVars, playerVars, tunerVars, given
<1>h. /\ \A step : Has(t, step) <=> step \in Left["Rate"]
      /\ \A ends : EndsIn(todo[t], ends) <=> "Matched" \in ends
  BY <1>1, StartHolds DEF Left, Last
<1>2. Clears(n) /\ pnum \in Nat /\ Uses(n)
  BY <1>1, <1>h, Held DEF Clears, Puts, Uses, Is
<1>3. SameFilm /\ (ReceiverUp' <=> ReceiverUp)
  BY <1>1, <1>2 DEF SameFilm, ReceiverUp
<1>4. Head(todo'[t]) = "Match" /\ ~Has(t, "Finish")'
  BY <1>1, <1>h, StartDone DEF EarlySteps, Ends, Links, Stop, Left
<1> QED BY <1>1, <1>2, <1>3, <1>4, AwayDone DEF EarlySteps, Ends, Is, Whole

LEMMA LaunchedWatched == ASSUME LiveInv, Watching, NEW n \in StartIds, Launched(n) PROVE Watching'
<1> DEFINE t == Start(n)
<1>1. /\ todo[t] # <<>> /\ Head(todo[t]) = "Launched" /\ Done(t)
      /\ UNCHANGED <<begun, calledOff, may, next, here, film, own, pnum, unit, receiver, life>>
  BY DEF Launched, Is, startVars, playVars, playerVars, tunerVars, given
<1>h. /\ \A step : Has(t, step) <=> step \in Left["Launched"]
      /\ \A ends : EndsIn(todo[t], ends) <=> "Begin" \in ends
  BY <1>1, StartHolds DEF Left, Last
<1>2. Clears(n) /\ pnum \in Nat /\ Uses(n)
  BY <1>1, <1>h, Held DEF Clears, Puts, Uses, Is
<1>3. SameFilm /\ (ReceiverUp' <=> ReceiverUp)
  BY <1>1, <1>2 DEF SameFilm, ReceiverUp
<1>4. Head(todo'[t]) = "Begin"
  BY <1>1, <1>h, StartDone DEF EarlySteps, Ends, Links, Stop, Left
<1> QED BY <1>1, <1>2, <1>3, <1>4, AwayDone DEF EarlySteps, Ends, Is, Whole

LEMMA LaunchWatched == ASSUME LiveInv, Watching, NEW n \in StartIds, Launch(n) PROVE Watching'
<1> DEFINE t == Start(n)
<1>1. /\ todo[t] # <<>> /\ Head(todo[t]) = "Launch" /\ pnum' = pnum + 1
      /\ UNCHANGED <<begun, calledOff, may, next, here, film, own, receiver, life>>
      /\ (unit' = fifo /\ Done(t)) \/ (unit' = unit /\ GiveUp(n))
  BY DEF Launch, Is, startVars, playVars, tunerVars, given
<1>h. /\ \A step : Has(t, step) <=> step \in Left["Launch"]
      /\ \A ends : EndsIn(todo[t], ends) <=> "Begin" \in ends
  BY <1>1, StartHolds DEF Left, Last
<1>2. Clears(n) /\ Puts(n) /\ pnum \in Nat /\ Uses(n) /\ fifo # None
  BY <1>1, <1>h, Held, LiveStartAssumption DEF Clears, Puts, Uses, Is, HeldOK
<1>3. SameFilm /\ (ReceiverUp' <=> ReceiverUp) /\ pnum' \in Nat /\ pnum' >= pnum
  BY <1>1, <1>2 DEF SameFilm, ReceiverUp
<1>l. /\ Locked(n) /\ ~Is(t, "Over") /\ ~Is(t, "StopHere")
      /\ ~Has(t, "Finish") /\ ~Has(t, "Gone")
  BY <1>1, <1>h DEF Locked, Is, Left
<1>4. CASE unit' = fifo /\ Done(t)
  <2>1. Head(todo'[t]) = "Launched"
    BY <1>1, <1>4, <1>h, StartDone DEF EarlySteps, Ends, Links, Stop
  <2> QED BY <1>1, <1>2, <1>3, <1>4, <2>1, AwayDone DEF EarlySteps, Ends, Is, Whole
<1>6. CASE GiveUp(n)
  BY <1>1, <1>2, <1>3, <1>6, <1>l, GoesDown
<1> QED BY <1>1, <1>4, <1>6

----------------------------------------------------------------------------
(* The steps of a start that turns to another plan.                           *)

\* A film told what is to become of it is the same film.
LEMMA IntendedSame ==
    ASSUME LiveInv, NEW t, Intended(t)
    PROVE  /\ SameFilm /\ next' = next /\ (film' = None <=> film = None)
           /\ film # None => film'.number = film.number
<1>1. /\ next' = next
      /\ IF film = None THEN film' = film
         ELSE \E intent \in P!Intents : film' = [film EXCEPT !.intent = intent]
  BY DEF Intended, P!Intend, playVars, P!Intents
<1>2. film # None => film \in P!Film
  BY DEF LiveInv, Recorded
<1>3. ASSUME film # None, NEW intent \in P!Intents, film' = [film EXCEPT !.intent = intent]
      PROVE  film'.number = film.number /\ film'.live = film.live /\ film' # None
  <2>1. film' \in P!Film
    BY <1>2, <1>3 DEF P!Film
  <2> QED BY <1>2, <1>3, <2>1, NoneAssumption DEF P!Film
<1> QED BY <1>1, <1>3 DEF SameFilm

LEMMA StopHereWatched ==
    ASSUME LiveInv, Watching, NEW n \in StartIds, StopHere(Start(n)) PROVE Watching'
<1> DEFINE t == Start(n)
           receives == LiveOn \/ playing # None
<1>1. /\ todo[t] # <<>> /\ Head(todo[t]) = "StopHere" /\ Intended(t)
      /\ Goes(t, StopHerePlan(receives, Tail(todo[t])))
      /\ own' = [own EXCEPT ![t] = Current] /\ pnum' = pnum + 1
      /\ UNCHANGED <<begun, calledOff, may, here, unit, receiver, life>>
  BY DEF StopHere, Is, LetsGo, StopHerePlan, Rest, startVars, tunerVars, given
<1>2. t \in Tasks /\ t[1] = "Start" /\ PlansOK /\ Plan(t, todo[t]) /\ pnum \in Nat /\ own'[t] = Current
  BY <1>1, TaskNames, Held DEF PlansOK
<1>3. /\ SameFilm /\ next' = next /\ (film' = None <=> film = None)
      /\ film # None => film'.number = film.number
  BY <1>1, IntendedSame
<1> DEFINE p == StopHerePlan(receives, Tail(todo[t]))
<1>4. /\ Plan(t, p) /\ p # <<>> /\ Head(p) = "Quit"
      /\ \A step : Holds(p, step) <=>
            \/ step \in {"Quit", "Finish"} \/ Holds(Tail(todo[t]), step)
            \/ receives /\ step \in {"Stopping", "Gone", "Cleaned"}
      /\ \A steps : EndsIn(p, steps) <=> EndsIn(todo[t], steps)
  <2> receives \in BOOLEAN
    OBVIOUS
  <2> HIDE DEF receives
  <2> QED BY <1>1, <1>2, StopHereMade
<1> HIDE DEF p
<1>5. Moves(t) /\ todo'[t] = p
  BY <1>1, <1>2, <1>4, GoesMoves DEF p
<1>6. /\ \A step : Has(t, step) <=> step = "StopHere" \/ Holds(Tail(todo[t]), step)
      /\ Holds(Tail(todo[t]), "Gone")
  <2> DEFINE q == Tail(todo[t])
  <2>1. /\ Plan(t, q) /\ \A step : Has(t, step) <=> Head(todo[t]) = step \/ Holds(q, step)
        /\ q = <<>> => Head(todo[t]) \in Ends["Start"]
        /\ q # <<>> => <<Head(todo[t]), Head(q)>> \in Links["Start"]
    BY <1>1, <1>2, PlanTail DEF Has
  <2> HIDE DEF q
  <2>2. q # <<>> /\ Head(q) = "Stopping"
    BY <1>1, <2>1 DEF Ends, Links, Stop
  <2> DEFINE r == Tail(q)
  <2>3. /\ \A step : Holds(q, step) <=> Head(q) = step \/ Holds(r, step)
        /\ Plan(t, r)
        /\ r = <<>> => Head(q) \in Ends["Start"]
        /\ r # <<>> => <<Head(q), Head(r)>> \in Links["Start"]
    BY <1>2, <2>1, <2>2, PlanTail
  <2> HIDE DEF r
  <2>4. r # <<>> /\ Head(r) = "Gone"
    BY <2>2, <2>3 DEF Ends, Links, Stop
  <2>5. Holds(r, "Gone")
    BY <1>2, <2>3, <2>4, PlanTail
  <2> QED BY <1>1, <2>1, <2>3, <2>5 DEF q
<1>7. /\ Still(t) /\ Has(t, "Finish")' /\ Has(t, "Gone")' /\ Head(todo'[t]) = "Quit" /\ todo'[t] # <<>>
      /\ (Has(t, "HandSwitch") <=> Has(t, "HandSwitch")')
      /\ \A steps : EndsIn(todo'[t], steps) <=> EndsIn(todo[t], steps)
  BY <1>2, <1>4, <1>5, <1>6, MovesStill DEF Has
<1>8. ~EndsIn(todo'[t], {"Begin"})
  BY <1>6, <1>7 DEF Watching, Straight, Has
<1>9. ~FilmOn'
  <2>1. film # None => here[film.number] \in 0..pnum
    BY Held
  <2> QED BY <1>1, <1>2, <1>3, <2>1 DEF FilmOn
<1>10. film' # None => own'[t] = film'.number
  BY <1>2, <1>3 DEF Current
<1>11. (ReceiverUp' <=> ReceiverUp) /\ Locked(n) /\ ~Is(t, "Over") /\ pnum' \in Nat /\ pnum' > pnum
  BY <1>1, <1>2 DEF ReceiverUp, Locked, Is
<1>12. ~(Is(t, "Cleaned") \/ Is(t, "Receiver"))' /\ (Waits(n) => Waits(n)')
  BY <1>1, <1>7 DEF Is, Waits
<1>13. ASSUME Apartness, ~Past PROVE Whole(n)'
  <2>1. ~Keeps(n)'
    BY <1>7, <1>13 DEF Watching, Calm, Whole, Keeps
  <2> QED BY <1>7, <1>8, <2>1 DEF Whole, Uses, Is
<1> QED BY <1>1, <1>2, <1>3, <1>7, <1>8, <1>9, <1>10, <1>11, <1>12, <1>13, HolderKeeps

LEMMA AfterMatchWatched == ASSUME LiveInv, Watching, NEW n \in StartIds, AfterMatch(n) PROVE Watching'
<1> DEFINE t == Start(n)
<1>1. /\ todo[t] # <<>> /\ Head(todo[t]) = "Matched" /\ (GiveUp(n) \/ Goes(t, LaunchPlan))
      /\ UNCHANGED <<begun, calledOff, may, next, here, film, own, pnum, unit, receiver, life>>
  BY DEF AfterMatch, LaunchPlan, Is, startVars, playVars, playerVars, tunerVars, given
<1>h. /\ \A step : Has(t, step) <=> step \in Left["Matched"]
      /\ \A ends : EndsIn(todo[t], ends) <=> "Matched" \in ends
  BY <1>1, StartHolds DEF Left, Last
<1>2. Clears(n) /\ Puts(n) /\ pnum \in Nat /\ Uses(n)
  BY <1>1, <1>h, Held DEF Clears, Puts, Uses, Is
<1>3. SameFilm /\ (ReceiverUp' <=> ReceiverUp) /\ (FilmOn' <=> FilmOn)
  BY <1>1 DEF SameFilm, ReceiverUp, FilmOn
<1>l. /\ Locked(n) /\ ~Is(t, "Over") /\ ~Is(t, "StopHere")
      /\ ~Has(t, "Finish") /\ ~Has(t, "Gone")
  BY <1>1, <1>h DEF Locked, Is, Left
<1>4. CASE Goes(t, LaunchPlan)
  <2>1. t \in Tasks /\ t[1] = "Start" /\ PlansOK
    BY TaskNames DEF LiveInv, LiveParts
  <2>2. Made(t, LaunchPlan, "Take", {"Take", "Quit", "Launch", "Launched", "Begin"}, "Begin")
    BY <2>1, LaunchMade
  <2>3. Moves(t) /\ todo'[t] = LaunchPlan
    BY <1>4, <2>1, <2>2, GoesMoves DEF Made
  <2>4. /\ Still(t) /\ Is(t, "Take")' /\ ~Has(t, "Gone")' /\ ~Has(t, "Cleaned")'
        /\ Puts(n)' /\ Tends(n)'
    BY <2>1, <2>2, <2>3, MovesStill DEF Made, Has, Is, Puts, Tends, Keeps
  <2>5. film' = None /\ ~FilmOn
    BY <1>1, <1>2, <1>l, AwayOff
  <2>6. ASSUME Apartness, ~Past PROVE Whole(n)'
    <3>1. ReceiverUp' /\ life' # "Cleaned"
      BY <1>1, <1>2, <1>3, <2>6 DEF Watching, Calm, Whole
    <3> QED BY <2>4, <3>1 DEF Whole, Is, Tends
  <2>7. Waits(n) => Waits(n)'
    BY <1>1, <2>4 DEF Waits, Is
  <2>8. ~(Is(t, "Cleaned") \/ Is(t, "Receiver"))'
    BY <2>4 DEF Is
  <2> QED BY <1>1, <1>2, <1>3, <1>l, <2>4, <2>5, <2>6, <2>7, <2>8, HolderKeeps
<1>6. CASE GiveUp(n)
  BY <1>1, <1>2, <1>6, <1>l, GoesDown
<1> QED BY <1>1, <1>4, <1>6

\* No task stops a receiver while nothing of Back or of a failure is in the way.
LEMMA NoneToGo ==
    ASSUME LiveInv, Calm, ~Past, NEW n \in StartIds, Locked(n), ~Has(Start(n), "Gone") PROVE ~ToGo
<1> SUFFICES ASSUME NEW u \in Tasks, Has(u, "Gone") PROVE FALSE
  BY DEF ToGo
<1>1. Plan(u, todo[u]) /\ (u = Back => Plan(Back, todo[Back]))
  BY DEF LiveInv, LiveParts, PlansOK
<1>2. u[1] \notin {"Rematch", "Display", "Source"}
  BY NoneGone
<1>3. ASSUME NEW s, Plan(Back, s), s # <<>>, Head(s) \in {"Idle", "StopHere"}
      PROVE  ~Holds(s, "Gone")
  <2> DEFINE q == Tail(s)
  <2>1. /\ q # <<>> => <<Head(s), Head(q)>> \in Links["Back"]
        /\ \A step : Holds(s, step) <=> Head(s) = step \/ Holds(q, step)
    BY <1>3, TaskNames, PlanTail
  <2> HIDE DEF q
  <2>2. q = <<>>
    BY <1>3, <2>1 DEF Links, Stop
  <2> QED BY <1>3, <2>1, <2>2, EmptyPlan
<1>4. ASSUME NEW s, Plan(Back, s), s # <<>>, Head(s) = "CallOff"
      PROVE  ~Holds(s, "Gone")
  <2> DEFINE q == Tail(s)
  <2>1. /\ Plan(Back, q)
        /\ q # <<>> => <<Head(s), Head(q)>> \in Links["Back"]
        /\ q = <<>> => Head(s) \in Ends["Back"]
        /\ \A step : Holds(s, step) <=> Head(s) = step \/ Holds(q, step)
    BY <1>4, TaskNames, PlanTail
  <2> HIDE DEF q
  <2>2. q # <<>> /\ Head(q) = "StopHere"
    BY <1>4, <2>1 DEF Links, Stop, Ends
  <2> QED BY <1>3, <1>4, <2>1, <2>2
<1>5. CASE u = Back
  <2>1. todo[Back] # <<>> /\ Head(todo[Back]) \in {"Idle", "CallOff", "StopHere"}
    BY DEF Past, Is
  <2>2. CASE Head(todo[Back]) = "CallOff"
    BY <1>1, <1>5, <1>4, <2>1, <2>2 DEF Has
  <2> QED BY <1>1, <1>3, <1>5, <2>1, <2>2 DEF Has
<1>6. CASE u[1] = "Mpv"
  <2>1. PICK m \in StartIds : u = Mpv(m)
    BY <1>6, Kinds
  <2>2. u[1] = "Mpv" /\ todo[u] # <<>> /\ Head(todo[u]) = "Hear"
    BY <1>6, <2>1, EmptyPlan DEF Calm, Has, Is
  <2> DEFINE q == Tail(todo[u])
  <2>3. /\ q # <<>> => <<"Hear", Head(q)>> \in Links["Mpv"]
        /\ \A step : Holds(todo[u], step) <=> "Hear" = step \/ Holds(q, step)
    BY <1>1, <2>2, PlanTail
  <2> HIDE DEF q
  <2>4. q = <<>>
    BY <2>3 DEF Links, Stop
  <2> QED BY <2>3, <2>4, EmptyPlan DEF Has
<1>7. CASE u[1] = "Start"
  <2>1. PICK k \in StartIds : u = Start(k)
    BY <1>7, Kinds
  <2>2. k # n
    BY <2>1
  <2> QED BY <2>1, <2>2, OthersAside DEF Aside, Has
<1> QED BY <1>2, <1>5, <1>6, <1>7, Kinds

LEMMA SwitchWatched == ASSUME LiveInv, Watching, NEW n \in StartIds, Switch(n) PROVE Watching'
<1> DEFINE t == Start(n)
<1>1. /\ todo[t] # <<>> /\ Head(todo[t]) \in {"Switch", "HandSwitch"}
      /\ UNCHANGED <<begun, calledOff, may, next, here, film, own, pnum, unit, receiver>>
      /\ \/ n <= calledOff /\ Goes(t, <<"Over">>) /\ life' = life
         \/ ReceiverUp /\ life' = "Starting" /\ Done(t)
         \/ /\ may.fail \/ ~ReceiverUp \/ life = "Cleaned"
            /\ Goes(t, IF Is(t, "Switch") THEN <<"Retry">> ELSE ColdStart) /\ life' = life
  BY DEF Switch, S!CalledOff, Is, startVars, playVars, playerVars, given
<1>h. /\ \A step : Has(t, step) <=> step \in Left[Head(todo[t])]
      /\ \A ends : EndsIn(todo[t], ends) <=> Last[Head(todo[t])] \in ends
  BY <1>1, StartHolds DEF Left
<1>l. /\ Locked(n) /\ ~Is(t, "Over") /\ ~Is(t, "StopHere") /\ pnum \in Nat
      /\ ~Has(t, "Finish") /\ ~Has(t, "Gone") /\ ~Tends(n)
  BY <1>1, <1>h, Held DEF Locked, Is, Left, Last, Tends, Puts, Keeps
<1>2. Head(todo[t]) = "HandSwitch" => Puts(n) /\ Clears(n) /\ film = None
  <2>1. Head(todo[t]) = "HandSwitch" => Puts(n)
    BY <1>h DEF Puts, Last
  <2> QED BY <1>l, <2>1, AwayOff DEF Clears
<1>3. Head(todo[t]) = "Switch" => ~Puts(n)
  BY <1>h DEF Puts, Last
<1>4. SameFilm /\ (ReceiverUp' <=> ReceiverUp) /\ (FilmOn' <=> FilmOn)
  BY <1>1 DEF SameFilm, ReceiverUp, FilmOn
<1>m. Apartness /\ ~Past => Calm /\ ~may.fail /\ Whole(n)
  BY DEF Watching, Apartness, Past, Calm
<1>5. CASE n <= calledOff /\ Goes(t, <<"Over">>) /\ life' = life
  <2>1. /\ Moves(t) /\ Head(todo'[t]) = "Over" /\ todo'[t] # <<>>
        /\ Bears(todo'[t], {}) /\ ~Films(todo'[t]) /\ ~Begins(todo'[t])
    BY <1>5, IsOver DEF LiveInv, LiveParts
  <2>2. Still(t)
    BY <2>1, MovesStill, TaskNames
  <2>3. ~Puts(n)' /\ ~Has(t, "Gone")' /\ ~Keeps(n)' /\ ~EndsIn(todo'[t], {"Begin"}) /\ ~Clears(n)'
    BY <2>1 DEF Puts, Has, Keeps, Films, Begins, Bears, Clears, Away
  <2>4. Whole(n)' /\ ~(Is(t, "Cleaned") \/ Is(t, "Receiver"))'
    BY <2>1, <2>3 DEF Whole, Uses, Is
  <2>5. ~Waits(n)
    <3>1. calledOff \in Nat /\ n \in Nat
      BY DEF LiveInv, Counted, StartIds
    <3> QED BY <1>5, <3>1 DEF Waits
  <2>6. Apartness /\ ~Past /\ FilmOn' => unit' # None /\ ReceiverUp' /\ life' # "Cleaned"
    BY <1>1, <1>4, <1>5, <1>m DEF Calm
  <2>7. film' # None => ~Puts(n)
    BY <1>1, <1>2, <1>3
  <2> QED BY <1>1, <1>4, <1>l, <2>1, <2>2, <2>3, <2>4, <2>5, <2>6, <2>7, HolderKeeps
<1>6. CASE ReceiverUp /\ life' = "Starting" /\ Done(t)
  <2>1. CASE Head(todo[t]) = "HandSwitch"
    <3>1. Head(todo'[t]) = "Opened"
      BY <1>1, <1>6, <2>1, StartDone DEF EarlySteps, Ends, Links, Stop
    <3> QED BY <1>1, <1>2, <1>4, <1>l, <1>6, <2>1, <3>1, AwayDone DEF EarlySteps, Ends, Is
  <2>2. CASE Head(todo[t]) = "Switch"
    <3>1. /\ Head(todo'[t]) = "Reload" /\ todo'[t] # <<>> /\ Still(t)
          /\ \A step : Has(t, step)' => Has(t, step)
          /\ \A ends : EndsIn(todo'[t], ends) <=> "Reload" \in ends
      BY <1>1, <1>6, <1>h, <2>2, StartDone DEF EarlySteps, Ends, Links, Stop, Last
    <3>2. ~Puts(n)' /\ ~Has(t, "Gone")' /\ ~Keeps(n)' /\ ~EndsIn(todo'[t], {"Begin"}) /\ ~Clears(n)'
      BY <1>h, <1>l, <2>2, <3>1 DEF Puts, Keeps, Clears, Away, Left
    <3>3. ~(Is(t, "Cleaned") \/ Is(t, "Receiver"))' /\ ~Waits(n)
      BY <2>2, <3>1 DEF Is, Waits
    <3>4. ASSUME Apartness, ~Past
          PROVE  Whole(n)' /\ (FilmOn' => unit' # None /\ ReceiverUp' /\ life' # "Cleaned")
      <4>1. FilmOn /\ unit # None
        BY <1>1, <1>m, <2>2, <3>4 DEF Whole, Is, Calm
      <4> QED BY <1>1, <1>4, <1>6, <3>1, <3>2, <4>1 DEF Whole, Uses, Is
    <3> QED BY <1>1, <1>3, <1>4, <1>l, <2>2, <3>1, <3>2, <3>3, <3>4, HolderKeeps
  <2> QED BY <1>1, <2>1, <2>2
<1>7. CASE /\ may.fail \/ ~ReceiverUp \/ life = "Cleaned"
           /\ Goes(t, IF Is(t, "Switch") THEN <<"Retry">> ELSE ColdStart) /\ life' = life
  <2>1. CASE Head(todo[t]) = "HandSwitch"
    BY <1>1, <1>7, <1>l, <2>1, GoesCold DEF Is
  <2>2. CASE Head(todo[t]) = "Switch"
    <3>1. Goes(t, <<"Retry">>)
      BY <1>1, <1>7, <2>2 DEF Is
    <3>2. /\ Moves(t) /\ Head(todo'[t]) = "Retry" /\ todo'[t] # <<>>
          /\ Bears(todo'[t], {}) /\ ~Films(todo'[t]) /\ ~Begins(todo'[t])
      BY <3>1, IsRetry DEF LiveInv, LiveParts
    <3>3. Still(t)
      BY <3>2, MovesStill, TaskNames
    <3>4. ~Puts(n)' /\ ~Has(t, "Gone")' /\ ~Keeps(n)' /\ ~EndsIn(todo'[t], {"Begin"}) /\ ~Clears(n)'
      BY <3>2 DEF Puts, Has, Keeps, Films, Begins, Bears, Clears, Away
    <3>5. ~(Is(t, "Cleaned") \/ Is(t, "Receiver"))' /\ ~Waits(n)
      BY <2>2, <3>2 DEF Is, Waits
    <3>6. ~(Apartness /\ ~Past)
      BY <1>1, <1>7, <1>m, <2>2 DEF Whole, Is, Calm
    <3> QED BY <1>1, <1>3, <1>4, <1>l, <2>2, <3>2, <3>3, <3>4, <3>5, <3>6, HolderKeeps
  <2> QED BY <1>1, <2>1, <2>2
<1> QED BY <1>1, <1>5, <1>6, <1>7

LEMMA ReloadWatched == ASSUME LiveInv, Watching, NEW n \in StartIds, Reload(n) PROVE Watching'
<1> DEFINE t == Start(n)
<1>1. /\ todo[t] # <<>> /\ Head(todo[t]) = "Reload"
      /\ UNCHANGED <<begun, calledOff, may, next, here, film, pnum, receiver>>
      /\ \/ unit' = fifo /\ (life # "Cleaned" => life' # "Cleaned")
            /\ todo' = [todo EXCEPT ![t] = <<"Over">>, ![Rematch(n)] = <<"Match">>]
         \/ (unit = None \/ may.fail) /\ Goes(t, <<"Retry">>) /\ unit' = unit /\ life' = life
  BY DEF Reload, Lives, Is, startVars, playVars, given
<1>h. /\ \A step : Has(t, step) <=> step \in Left["Reload"]
      /\ \A ends : EndsIn(todo[t], ends) <=> "Reload" \in ends
  BY <1>1, StartHolds DEF Left, Last
<1>l. /\ Locked(n) /\ ~Is(t, "Over") /\ ~Puts(n) /\ ~Tends(n) /\ ~Has(t, "Gone") /\ ~Waits(n)
      /\ pnum \in Nat
  BY <1>1, <1>h, Held DEF Locked, Is, Left, Tends, Puts, Waits
<1>4. SameFilm /\ (ReceiverUp' <=> ReceiverUp) /\ (FilmOn' <=> FilmOn)
  BY <1>1 DEF SameFilm, ReceiverUp, FilmOn
<1>m. Apartness /\ ~Past => Calm /\ ~may.fail /\ FilmOn
  BY <1>1 DEF Watching, Apartness, Past, Calm, Whole, Is
<1>5. CASE /\ unit' = fifo /\ (life # "Cleaned" => life' # "Cleaned")
           /\ todo' = [todo EXCEPT ![t] = <<"Over">>, ![Rematch(n)] = <<"Match">>]
  <2>0. t \in Tasks /\ Rematch(n) \in Tasks /\ t # Rematch(n) /\ Rematch(n)[1] = "Rematch"
        /\ t[1] = "Start"
    BY TaskNames, TasksDiffer
  <2>1. todo'[t] = <<"Over">> /\ Still(t)
    BY <1>5, <2>0, Held DEF Still
  <2>2. Made(t, <<"Over">>, "Over", {"Over"}, "Over")
    BY <2>0, OneMade
  <2>3. ~Puts(n)' /\ ~Has(t, "Gone")' /\ ~Keeps(n)' /\ ~EndsIn(todo'[t], {"Begin"}) /\ ~Clears(n)'
    BY <2>1, <2>2 DEF Made, Puts, Has, Keeps, Clears, Away
  <2>4. Whole(n)' /\ ~(Is(t, "Cleaned") \/ Is(t, "Receiver"))'
    BY <2>1, <2>2, <2>3 DEF Made, Whole, Uses, Is
  <2>5. unit' # None
    BY <1>5, Held, LiveStartAssumption DEF HeldOK
  <2>6. Apartness /\ ~Past => ReceiverUp' /\ life' # "Cleaned"
    BY <1>4, <1>5, <1>m DEF Calm
  <2> QED BY <1>1, <1>4, <1>l, <2>1, <2>3, <2>4, <2>5, <2>6, HolderKeeps
<1>6. CASE (unit = None \/ may.fail) /\ Goes(t, <<"Retry">>) /\ unit' = unit /\ life' = life
  <2>2. /\ Moves(t) /\ Head(todo'[t]) = "Retry" /\ todo'[t] # <<>>
        /\ Bears(todo'[t], {}) /\ ~Films(todo'[t]) /\ ~Begins(todo'[t])
    BY <1>6, IsRetry DEF LiveInv, LiveParts
  <2>3. Still(t)
    BY <2>2, MovesStill, TaskNames
  <2>4. ~Puts(n)' /\ ~Has(t, "Gone")' /\ ~Keeps(n)' /\ ~EndsIn(todo'[t], {"Begin"}) /\ ~Clears(n)'
    BY <2>2 DEF Puts, Has, Keeps, Films, Begins, Bears, Clears, Away
  <2>5. ~(Is(t, "Cleaned") \/ Is(t, "Receiver"))'
    BY <2>2 DEF Is
  <2>6. ~(Apartness /\ ~Past)
    BY <1>6, <1>m DEF Calm
  <2> QED BY <1>1, <1>4, <1>l, <2>2, <2>3, <2>4, <2>5, <2>6, HolderKeeps
<1> QED BY <1>1, <1>5, <1>6

\* Whoever takes the film off while Back can do no more will show another, or
\* is called off for one who is still to come.
LEMMA WarmWaits ==
    ASSUME LiveInv, Watching, NEW n \in StartIds, Locked(n), ~Is(Start(n), "Over"), FilmOn, Past,
           Still(Start(n)), UNCHANGED <<begun, calledOff>>,
           todo'[Start(n)] # <<>>, Head(todo'[Start(n)]) = "Quit"
    PROVE  Waiting'
<1>0. calledOff \in Nat /\ begun \in Nat /\ calledOff <= begun /\ begun <= MaxStarts /\ n \in Nat
      /\ pnum \in Nat /\ MaxStarts \in Nat
  BY Held, LiveStartAssumption DEF LiveInv, Counted, Linked, StartIds
<1>1. CASE n > calledOff
  BY <1>1 DEF Waiting, Waits
<1>2. CASE n <= calledOff /\ calledOff # begun
  <2> DEFINE k == begun
  <2>1. k \in StartIds /\ n < k /\ k > calledOff /\ k <= begun
    BY <1>0, <1>2 DEF StartIds
  <2> HIDE DEF k
  <2>2. todo[Start(k)] # <<>>
    BY <2>1 DEF Watching, Queued
  <2>3. k # n /\ Start(k) \in Tasks /\ Start(k) # Start(n) /\ Start(k)[1] = "Start"
    <3>1. k # n
      BY <1>0, <2>1
    <3> QED BY <2>1, <3>1, TaskNames, TasksDiffer
  <2>4. ~Locked(k)
    BY <2>1, <2>3, OthersAside
  <2>5. todo'[Start(k)] = todo[Start(k)] /\ Head(todo[Start(k)]) \in EarlySteps
    BY <2>2, <2>3, <2>4 DEF Still, Locked, EarlySteps
  <2> QED BY <2>1, <2>2, <2>5 DEF Waiting, Waits, EarlySteps
<1>3. CASE calledOff = begun
  <2>1. \/ Is(Back, "StopHere")
        \/ Has(Back, "Finish") /\ own[Back] = film.number
    BY <1>3 DEF FilmOn, LiveInv, LiveParts, BackTakes
  <2>2. ~Is(Back, "StopHere")
    BY DEF Past, Watching, Unpressed, Is
  <2>3. here[film.number] < pnum
    BY <2>1, <2>2, TaskNames, Held DEF FilmOn, LiveInv, LiveParts, FinishLate
  <2> QED BY <1>0, <2>3 DEF FilmOn
<1> QED BY <1>0, <1>1, <1>2, <1>3

LEMMA WarmOrColdWatched ==
    ASSUME LiveInv, Watching, NEW n \in StartIds, todo[Start(n)] # <<>>,
           NEW reuse \in CanReuse,
           Head(todo[Start(n)]) \in {"Decide", "Retry"}, WarmOrCold(Start(n), reuse),
           reuse => ~(Apartness /\ ~Past),
           UNCHANGED <<startVars, shown, change, unit, tunerVars, given, here>>
    PROVE  Watching'
<1> DEFINE t == Start(n)
<1>0. /\ t \in Tasks /\ t[1] = "Start" /\ PlansOK /\ pnum \in Nat
      /\ UNCHANGED <<begun, calledOff, may, life, receiver>>
  BY TaskNames, Held DEF startVars, given, tunerVars
<1>h. /\ \A step : Has(t, step) <=> step = Head(todo[t])
      /\ \A ends : EndsIn(todo[t], ends) <=> Head(todo[t]) \in ends
  BY StartHolds DEF Left, Last
<1>l. Locked(n) /\ ~Is(t, "Over") /\ ~Puts(n) /\ ~Tends(n) /\ ~Has(t, "Gone")
  BY <1>h DEF Locked, Is, Tends, Puts
<1>1. CASE ~reuse
  <2>1. Goes(t, ColdStart) /\ UNCHANGED <<next, film, pnum>>
    BY <1>1 DEF WarmOrCold, playVars
  <2> QED BY <1>0, <1>l, <2>1, GoesCold
<1>2. CASE reuse
  <2>1. /\ own'[t] = Current /\ pnum' = pnum + 1 /\ Goes(t, WarmPlan) /\ Intended(t)
    BY <1>0, <1>2, Held DEF WarmOrCold, LetsGo, WarmPlan
  <2>2. Made(t, WarmPlan, "Quit", {"Quit", "Finish", "Ask", "HandSwitch", "Opened", "Rate",
                                   "Match", "Matched"}, "Matched")
    BY <1>0, WarmMade
  <2>3. Moves(t) /\ todo'[t] = WarmPlan
    BY <1>0, <2>1, <2>2, GoesMoves DEF Made
  <2>4. /\ Still(t) /\ todo'[t] # <<>> /\ Head(todo'[t]) = "Quit" /\ Has(t, "Finish")'
        /\ Puts(n)' /\ ~EndsIn(todo'[t], {"Begin"})
    BY <1>0, <2>2, <2>3, MovesStill DEF Made, Has, Puts
  <2>5. /\ SameFilm /\ next' = next /\ (film' = None <=> film = None)
        /\ film # None => film'.number = film.number
    BY <2>1, IntendedSame
  <2>6. film' # None => own'[t] = film'.number
    BY <2>1, <2>5 DEF Current
  <2>7. ReceiverUp' <=> ReceiverUp
    BY <1>0 DEF ReceiverUp
  <2>8. FilmOn /\ Past => Waiting'
    BY <1>0, <1>l, <2>4, WarmWaits
  <2>9. ~(Is(t, "Cleaned") \/ Is(t, "Receiver"))' /\ (Waits(n) => Waits(n)')
    BY <1>0, <2>4 DEF Is, Waits
  <2>10. pnum' \in Nat /\ pnum' > pnum
    BY <1>0, <2>1
  <2> QED BY <1>0, <1>2, <1>l, <2>4, <2>5, <2>6, <2>7, <2>8, <2>9, <2>10, HolderKeeps
<1> QED BY <1>1, <1>2

\* While a start is to decide, a receiver that is up is to be stopped, or is of
\* the film that is on.
LEMMA DecidesOn ==
    ASSUME LiveInv, Watching, NEW n \in StartIds, todo[Start(n)] # <<>>,
           Head(todo[Start(n)]) = "Decide", ReceiverUp
    PROVE  /\ film # None => ToGo \/ FilmOn
           /\ Apartness /\ ~Past => FilmOn /\ ~ToGo /\ unit # None /\ ~may.fail
<1>1. /\ Locked(n) /\ ~Puts(n) /\ ~Has(Start(n), "Gone")
  <2>1. /\ \A step : Has(Start(n), step) <=> step \in Left["Decide"]
        /\ \A ends : EndsIn(todo[Start(n)], ends) <=> "Decide" \in ends
    BY StartHolds DEF Left, Last
  <2> QED BY <2>1 DEF Locked, Left, Puts
<1>2. \A k \in StartIds : ~Puts(k)
  BY <1>1, OthersAside DEF Puts, Aside
<1>3. film # None => ToGo \/ FilmOn
  BY <1>2 DEF Watching, FilmLeaving, FilmOn
<1>4. ASSUME Apartness, ~Past PROVE FilmOn /\ ~ToGo /\ unit # None /\ ~may.fail
  <2>1. Calm /\ ReceiverWatched /\ ~may.fail
    BY <1>4 DEF Watching, Apartness, Past
  <2>2. ~ToGo
    BY <1>1, <1>4, <2>1, NoneToGo
  <2>3. ~Tending
    BY <1>2 DEF Tending, Tends
  <2>4. FilmOn
    BY <1>4, <2>1, <2>2, <2>3 DEF ReceiverWatched
  <2> QED BY <2>1, <2>2, <2>4 DEF Calm
<1> QED BY <1>3, <1>4

LEMMA DecideWatched == ASSUME LiveInv, Watching, NEW n \in StartIds, Decide(n) PROVE Watching'
<1> DEFINE t == Start(n)
<1>1. /\ todo[t] # <<>> /\ Head(todo[t]) = "Decide"
      /\ UNCHANGED <<startVars, shown, change, unit, given, here>>
  BY DEF Decide, Is
<1>2. \/ /\ ReceiverUp /\ life # "Cleaned" /\ film # None
         /\ Goes(t, <<"Over">>) \/ Goes(t, <<"Switch", "Reload">>)
         /\ UNCHANGED <<life, receiver, playVars, pnum>>
      \/ \E reuse \in CanReuse : /\ WarmOrCold(t, reuse) /\ UNCHANGED tunerVars
                                 /\ reuse => \E answers \in Answers : ~(answers /\ LiveOn)
  BY DEF Decide, CanReuse, LiveOn, tunerVars
<1>0. /\ t \in Tasks /\ t[1] = "Start" /\ PlansOK /\ pnum \in Nat
      /\ UNCHANGED <<begun, calledOff, may, here, unit>>
  BY <1>1, TaskNames, Held DEF startVars, given
<1>h. /\ \A step : Has(t, step) <=> step = "Decide"
      /\ \A ends : EndsIn(todo[t], ends) <=> "Decide" \in ends
  BY <1>1, StartHolds DEF Left, Last
<1>l. Locked(n) /\ ~Is(t, "Over") /\ ~Puts(n) /\ ~Tends(n) /\ ~Has(t, "Gone")
  BY <1>1, <1>h DEF Locked, Is, Tends, Puts
<1>3. CASE /\ ReceiverUp /\ life # "Cleaned" /\ film # None
           /\ Goes(t, <<"Over">>) \/ Goes(t, <<"Switch", "Reload">>)
           /\ UNCHANGED <<life, receiver, playVars, pnum>>
  <2>1. /\ SameFilm /\ next' = next /\ film' = film /\ pnum' = pnum
        /\ (ReceiverUp' <=> ReceiverUp) /\ (FilmOn' <=> FilmOn)
    BY <1>0, <1>3 DEF SameFilm, playVars, ReceiverUp, FilmOn
  <2>2. \E s \in {<<"Over">>, <<"Switch", "Reload">>} :
            Goes(t, s) /\ \E steps : Made(t, s, Head(s), steps, IF s = <<"Over">> THEN "Over" ELSE "Reload")
                                      /\ Head(s) \in {"Over", "Switch"}
                                      /\ steps \subseteq {"Over", "Switch", "Reload"}
    <3>1. Made(t, <<"Over">>, "Over", {"Over"}, "Over")
      BY <1>0, OneMade
    <3>2. Made(t, <<"Switch", "Reload">>, "Switch", {"Switch", "Reload"}, "Reload")
      BY <1>0, SwitchMade
    <3>3. Head(<<"Over">>) = "Over" /\ Head(<<"Switch", "Reload">>) = "Switch"
          /\ <<"Over">> # <<"Switch", "Reload">>
      BY Literal, <1>0
    <3> QED BY <1>3, <3>1, <3>2, <3>3
  <2>3. PICK s, steps, last :
            /\ Goes(t, s) /\ Made(t, s, Head(s), steps, last)
            /\ Head(s) \in {"Over", "Switch"} /\ steps \subseteq {"Over", "Switch", "Reload"}
            /\ last \in {"Over", "Reload"}
    BY <2>2
  <2>4. Moves(t) /\ todo'[t] = s
    BY <1>0, <2>3, GoesMoves DEF Made
  <2>5. /\ Still(t) /\ ~Puts(n)' /\ ~Has(t, "Gone")' /\ ~Keeps(n)' /\ ~EndsIn(todo'[t], {"Begin"})
        /\ ~Clears(n)' /\ todo'[t] # <<>> /\ Head(todo'[t]) \in {"Over", "Switch"}
    BY <1>0, <2>3, <2>4, MovesStill DEF Made, Puts, Has, Keeps, Clears, Away
  <2>6. /\ ~(Is(t, "Cleaned") \/ Is(t, "Receiver") \/ Is(t, "Retry") \/ Is(t, "Reload"))'
        /\ ~Uses(n)' /\ ~Is(t, "Launched")' /\ ~Is(t, "Begin")'
    BY <2>5 DEF Is, Uses
  <2>7. ToGo => ToGo'
    BY <1>0, <1>l, <2>5, StillGone
  <2>8. ToGo' \/ FilmOn'
    BY <1>1, <1>3, <2>1, <2>7, DecidesOn
  <2>9. ASSUME Apartness, ~Past
        PROVE  Whole(n)' /\ (FilmOn' => unit' # None /\ ReceiverUp' /\ life' # "Cleaned")
    <3>1. FilmOn /\ unit # None
      BY <1>1, <1>3, <2>9, DecidesOn
    <3> QED BY <1>0, <1>3, <2>1, <2>5, <2>6, <3>1 DEF Whole
  <2> QED BY <1>0, <1>l, <2>1, <2>5, <2>6, <2>8, <2>9, HolderKeeps
<1>4. ASSUME NEW reuse \in CanReuse, WarmOrCold(t, reuse), UNCHANGED tunerVars,
             reuse => \E answers \in Answers : ~(answers /\ LiveOn)
      PROVE  Watching'
  <2>1. reuse => ReceiverUp
    BY DEF CanReuse
  <2>2. ASSUME reuse, Apartness, ~Past PROVE FALSE
    <3>1. FilmOn /\ unit # None /\ ~may.fail
      BY <1>1, <2>1, <2>2, DecidesOn
    <3>2. LiveOn
      BY <3>1, Held DEF LiveOn, FilmOn
    <3>3. \A answers \in Answers : answers
      BY <3>1 DEF Answers
    <3> QED BY <1>4, <2>2, <3>2, <3>3
  <2> QED BY <1>1, <1>4, <2>2, WarmOrColdWatched
<1> QED BY <1>2, <1>3, <1>4

LEMMA RetryWatched == ASSUME LiveInv, Watching, NEW n \in StartIds, Retry(n) PROVE Watching'
<1>1. /\ todo[Start(n)] # <<>> /\ Head(todo[Start(n)]) = "Retry"
      /\ UNCHANGED <<startVars, shown, change, unit, tunerVars, given, here>>
      /\ \E reuse \in CanReuse : WarmOrCold(Start(n), reuse)
  BY DEF Retry, Is
<1>2. ~(Apartness /\ ~Past)
  BY <1>1 DEF Watching, Calm, Whole, Is
<1> QED BY <1>1, <1>2, WarmOrColdWatched

LEMMA UndoWatched ==
    ASSUME LiveInv, Watching, NEW n \in StartIds, todo[Start(n)] # <<>>,
           Head(todo[Start(n)]) = "Begin", Goes(Start(n), UndoPlan),
           UNCHANGED <<begun, calledOff, may, next, here, film, pnum, unit, receiver, life>>
    PROVE  Watching'
<1> DEFINE t == Start(n)
<1>h. /\ \A step : Has(t, step) <=> step \in Left["Begin"]
      /\ \A ends : EndsIn(todo[t], ends) <=> "Begin" \in ends
  BY StartHolds DEF Left, Last
<1>2. Clears(n) /\ pnum \in Nat
  BY <1>h, Held DEF Clears, Puts
<1>3. SameFilm /\ (ReceiverUp' <=> ReceiverUp) /\ (FilmOn' <=> FilmOn)
  BY DEF SameFilm, ReceiverUp, FilmOn
<1>l. /\ Locked(n) /\ ~Is(t, "Over") /\ ~Is(t, "StopHere")
      /\ ~Has(t, "Finish") /\ ~Has(t, "Gone")
  BY <1>h DEF Locked, Is, Left
<1>1. t \in Tasks /\ t[1] = "Start" /\ PlansOK
  BY TaskNames DEF LiveInv, LiveParts
<1>4. Made(t, UndoPlan, "Take", {"Take", "Quit", "Stopping", "Gone", "Cleaned", "Over"}, "Over")
  BY <1>1, UndoMade
<1>5. Moves(t) /\ todo'[t] = UndoPlan
  BY <1>1, <1>4, GoesMoves DEF Made
<1>6. /\ Still(t) /\ Is(t, "Take")' /\ Has(t, "Gone")' /\ ~Keeps(n)' /\ ~EndsIn(todo'[t], {"Begin"})
  BY <1>1, <1>4, <1>5, MovesStill DEF Made, Has, Is, Keeps
<1>7. film' = None /\ ~FilmOn
  BY <1>2, <1>l, AwayOff
<1>8. Whole(n)' /\ (Waits(n) => Waits(n)') /\ ~(Is(t, "Cleaned") \/ Is(t, "Receiver"))'
  BY <1>6 DEF Whole, Uses, Waits, Is
<1> QED BY <1>2, <1>3, <1>l, <1>6, <1>7, <1>8, HolderKeeps

LEMMA RecordWatched ==
    ASSUME LiveInv, Watching, NEW n \in StartIds, todo[Start(n)] # <<>>,
           Head(todo[Start(n)]) = "Begin", Record(n),
           UNCHANGED <<begun, calledOff, may, pnum, unit, receiver, own>>
    PROVE  Watching'
<1> DEFINE t == Start(n)
           k == next + 1
<1> USE Held
<1>h. /\ \A step : Has(t, step) <=> step \in Left["Begin"]
      /\ \A ends : EndsIn(todo[t], ends) <=> "Begin" \in ends
  BY StartHolds DEF Left, Last
<1>1. /\ next < MaxStarts /\ next' = k
      /\ film' = P!Begun(k, "Here", TRUE, FALSE, None, FALSE, "Short")
      /\ life # "Cleaned" => life' # "Cleaned"
      /\ here' = [here EXCEPT ![k] = pnum]
      /\ todo' = [todo EXCEPT ![t] = <<"Over">>, ![Mpv(k)] = <<"Hear">>,
                              ![Display(k)] = <<"Opening", "End">>, ![Source(k)] = <<"Watch">>]
  BY DEF Record, P!Begin, Lives
<1>2. k \in StartIds /\ k \in Nat /\ here'[k] = pnum /\ \A m \in StartIds : m # k => here'[m] = here[m]
  BY <1>1, LiveStartAssumption DEF StartIds, PlansOK
<1>3. film'.number = k /\ film' # None
  <2>1. film' = [number |-> k, player |-> "Here", live |-> TRUE, watch |-> FALSE,
                 session |-> None, sourceEnd |-> None, given |-> FALSE, measured |-> FALSE,
                 position |-> "Short", intent |-> None, told |-> FALSE, jumped |-> FALSE]
    BY <1>1 DEF P!Begun
  <2>2. film' \in P!Film
    BY <1>2, <2>1 DEF P!Film, P!Players, P!Places
  <2> QED BY <2>1, <2>2, NoneAssumption
<1>4. /\ {t, Mpv(k), Display(k), Source(k), Back} \subseteq Tasks
      /\ t # Mpv(k) /\ t # Display(k) /\ t # Source(k) /\ Mpv(k) # Display(k)
      /\ Mpv(k) # Source(k) /\ Display(k) # Source(k) /\ t # Back /\ Mpv(k) # Back
      /\ Display(k) # Back /\ Source(k) # Back
  BY <1>2, TaskNames, TasksDiffer
<1>5. /\ todo'[t] = <<"Over">> /\ todo'[Mpv(k)] = <<"Hear">> /\ todo'[Source(k)] = <<"Watch">>
      /\ todo'[Back] = todo[Back]
      /\ \A u \in Tasks : u \notin {t, Mpv(k), Display(k), Source(k)} => todo'[u] = todo[u]
  BY <1>1, <1>4
<1>6. \A j \in StartIds : /\ j # n => todo'[Start(j)] = todo[Start(j)]
                          /\ j # k => /\ todo'[Mpv(j)] = todo[Mpv(j)]
                                      /\ todo'[Source(j)] = todo[Source(j)]
  <2> SUFFICES ASSUME NEW j \in StartIds
               PROVE  /\ j # n => Start(j) \in Tasks \ {t, Mpv(k), Display(k), Source(k)}
                      /\ j # k => {Mpv(j), Source(j)}
                                      \subseteq Tasks \ {t, Mpv(k), Display(k), Source(k)}
    BY <1>5
  <2>1. {Start(j), Mpv(j), Source(j)} \subseteq Tasks
    BY TaskNames
  <2>2. j # n => Start(j) \notin {t, Mpv(k), Display(k), Source(k)}
    BY TasksDiffer
  <2>3. j # k => Mpv(j) \notin {t, Mpv(k), Display(k), Source(k)}
    BY TasksDiffer
  <2>4. j # k => Source(j) \notin {t, Mpv(k), Display(k), Source(k)}
    BY TasksDiffer
  <2> QED BY <2>1, <2>2, <2>3, <2>4
<1>7. Made(t, <<"Over">>, "Over", {"Over"}, "Over")
  BY TaskNames, OneMade
<1>l. /\ Locked(n) /\ ~Is(t, "Over") /\ Clears(n) /\ Uses(n) /\ film = None
      /\ \A j \in StartIds : j # n => Aside(todo'[Start(j)])
      /\ Aside(todo'[t]) /\ Head(todo'[t]) = "Over"
  <2>1. Locked(n) /\ ~Is(t, "Over") /\ Clears(n) /\ Uses(n)
    BY <1>h DEF Locked, Is, Uses, Clears, Puts
  <2>2. film = None
    BY <1>h, <2>1, AwayOff DEF Is, Left
  <2>3. \A j \in StartIds : j # n => Aside(todo'[Start(j)])
    BY <1>6, <2>1, OthersAside
  <2>4. Aside(todo'[t]) /\ Head(todo'[t]) = "Over"
    BY <1>5, <1>7 DEF Made, Aside
  <2> QED BY <2>1, <2>2, <2>3, <2>4
<1>8. \A j \in StartIds : Aside(todo'[Start(j)])
  BY <1>l
<1> HIDE DEF t, k
<1>9. FilmOn'
  BY <1>2, <1>3 DEF FilmOn
<1>a. Unpressed' /\ (Past' <=> Past) /\ (Apartness' <=> Apartness)
  BY <1>5 DEF Watching, Unpressed, Past, Is, Apartness
<1>b. Queued'
  <2> SUFFICES ASSUME NEW j \in StartIds, Locked(j)', ~Is(Start(j), "Over")' PROVE FALSE
    BY DEF Queued
  <2>1. CASE j = n
    BY <1>l, <2>1 DEF Locked, Is, t
  <2>2. CASE j # n
    <3>1. Locked(j)
      BY <1>6, <2>2 DEF Locked
    <3> QED BY <1>l, <2>2, <3>1, OthersAside
  <2> QED BY <2>1, <2>2
<1>c. HereOn'
  <2> SUFFICES ASSUME NEW m \in StartIds, m <= next', here'[m] = pnum PROVE m = k
    BY <1>3 DEF HereOn
  <2> SUFFICES ASSUME m # k PROVE FALSE
    OBVIOUS
  <2>1. m <= next /\ here[m] = pnum
    BY <1>1, <1>2 DEF k, StartIds
  <2> QED BY <1>l, <2>1 DEF Watching, HereOn
<1>d. ReceiverAlone' /\ FilmGone' /\ Straight'
  BY <1>8 DEF ReceiverAlone, FilmGone, Straight, Clears, Puts, Aside, EarlySteps, Away, Is
<1>e. FilmLeaving'
  BY <1>9 DEF FilmOn, FilmLeaving
<1>f. ASSUME Apartness, ~Past PROVE Calm'
  <2>1. Calm
    BY <1>f DEF Watching
  <2>2. ReceiverUp /\ life # "Cleaned" /\ unit # None
    BY <1>l, <2>1 DEF Calm, Whole, Is, t
  <2>3. \A j \in StartIds : Whole(j)'
    BY <1>8 DEF Whole, Uses, Aside, EarlySteps, Is, Keeps, Has
  <2>4. ReceiverUp' /\ life' # "Cleaned" /\ unit' # None
    BY <1>1, <2>2 DEF ReceiverUp
  <2>5. ASSUME NEW m \in StartIds
        PROVE  /\ todo'[Mpv(m)] = <<>> \/ Is(Mpv(m), "Hear")'
               /\ todo'[Source(m)] = <<>> \/ Is(Source(m), "Watch")'
    <3>1. <<"Hear">> # <<>> /\ Head(<<"Hear">>) = "Hear" /\ <<"Watch">> # <<>> /\ Head(<<"Watch">>) = "Watch"
      OBVIOUS
    <3>2. CASE m = k
      BY <1>5, <3>1, <3>2 DEF Is
    <3>3. CASE m # k
      BY <1>6, <2>1, <3>3 DEF Is, Calm
    <3> QED BY <3>2, <3>3
  <2> QED BY <2>3, <2>4, <2>5 DEF Calm
<1> QED BY <1>9, <1>a, <1>b, <1>c, <1>d, <1>e, <1>f DEF Watching, ReceiverWatched

LEMMA BeginWatched == ASSUME LiveInv, Watching, NEW n \in StartIds, Begin(n) PROVE Watching'
<1>1. /\ todo[Start(n)] # <<>> /\ Head(todo[Start(n)]) = "Begin"
      /\ UNCHANGED <<begun, calledOff, may, pnum, unit, receiver, own>>
  BY DEF Begin, Is, startVars, playerVars, given
<1>2. CASE S!CalledOff(n)
  BY <1>1, <1>2, UndoWatched DEF Begin, UndoPlan, playVars
<1>3. CASE ~S!CalledOff(n)
  BY <1>1, <1>3, RecordWatched DEF Begin
<1> QED BY <1>2, <1>3

----------------------------------------------------------------------------
(* Back, the followers, and what happens of itself.                           *)

\* A step of a task that is no start.
LEMMA OtherKeeps ==
    ASSUME LiveInv, Watching, NEW t \in Tasks, t[1] # "Start", Still(t),
           UNCHANGED <<begun, calledOff, may, next, here>>, SameFilm,
           \A n \in StartIds : own'[Start(n)] = own[Start(n)],
           pnum' \in Nat, pnum' >= pnum, FilmOn => FilmOn' \/ pnum' > pnum,
           receiver = None => receiver' = None, ReceiverUp' => ReceiverUp,
           ReceiverUp' /\ Has(t, "Gone") => Has(t, "Gone")',
           ReceiverUp' /\ film # None /\ pnum' # pnum => Has(t, "Gone")',
           t = Back /\ todo'[Back] # todo[Back] => may.stop /\ Past',
           Apartness /\ ~Past' =>
               /\ unit' = unit /\ life' = life /\ (ReceiverUp => ReceiverUp') /\ (FilmOn => FilmOn')
               /\ \A m \in StartIds : /\ t = Mpv(m) => todo'[t] = <<>> \/ Is(t, "Hear")'
                                      /\ t = Source(m) => todo'[t] = <<>> \/ Is(t, "Watch")'
    PROVE  Watching'
<1>1. \A n \in StartIds : todo'[Start(n)] = todo[Start(n)] /\ t # Start(n)
  BY TaskNames DEF Still
<1>2. Unpressed' /\ (Past => Past')
  <2>1. CASE todo'[Back] = todo[Back]
    BY <2>1 DEF Watching, Unpressed, Past, Is
  <2>2. CASE todo'[Back] # todo[Back]
    <3>1. t = Back
      BY <2>2, TaskNames DEF Still
    <3> QED BY <2>2, <3>1 DEF Unpressed
  <2> QED BY <2>1, <2>2
<1>3. Queued'
  BY <1>1 DEF Watching, Queued, Locked, Is
<1>4. Waiting => Waiting'
  BY <1>1 DEF Waiting, Waits
<1> QED BY <1>1, <1>2, <1>3, <1>4, BesideKeeps

\* Back is past pressing once it has more before it, or nothing.
LEMMA BackPast ==
    ASSUME LiveInv, Watching, todo[Back] # <<>>, Head(todo[Back]) # "Idle", UNCHANGED may,
           todo'[Back] = <<>> \/ Head(todo'[Back]) \notin {"Idle", "CallOff", "StopHere"}
    PROVE  may.stop /\ Past'
<1>1. may.stop
  BY DEF Watching, Unpressed
<1> QED BY <1>1 DEF Past, Is

\* Without failures, and with Back still to come, a player's follower listens.
LEMMA NoFollowerStops ==
    ASSUME LiveInv, Watching, Apartness, NEW t \in Tasks, t[1] \in {"Mpv", "Source"},
           todo[t] # <<>>, Head(todo[t]) \notin {"Hear", "Watch"}, Moves(t), UNCHANGED may
    PROVE  Past'
<1>1. todo'[Back] = todo[Back]
  BY TaskNames DEF Moves
<1>2. ~Calm
  BY Kinds DEF Calm, Is
<1> QED BY <1>1, <1>2 DEF Watching, Past, Is

\* A task's step that leaves the film and the player's number alone, and the
\* receiver as it is, or gone.
LEMMA StopStepKeeps ==
    ASSUME LiveInv, Watching, NEW t \in Tasks, t[1] # "Start", Moves(t),
           todo[t] # <<>>, Head(todo[t]) \in {"Quit", "Stopping", "Gone", "Cleaned", "Finish"},
           todo'[t] # <<>> => Head(todo'[t]) \notin {"Idle", "CallOff", "StopHere"},
           UNCHANGED <<begun, calledOff, may, next, here, own, pnum>>,
           film' = film \/ (~FilmOn /\ film' = None),
           receiver' \in {receiver, None},
           ReceiverUp' /\ Has(t, "Gone") => Has(t, "Gone")'
    PROVE  Watching'
<1>1. Still(t) /\ pnum \in Nat /\ SameFilm
  BY MovesStill, Held DEF SameFilm
<1>2. FilmOn => FilmOn'
  BY DEF FilmOn
<1>3. (receiver = None => receiver' = None) /\ (ReceiverUp' => ReceiverUp)
  BY DEF ReceiverUp
<1>4. t = Back => may.stop /\ Past'
  BY BackPast
<1>5. ~(Apartness /\ ~Past')
  <2>1. t[1] \in {"Back", "Mpv", "Source"}
    <3>1. Plan(t, todo[t])
      BY Held
    <3>2. Head(todo[t]) = "Finish" => t[1] \in {"Start", "Back"}
      BY <3>1, StepOf
    <3>3. Head(todo[t]) = "Quit" => t[1] \in {"Start", "Back", "Mpv", "Source"}
      BY <3>1, StepOf
    <3>4. Head(todo[t]) \in {"Stopping", "Gone", "Cleaned"} => t[1] \in {"Start", "Back", "Mpv"}
      BY <3>1, StepOf
    <3> QED BY <3>2, <3>3, <3>4
  <2> QED BY <1>4, <2>1, Kinds, NoFollowerStops
<1> QED BY <1>1, <1>2, <1>3, <1>4, <1>5, OtherKeeps

LEMMA OthersStop ==
    ASSUME LiveInv, Watching, NEW t \in Tasks, t[1] # "Start",
           Quit(t) \/ Stopping(t) \/ Gone(t) \/ Cleaned(t) \/ Finish(t)
    PROVE  Watching'
<1> USE Held
<1>1. ASSUME NEW step \in {"Quit", "Gone", "Cleaned", "Finish"}, Is(t, step), Done(t)
      PROVE  /\ Moves(t) /\ todo[t] # <<>> /\ Head(todo[t]) = step
             /\ todo'[t] # <<>> => Head(todo'[t]) \notin {"Idle", "CallOff", "StopHere"}
             /\ step # "Gone" => (Has(t, "Gone") => Has(t, "Gone")')
  <2>1. todo[t] # <<>> /\ Head(todo[t]) = step
    BY <1>1 DEF Is
  <2> QED BY <1>1, <2>1, DoneMoves, DoneTo DEF Comes, Has
<1>2. CASE Quit(t)
  <2>1. /\ Is(t, "Quit") /\ Done(t)
        /\ UNCHANGED <<begun, calledOff, may, next, here, own, pnum, film, receiver>>
    BY <1>2 DEF Quit, startVars, playVars, tunerVars, given
  <2> QED BY <1>1, <2>1, StopStepKeeps
<1>3. CASE Gone(t)
  <2>1. /\ Is(t, "Gone") /\ Done(t) /\ receiver' = None /\ ~ReceiverUp'
        /\ UNCHANGED <<begun, calledOff, may, next, here, own, pnum, film>>
    BY <1>3 DEF Gone, startVars, playVars, playerVars, given, ReceiverUp
  <2> QED BY <1>1, <2>1, StopStepKeeps
<1>4. CASE Cleaned(t)
  <2>1. /\ Is(t, "Cleaned") /\ Done(t)
        /\ UNCHANGED <<begun, calledOff, may, next, here, own, pnum, film, receiver>>
    BY <1>4 DEF Cleaned, startVars, playVars, playerVars, given
  <2> QED BY <1>1, <2>1, StopStepKeeps
<1>5. CASE Finish(t)
  <2>1. /\ Is(t, "Finish") /\ Done(t)
        /\ UNCHANGED <<begun, calledOff, may, here, own, pnum, receiver>>
        /\ IF P!Playing(own[t]) THEN P!Finish(own[t], "Gone") ELSE UNCHANGED playVars
    BY <1>5 DEF Finish, startVars, playerVars, tunerVars, given
  <2>2. next' = next /\ (film' = film \/ (P!Playing(own[t]) /\ film' = None))
    BY <2>1 DEF P!Finish, playVars
  <2>3. P!Playing(own[t]) => ~FilmOn
    <3> SUFFICES ASSUME film # None, own[t] = film.number PROVE ~FilmOn
      BY DEF P!Playing
    <3>1. Has(t, "Finish")
      BY <1>1, <2>1, PlanTail DEF Has, Is
    <3>2. here[film.number] < pnum
      BY <3>1 DEF LiveInv, LiveParts, FinishLate
    <3> QED BY <3>2 DEF FilmOn
  <2> QED BY <1>1, <2>1, <2>2, <2>3, StopStepKeeps
<1>6. CASE Stopping(t)
  <2>1. /\ todo[t] # <<>> /\ Head(todo[t]) = "Stopping"
        /\ UNCHANGED <<begun, calledOff, may, next, here, film, own, receiver, pnum>>
        /\ \/ receiver = None /\ Goes(t, SubSeq(todo[t], 4, Len(todo[t])))
           \/ Done(t)
    BY <1>6 DEF Stopping, Is, startVars, playVars, playerVars, given
  <2>2. CASE Done(t)
    <3>1. /\ Moves(t)
          /\ todo'[t] # <<>> => Head(todo'[t]) \notin {"Idle", "CallOff", "StopHere"}
          /\ Has(t, "Gone") => Has(t, "Gone")'
      BY <2>1, <2>2, DoneMoves, DoneTo DEF Comes, Has
    <3> QED BY <2>1, <3>1, StopStepKeeps
  <2>3. CASE receiver = None /\ Goes(t, SubSeq(todo[t], 4, Len(todo[t])))
    <3> DEFINE r == Skipped(todo[t])
    <3>p. Plan(t, todo[t])
      OBVIOUS
    <3>0. t[1] \in {"Start", "Back", "Mpv"}
      BY <2>1, <3>p, StepOf
    <3>1. /\ Plan(t, r)
          /\ r # <<>> => <<"Cleaned", Head(r)>> \in Links[t[1]]
      BY <2>1, <3>p, <3>0, SkipMade
    <3>2. Moves(t) /\ todo'[t] = r
      BY <2>3, <3>1, GoesMoves DEF Skipped
    <3> HIDE DEF r
    <3>3. r # <<>> => Head(r) \notin {"Idle", "CallOff", "StopHere"}
      BY <3>0, <3>1 DEF Links, Stop
    <3>4. ~ReceiverUp'
      BY <2>1, <2>3 DEF ReceiverUp
    <3> QED BY <2>1, <3>2, <3>3, <3>4, StopStepKeeps
  <2> QED BY <2>1, <2>2, <2>3
<1> QED BY <1>2, <1>3, <1>4, <1>5, <1>6

\* Back takes what is on, and the receiver with it.
LEMMA BackStops == ASSUME LiveInv, Watching, StopHere(Back) PROVE Watching'
<1> DEFINE receives == LiveOn \/ playing # None
           p == StopHerePlan(receives, Tail(todo[Back]))
<1>1. /\ todo[Back] # <<>> /\ Head(todo[Back]) = "StopHere" /\ Intended(Back)
      /\ Goes(Back, p) /\ own' = [own EXCEPT ![Back] = Current] /\ pnum' = pnum + 1
      /\ UNCHANGED <<begun, calledOff, may, here, receiver>>
  BY DEF StopHere, Is, LetsGo, StopHerePlan, Rest, startVars, tunerVars, given
<1>2. /\ Back \in Tasks /\ Back[1] = "Back" /\ PlansOK /\ Plan(Back, todo[Back]) /\ pnum \in Nat
      /\ film # None => receives
  BY TaskNames, Held DEF PlansOK, LiveOn
<1>3. SameFilm /\ next' = next
  BY <1>1, IntendedSame
<1>4. /\ Plan(Back, p) /\ p # <<>> /\ Head(p) = "Quit"
      /\ \A step : Holds(Tail(todo[Back]), step) => Holds(p, step)
      /\ receives => Holds(p, "Gone")
  <2> receives \in BOOLEAN
    OBVIOUS
  <2> HIDE DEF receives
  <2> QED BY <1>1, <1>2, StopHereMade
<1> HIDE DEF p, receives
<1>5. Moves(Back) /\ todo'[Back] = p /\ Still(Back)
  BY <1>1, <1>2, <1>4, GoesMoves, MovesStill
<1>6. Has(Back, "Gone") => Has(Back, "Gone")'
  BY <1>1, <1>2, <1>4, <1>5, PlanTail DEF Has
<1>7. film # None => Has(Back, "Gone")'
  BY <1>2, <1>4, <1>5 DEF Has
<1>8. may.stop /\ Past'
  BY <1>1, <1>4, <1>5, BackPast
<1>9. (ReceiverUp' <=> ReceiverUp) /\ \A n \in StartIds : own'[Start(n)] = own[Start(n)]
  BY <1>1, TasksDiffer DEF ReceiverUp
<1> QED BY <1>1, <1>2, <1>3, <1>5, <1>6, <1>7, <1>8, <1>9, OtherKeeps

\* Who matches the display is nobody's who stops a receiver.
LEMMA DisplaysWatched ==
    ASSUME LiveInv, Watching, NEW t \in Tasks, t[1] \in {"Rematch", "Display"}, Moves(t),
           UNCHANGED <<begun, calledOff, may, next, here, film, own, pnum, unit, life, receiver>>
    PROVE  Watching'
<1>1. Still(t) /\ pnum \in Nat /\ SameFilm /\ ~Has(t, "Gone")
  BY MovesStill, Held, NoneGone DEF SameFilm
<1>2. (FilmOn' <=> FilmOn) /\ (ReceiverUp' <=> ReceiverUp)
  BY DEF FilmOn, ReceiverUp
<1>3. t # Back /\ \A m \in StartIds : t # Mpv(m) /\ t # Source(m)
  BY TaskNames
<1> QED BY <1>1, <1>2, <1>3, OtherKeeps

LEMMA RematchWatched ==
    ASSUME LiveInv, Watching, NEW n \in StartIds, Match(Rematch(n)) PROVE Watching'
<1>1. /\ todo[Rematch(n)] # <<>> /\ Done(Rematch(n))
      /\ UNCHANGED <<begun, calledOff, may, next, here, film, own, pnum, unit, life, receiver>>
  BY DEF Match, Is, startVars, playVars, playerVars, tunerVars, given
<1>2. Rematch(n) \in Tasks /\ Rematch(n)[1] = "Rematch" /\ PlansOK
  BY TaskNames, Held
<1>3. Moves(Rematch(n))
  BY <1>1, <1>2, DoneMoves
<1> QED BY <1>1, <1>2, <1>3, DisplaysWatched

LEMMA OpeningWatched == ASSUME LiveInv, Watching, NEW m \in StartIds, Opening(m) PROVE Watching'
<1>1. /\ todo[Display(m)] # <<>> /\ (Goes(Display(m), <<>>) \/ Done(Display(m)))
      /\ UNCHANGED <<begun, calledOff, may, next, here, film, own, pnum, unit, life, receiver>>
  BY DEF Opening, Is, startVars, playVars, playerVars, tunerVars, given
<1>2. Display(m) \in Tasks /\ Display(m)[1] = "Display" /\ PlansOK
  BY TaskNames, Held
<1>3. Moves(Display(m))
  BY <1>1, <1>2, DoneMoves, GoesMoves, EmptyPlan
<1> QED BY <1>1, <1>2, <1>3, DisplaysWatched

LEMMA EndWatched == ASSUME LiveInv, Watching, NEW m \in StartIds, End(m) PROVE Watching'
<1>1. /\ todo[Display(m)] # <<>> /\ Done(Display(m))
      /\ UNCHANGED <<begun, calledOff, may, next, here, film, own, pnum, unit, life, receiver>>
  BY DEF End, Is, startVars, playVars, playerVars, tunerVars, given
<1>2. Display(m) \in Tasks /\ Display(m)[1] = "Display" /\ PlansOK
  BY TaskNames, Held
<1>3. Moves(Display(m))
  BY <1>1, <1>2, DoneMoves
<1> QED BY <1>1, <1>2, <1>3, DisplaysWatched

\* The player's follower stops the receiver of the film it takes off the record.
LEMMA HearWatched == ASSUME LiveInv, Watching, NEW m \in StartIds, Hear(m) PROVE Watching'
<1> DEFINE t == Mpv(m)
           s == <<"Quit">> \o StopReceiver
<1>1. /\ todo[t] # <<>> /\ Head(todo[t]) = "Hear" /\ (unit = None \/ pnum # here[m])
      /\ IF P!Playing(m) THEN film' = None ELSE film' = film
      /\ IF P!Playing(m) /\ pnum = here[m] THEN pnum' = pnum + 1 /\ Goes(t, s)
                                           ELSE pnum' = pnum /\ Goes(t, <<>>)
      /\ UNCHANGED <<begun, calledOff, may, next, here, own, unit, life, receiver>>
  BY DEF Hear, P!Finish, Is, startVars, playVars, tunerVars, given, LetsGo
<1>2. /\ t \in Tasks /\ t[1] = "Mpv" /\ t # Back /\ \A k \in StartIds : t # Source(k)
      /\ PlansOK /\ Plan(t, todo[t]) /\ pnum \in Nat
  BY TaskNames, Held DEF PlansOK
<1>p. Plan(t, s) /\ Holds(s, "Gone")
  <2>1. /\ s \in Seq(Steps) /\ Len(s) = 4
        /\ s[1] = "Quit" /\ s[2] = "Stopping" /\ s[3] = "Gone" /\ s[4] = "Cleaned"
    BY DEF StopReceiver, Steps
  <2> HIDE DEF s
  <2>2. 3 \in 1..Len(s)
    BY <2>1
  <2> QED BY <1>2, <2>1, <2>2 DEF Plan, Holds, Links, Ends, Stop
<1> HIDE DEF s
<1>3. ~Has(t, "Gone")
  <2> DEFINE q == Tail(todo[t])
  <2>1. /\ q # <<>> => <<"Hear", Head(q)>> \in Links["Mpv"]
        /\ \A step : Holds(todo[t], step) <=> "Hear" = step \/ Holds(q, step)
    BY <1>1, <1>2, PlanTail
  <2> HIDE DEF q
  <2>2. q = <<>>
    BY <2>1 DEF Links, Stop
  <2> QED BY <2>1, <2>2, EmptyPlan DEF Has
<1>4. /\ Moves(t) /\ Still(t)
      /\ IF P!Playing(m) /\ pnum = here[m] THEN todo'[t] = s ELSE todo'[t] = <<>>
  <2>1. CASE P!Playing(m) /\ pnum = here[m]
    BY <1>1, <1>2, <1>p, <2>1, GoesMoves, MovesStill
  <2>2. CASE ~(P!Playing(m) /\ pnum = here[m])
    BY <1>1, <1>2, <2>2, EmptyPlan, GoesMoves, MovesStill
  <2> QED BY <2>1, <2>2
<1> HIDE DEF t
<1>5. SameFilm /\ (ReceiverUp' <=> ReceiverUp) /\ pnum' \in Nat /\ pnum' >= pnum
  BY <1>1, <1>2 DEF SameFilm, ReceiverUp
<1>6. P!Playing(m) /\ pnum = here[m] => FilmOn /\ Has(t, "Gone")'
  BY <1>p, <1>4 DEF P!Playing, FilmOn, Has
<1>7. FilmOn => FilmOn' \/ (P!Playing(m) /\ pnum = here[m] /\ pnum' > pnum)
  BY <1>1, <1>2 DEF P!Playing, FilmOn
<1>8. ASSUME Apartness, ~Past' PROVE (FilmOn => FilmOn') /\ todo'[t] = <<>>
  <2>1. todo'[Back] = todo[Back]
    BY <1>2, <1>4, TaskNames DEF Moves
  <2>2. Calm
    BY <1>1, <1>8, <2>1 DEF Watching, Past, Is
  <2>3. ~(P!Playing(m) /\ pnum = here[m])
    BY <1>1, <1>6, <2>2 DEF Calm
  <2> QED BY <1>4, <1>7, <2>3
<1>9. pnum' # pnum => Has(t, "Gone")'
  BY <1>1, <1>6
<1> QED BY <1>1, <1>2, <1>3, <1>4, <1>5, <1>7, <1>8, <1>9, OtherKeeps

\* The receiver's follower stops a player of a receiver that has gone.
LEMMA WatchWatched == ASSUME LiveInv, Watching, NEW m \in StartIds, Watch(m) PROVE Watching'
<1> DEFINE t == Source(m)
<1>1. /\ todo[t] # <<>>
      /\ \/ Goes(t, <<>>) /\ film' = film /\ pnum' = pnum
         \/ /\ pnum = here[m] /\ ~ReceiverUp /\ Goes(t, <<"Quit">>) /\ pnum' = pnum + 1
            /\ IF P!Playing(m)
               THEN film' = IF film.sourceEnd = None THEN [film EXCEPT !.sourceEnd = "Broken"] ELSE film
               ELSE film' = film
      /\ UNCHANGED <<begun, calledOff, may, next, here, own, unit, life, receiver>>
  BY DEF Watch, P!SourceEnded, Is, LetsGo, startVars, playVars, tunerVars, given
<1>2. /\ t \in Tasks /\ t[1] = "Source" /\ t # Back /\ \A k \in StartIds : t # Mpv(k)
      /\ PlansOK /\ pnum \in Nat /\ m <= next
  BY <1>1, TaskNames, Held DEF FilmsFollowed
<1>3. SameFilm /\ (film' = None <=> film = None) /\ (film # None => film'.number = film.number)
  <2>1. film # None => film \in P!Film
    BY DEF LiveInv, Recorded
  <2>2. ASSUME film # None, film' = [film EXCEPT !.sourceEnd = "Broken"]
        PROVE  film'.number = film.number /\ film'.live = film.live /\ film' # None
    <3>1. film' \in P!Film
      BY <2>1, <2>2 DEF P!Film, P!SourceEnds
    <3> QED BY <2>1, <2>2, <3>1, NoneAssumption DEF P!Film
  <2> QED BY <1>1, <2>2 DEF SameFilm, P!Playing
<1>4. Plan(t, <<"Quit">>)
  BY <1>2 DEF Plan, Ends, Steps
<1>5. Moves(t) /\ Still(t) /\ (Goes(t, <<>>) => todo'[t] = <<>>)
  BY <1>1, <1>2, <1>4, EmptyPlan, GoesMoves, MovesStill
<1>6. (ReceiverUp' <=> ReceiverUp) /\ ~Has(t, "Gone")
  BY <1>1, <1>2, NoneGone DEF ReceiverUp
<1>7. pnum' \in Nat /\ pnum' >= pnum /\ (FilmOn => FilmOn' \/ pnum' > pnum)
  BY <1>1, <1>2, <1>3 DEF FilmOn
<1>8. pnum' = pnum \/ ~ReceiverUp
  BY <1>1
<1>9. ASSUME Apartness, ~Past' PROVE (FilmOn => FilmOn') /\ todo'[t] = <<>>
  <2>1. todo'[Back] = todo[Back]
    BY <1>2, <1>5, TaskNames DEF Moves
  <2>2. Calm
    BY <1>1, <1>9, <2>1 DEF Watching, Past, Is
  <2>3. pnum = here[m] => FilmOn
    BY <1>2 DEF Watching, HereOn, FilmOn
  <2>4. Goes(t, <<>>) /\ film' = film /\ pnum' = pnum
    BY <1>1, <2>2, <2>3 DEF Calm
  <2> QED BY <1>1, <1>5, <2>4 DEF FilmOn
<1> HIDE DEF t
<1> QED BY <1>1, <1>2, <1>3, <1>5, <1>6, <1>7, <1>8, <1>9, OtherKeeps

\* What happens to the receiver and the player of themselves, and what does not.
LEMMA OutsideWatched ==
    ASSUME LiveInv, Watching,
           UNCHANGED <<begun, calledOff, may, next, here, film, own, pnum, life, todo>>,
           receiver = None => receiver' = None, ReceiverUp' => ReceiverUp,
           may.fail \/ (unit' = unit /\ (ReceiverUp => ReceiverUp'))
    PROVE  Watching'
<1>1. /\ Back \in Tasks /\ Back[1] = "Back" /\ pnum \in Nat
      /\ \A m \in StartIds : Back # Mpv(m) /\ Back # Source(m)
  BY TaskNames, Held
<1>2. SameFilm /\ (FilmOn' <=> FilmOn) /\ Still(Back) /\ (Past' <=> Past)
  BY DEF SameFilm, FilmOn, Still, Past, Is
<1>3. Apartness /\ ~Past' => unit' = unit /\ (ReceiverUp => ReceiverUp')
  BY <1>2 DEF Apartness, Past
<1>4. Has(Back, "Gone") => Has(Back, "Gone")'
  BY DEF Has
<1> QED BY <1>1, <1>2, <1>3, <1>4, OtherKeeps

LEMMA ProcessesWatched ==
    ASSUME LiveInv, Watching, ReceiverFollows \/ ReceiverEnds \/ PlayerDies \/ UNCHANGED vars
    PROVE  Watching'
<1>1. UNCHANGED <<begun, calledOff, may, next, here, film, own, pnum, life, todo>>
  BY DEF ReceiverFollows, ReceiverEnds, PlayerDies, vars, startVars, playVars, playerVars, tunerVars,
         given, taskVars
<1>2. receiver # None => receiver \in [service : Channels, fifo : Nat, ended : BOOLEAN]
  BY Held DEF HeldOK
<1>3. CASE ReceiverFollows
  <2>1. /\ ReceiverUp /\ unit' = unit /\ select # None
        /\ receiver' = [receiver EXCEPT !.service = select.service, !.fifo = select.fifo]
    BY <1>3 DEF ReceiverFollows, playerVars
  <2>2. select \in Services
    BY <2>1, Held DEF HeldOK
  <2>3. receiver' \in [service : Channels, fifo : Int, ended : BOOLEAN] /\ receiver'.ended = receiver.ended
    <3>1. /\ receiver \in [service : Channels, fifo : Nat, ended : BOOLEAN]
          /\ select.service \in Channels /\ select.fifo \in Nat
      BY <1>2, <2>1, <2>2 DEF ReceiverUp, Services
    <3>2. receiver' \in [service : Channels, fifo : Nat, ended : BOOLEAN]
          /\ receiver'.ended = receiver.ended
      BY <2>1, <3>1
    <3> QED BY <3>2
  <2>4. ReceiverUp' /\ receiver # None
    BY <2>1, <2>3, NoneAssumption DEF ReceiverUp
  <2> QED BY <1>1, <2>1, <2>4, OutsideWatched
<1>4. CASE ReceiverEnds
  <2>1. may.fail /\ ReceiverUp /\ receiver' = [receiver EXCEPT !.ended = TRUE]
    BY <1>4 DEF ReceiverEnds
  <2>2. ~ReceiverUp' /\ receiver # None
    BY <1>2, <2>1 DEF ReceiverUp
  <2> QED BY <1>1, <2>1, <2>2, OutsideWatched
<1>5. CASE PlayerDies
  BY <1>1, <1>5, OutsideWatched DEF PlayerDies, tunerVars, ReceiverUp
<1>6. CASE UNCHANGED vars
  <2>1. unit' = unit /\ receiver' = receiver
    BY <1>6 DEF vars, playerVars, tunerVars
  <2> QED BY <1>1, <2>1, OutsideWatched DEF ReceiverUp
<1> QED BY <1>3, <1>4, <1>5, <1>6

----------------------------------------------------------------------------
(* The counters, the lock and the press of Back.                              *)

LEMMA CountersWatched ==
    ASSUME LiveInv, Watching, NEW t \in Tasks, t[1] \in {"Start", "Back"}, Moves(t),
           t[1] = "Start" =>
               /\ todo[t] # <<>> => Head(todo[t]) \in EarlySteps \cup {"Decide", "Over"}
               /\ todo'[t] # <<>> => Head(todo'[t]) \in EarlySteps \cup {"Decide", "Over"},
           UNCHANGED <<playVars, playerVars, tunerVars, here, may>>,
           \A n \in StartIds : t # Start(n) => own'[Start(n)] = own[Start(n)],
           t = Back /\ Has(t, "Gone") => Has(t, "Gone")',
           Unpressed', Queued', Past => Past', Past /\ Waiting => Waiting'
    PROVE  Watching'
<1>1. /\ UNCHANGED <<next, film, here, pnum, unit, life, receiver>>
      /\ pnum \in Nat /\ Plan(t, todo[t]) /\ Plan(t, todo'[t])
  BY Held DEF playVars, playerVars, tunerVars, Moves
<1>2. SameFilm /\ (FilmOn' <=> FilmOn) /\ (ReceiverUp' <=> ReceiverUp) /\ Still(t)
  BY <1>1, MovesStill DEF SameFilm, FilmOn, ReceiverUp
<1>3. t[1] = "Start" => Aside(todo[t]) /\ Aside(todo'[t])
  BY <1>1, LeftAside
<1>4. Has(t, "Gone") => Has(t, "Gone")'
  BY <1>3, Kinds DEF Aside, Has
<1>5. \A m \in StartIds : t # Mpv(m) /\ t # Source(m)
  BY TaskNames
<1> QED BY <1>1, <1>2, <1>3, <1>4, <1>5, BesideKeeps

\* A start of the counters leaves Back where it is.
LEMMA BackStays ==
    ASSUME LiveInv, Watching, NEW n \in StartIds, Moves(Start(n)), UNCHANGED may
    PROVE  Unpressed' /\ (Past' <=> Past)
<1>1. todo'[Back] = todo[Back]
  BY TaskNames, TasksDiffer DEF Moves
<1> QED BY <1>1 DEF Watching, Unpressed, Past, Is

\* While a start not called off has the lock, the later ones are on their way.
LEMMA ChooseWatched == ASSUME LiveInv, Watching, NEW c \in Channels, Choose(c) PROVE Watching'
<1> DEFINE k == begun + 1
           t == Start(k)
           s == <<"Count", "CallOff", "Lock">>
<1>1. /\ begun < MaxStarts /\ begun' = begun + 1 /\ calledOff' = calledOff /\ Goes(t, s)
      /\ UNCHANGED <<playVars, playerVars, tunerVars, may, own, here>>
  BY DEF Choose, S!TakeNumber
<1>2. begun \in Nat /\ k \in StartIds
  BY <1>1, LiveStartAssumption DEF LiveInv, Counted, StartIds
<1>3. t \in Tasks /\ t[1] = "Start" /\ t # Back /\ PlansOK
  BY <1>2, TaskNames, Held
<1>4. todo[t] = <<>>
  BY <1>2, Held DEF Linked
<1>5. Plan(t, s) /\ s # <<>> /\ Head(s) = "Count"
  BY <1>3, Literal
<1> HIDE DEF s
<1>6. Moves(t) /\ todo'[t] = s
  BY <1>1, <1>3, <1>5, GoesMoves
<1>7. \A n \in StartIds : n # k => todo'[Start(n)] = todo[Start(n)]
  BY <1>6, TaskNames, TasksDiffer DEF Moves
<1>8. Queued'
  <2> SUFFICES ASSUME NEW n \in StartIds, Locked(n)', ~Is(Start(n), "Over")',
                      NEW j \in StartIds, n < j, j <= begun'
               PROVE  todo'[Start(j)] # <<>>
    BY DEF Queued
  <2>1. n # k
    BY <1>5, <1>6 DEF Locked
  <2>2. CASE j = k
    BY <1>5, <1>6, <2>2
  <2>3. CASE j # k
    <3>1. j <= begun
      BY <1>1, <1>2, <2>3 DEF StartIds
    <3> QED BY <1>7, <2>1, <2>3, <3>1 DEF Watching, Queued, Locked, Is
  <2> QED BY <2>2, <2>3
<1>9. Waiting => Waiting'
  <2> SUFFICES ASSUME NEW n \in StartIds, Waits(n) PROVE Waits(n)'
    BY DEF Waiting
  <2>1. n # k
    BY <1>4 DEF Waits
  <2> QED BY <1>1, <1>7, <2>1 DEF Waits
<1>10. Unpressed' /\ (Past' <=> Past)
  BY <1>1, <1>2, <1>6, BackStays
<1> HIDE DEF t
<1> QED BY <1>1, <1>3, <1>4, <1>5, <1>6, <1>8, <1>9, <1>10, CountersWatched DEF EarlySteps

LEMMA CountInWatched == ASSUME LiveInv, Watching, NEW n \in StartIds, CountIn(n) PROVE Watching'
<1> DEFINE t == Start(n)
<1>1. /\ todo[t] # <<>> /\ Head(todo[t]) = "Count" /\ Done(t)
      /\ UNCHANGED <<begun, calledOff>> /\ UNCHANGED <<playVars, playerVars, tunerVars, may, own, here>>
  BY DEF CountIn, S!Count, Is, given
<1>2. t \in Tasks /\ t[1] = "Start" /\ t # Back /\ PlansOK
  BY TaskNames, Held
<1>3. Moves(t) /\ todo'[t] # <<>> /\ Head(todo'[t]) = "CallOff"
  <2>1. /\ Moves(t)
        /\ todo'[t] = <<>> => "Count" \in Ends["Start"]
        /\ todo'[t] # <<>> => <<"Count", Head(todo'[t])>> \in Links["Start"]
    BY <1>1, <1>2, DoneMoves
  <2> QED BY <2>1 DEF Links, Ends, Stop
<1>4. \A k \in StartIds : k # n => todo'[Start(k)] = todo[Start(k)]
  BY <1>3, TaskNames, TasksDiffer DEF Moves
<1>5. Queued'
  <2>1. ~Locked(n)'
    BY <1>3 DEF Locked
  <2> QED BY <1>1, <1>3, <1>4, <2>1 DEF Watching, Queued, Locked, Is
<1>6. Waiting => Waiting'
  <2> SUFFICES ASSUME NEW k \in StartIds, Waits(k) PROVE Waits(k)'
    BY DEF Waiting
  <2> QED BY <1>1, <1>3, <1>4 DEF Waits
<1>7. Unpressed' /\ (Past' <=> Past)
  BY <1>1, <1>3, BackStays
<1> HIDE DEF t
<1> QED BY <1>1, <1>2, <1>3, <1>5, <1>6, <1>7, CountersWatched DEF EarlySteps

LEMMA CallOffOlderWatched ==
    ASSUME LiveInv, Watching, NEW n \in StartIds, CallOffOlder(n) PROVE Watching'
<1> DEFINE t == Start(n)
<1>1. /\ todo[t] # <<>> /\ Head(todo[t]) = "CallOff" /\ Done(t)
      /\ begun' = begun /\ calledOff' = S!Raised(n - 1)
      /\ UNCHANGED <<playVars, playerVars, tunerVars, may, own, here>>
  BY DEF CallOffOlder, S!CallOffOlder, Is, given
<1>2. t \in Tasks /\ t[1] = "Start" /\ t # Back /\ PlansOK
  BY TaskNames, Held
<1>3. Moves(t) /\ todo'[t] # <<>> /\ Head(todo'[t]) = "Lock"
  <2>1. /\ Moves(t)
        /\ todo'[t] = <<>> => "CallOff" \in Ends["Start"]
        /\ todo'[t] # <<>> => <<"CallOff", Head(todo'[t])>> \in Links["Start"]
    BY <1>1, <1>2, DoneMoves
  <2> QED BY <2>1 DEF Links, Ends, Stop
<1>4. \A k \in StartIds : k # n => todo'[Start(k)] = todo[Start(k)]
  BY <1>3, TaskNames, TasksDiffer DEF Moves
<1>5. Queued'
  <2>1. ~Locked(n)'
    BY <1>3 DEF Locked
  <2> QED BY <1>1, <1>3, <1>4, <2>1 DEF Watching, Queued, Locked, Is
<1>6. Waiting => Waiting'
  <2> SUFFICES ASSUME NEW k \in StartIds, Waits(k) PROVE Waiting'
    BY DEF Waiting
  <2>1. k \in Nat /\ n \in Nat /\ calledOff \in Nat /\ k > calledOff
    BY DEF LiveInv, Counted, StartIds, Waits
  <2>2. CASE k > calledOff'
    <3>1. Waits(k)'
      BY <1>3, <1>4, <2>2 DEF Waits
    <3> QED BY <3>1 DEF Waiting
  <2>3. CASE ~(k > calledOff')
    <3>1. n > calledOff'
      BY <1>1, <2>1, <2>3 DEF S!Raised
    <3>2. Waits(n)'
      BY <1>3, <3>1 DEF Waits
    <3> QED BY <3>2 DEF Waiting
  <2> QED BY <2>2, <2>3
<1>7. Unpressed' /\ (Past' <=> Past)
  BY <1>1, <1>3, BackStays
<1> HIDE DEF t
<1> QED BY <1>1, <1>2, <1>3, <1>5, <1>6, <1>7, CountersWatched DEF EarlySteps

LEMMA LockWatched == ASSUME LiveInv, Watching, NEW n \in StartIds, Lock(n) PROVE Watching'
<1> DEFINE t == Start(n)
<1>1. /\ todo[t] # <<>> /\ Head(todo[t]) = "Lock" /\ change = None
      /\ IF n <= calledOff THEN Goes(t, <<"Over">>) ELSE Goes(t, <<"Decide">>)
      /\ UNCHANGED <<begun, calledOff>> /\ UNCHANGED <<playVars, playerVars, tunerVars, may, own, here>>
  BY DEF Lock, S!CalledOff, Is, startVars, given
<1>2. t \in Tasks /\ t[1] = "Start" /\ t # Back /\ PlansOK
  BY TaskNames, Held
<1>3. /\ Moves(t) /\ todo'[t] # <<>>
      /\ Head(todo'[t]) = IF n <= calledOff THEN "Over" ELSE "Decide"
  <2>1. CASE n <= calledOff
    BY <1>1, <1>2, <2>1, Literal, GoesMoves
  <2>2. CASE ~(n <= calledOff)
    BY <1>1, <1>2, <2>2, Literal, GoesMoves
  <2> QED BY <2>1, <2>2
<1>4. \A k \in StartIds : k # n => todo'[Start(k)] = todo[Start(k)]
  BY <1>3, TaskNames, TasksDiffer DEF Moves
<1>5. Queued'
  <2> SUFFICES ASSUME NEW m \in StartIds, Locked(m)', ~Is(Start(m), "Over")',
                      NEW j \in StartIds, m < j, j <= begun
               PROVE  todo'[Start(j)] # <<>>
    BY <1>1 DEF Queued
  <2>1. m = n
    <3>1. ~Locked(m)
      BY <1>1, Held, LiveStartAssumption DEF Linked, StartIds
    <3> QED BY <1>4, <3>1 DEF Locked
  <2>2. ~(n <= calledOff) /\ n \in Nat /\ j \in Nat /\ calledOff \in Nat
    BY <1>3, <2>1 DEF Is, StartIds, LiveInv, Counted
  <2>3. ~(j - 1 <= calledOff)
    BY <2>1, <2>2
  <2>4. Early(j)
    BY <2>3, Held DEF Linked
  <2> QED BY <1>4, <2>1, <2>2, <2>4 DEF Early
<1>6. Waiting => Waiting'
  <2> SUFFICES ASSUME NEW k \in StartIds, Waits(k) PROVE Waits(k)'
    BY DEF Waiting
  <2>1. k = n => ~(n <= calledOff)
    BY DEF Waits, StartIds, LiveInv, Counted
  <2> QED BY <1>1, <1>3, <1>4, <2>1 DEF Waits
<1>7. Unpressed' /\ (Past' <=> Past)
  BY <1>1, <1>3, BackStays
<1> HIDE DEF t
<1> QED BY <1>1, <1>2, <1>3, <1>5, <1>6, <1>7, CountersWatched DEF EarlySteps

LEMMA OverWatched == ASSUME LiveInv, Watching, NEW n \in StartIds, Over(n) PROVE Watching'
<1> DEFINE t == Start(n)
<1>1. /\ todo[t] # <<>> /\ Head(todo[t]) = "Over" /\ Done(t)
      /\ begun' = begun /\ calledOff' = calledOff /\ own' = [own EXCEPT ![t] = None]
      /\ UNCHANGED <<playVars, playerVars, tunerVars, may, here>>
  BY DEF Over, S!EndStart, Is, given
<1>2. t \in Tasks /\ t[1] = "Start" /\ t # Back /\ PlansOK
  BY TaskNames, Held
<1>3. Moves(t) /\ todo'[t] = <<>>
  <2>1. Moves(t) /\ (todo'[t] # <<>> => <<"Over", Head(todo'[t])>> \in Links["Start"])
    BY <1>1, <1>2, DoneMoves
  <2> QED BY <2>1 DEF Links, Stop
<1>4. \A k \in StartIds : k # n => todo'[Start(k)] = todo[Start(k)] /\ ~Locked(k)
  <2>1. Locked(n)
    BY <1>1 DEF Locked
  <2> QED BY <1>3, <2>1, OthersAside, TaskNames, TasksDiffer DEF Moves
<1>5. Queued'
  BY <1>3, <1>4 DEF Queued, Locked
<1>6. Waiting => Waiting'
  <2> SUFFICES ASSUME NEW k \in StartIds, Waits(k) PROVE Waits(k)'
    BY DEF Waiting
  <2>1. k # n
    BY <1>1 DEF Waits
  <2> QED BY <1>1, <1>4, <2>1 DEF Waits
<1>7. Unpressed' /\ (Past' <=> Past)
  BY <1>1, <1>3, BackStays
<1>8. \A k \in StartIds : t # Start(k) => own'[Start(k)] = own[Start(k)]
  BY <1>1
<1> HIDE DEF t
<1> QED BY <1>1, <1>2, <1>3, <1>5, <1>6, <1>7, <1>8, CountersWatched

\* Back goes on: it has not called anything off yet, or is doing so.
LEMMA BackGoesOn ==
    ASSUME LiveInv, Watching, PressBack \/ BackCallsOff PROVE Watching'
<1> DEFINE s == <<"CallOff", "StopHere">>
<1>1. /\ todo[Back] # <<>> /\ Head(todo[Back]) \in {"Idle", "CallOff"}
      /\ may.stop /\ UNCHANGED <<begun, may, own, here>> /\ UNCHANGED <<playVars, playerVars, tunerVars>>
  <2>1. CASE PressBack
    <3>1. todo[Back] = <<"Idle">> /\ may.stop
      BY <2>1 DEF PressBack
    <3>2. todo[Back] # <<>> /\ Head(todo[Back]) = "Idle"
      BY <3>1
    <3> QED BY <2>1, <3>1, <3>2 DEF PressBack, S!ReadBegun, given
  <2>2. CASE BackCallsOff
    <3>1. todo[Back] # <<>> /\ Head(todo[Back]) = "CallOff"
      BY <2>2 DEF BackCallsOff, Is
    <3>2. ~may.stop => Head(todo[Back]) = "Idle"
      BY DEF Watching, Unpressed
    <3> QED BY <2>2, <3>1, <3>2 DEF BackCallsOff, S!CallOffRead, given
  <2> QED BY <2>1, <2>2
<1>2. Back \in Tasks /\ Back[1] = "Back" /\ PlansOK /\ \A n \in StartIds : Start(n) # Back
  BY TaskNames, TasksDiffer, Held
<1>3. ~Past
  BY <1>1 DEF Past, Is
<1>4. Moves(Back) /\ (Has(Back, "Gone") => Has(Back, "Gone")')
  <2>1. CASE PressBack
    <3>1. Plan(Back, s)
      <4>1. s \in Seq(Steps) /\ Len(s) = 2 /\ s[1] = "CallOff" /\ s[2] = "StopHere"
        BY DEF Steps
      <4> HIDE DEF s
      <4> QED BY <1>2, <4>1 DEF Plan, Links, Ends
    <3>2. Len(todo[Back]) = 1 /\ todo[Back][1] = "Idle" /\ Goes(Back, s)
      BY <2>1 DEF PressBack
    <3> HIDE DEF s
    <3>3. ~Has(Back, "Gone")
      BY <3>2 DEF Has, Holds
    <3> QED BY <1>2, <3>1, <3>2, <3>3, GoesMoves
  <2>2. CASE BackCallsOff
    <3>1. Done(Back) /\ Head(todo[Back]) = "CallOff"
      BY <2>2 DEF BackCallsOff, Is
    <3> QED BY <1>1, <1>2, <3>1, DoneMoves DEF Has
  <2> QED BY <2>1, <2>2
<1>5. \A n \in StartIds : todo'[Start(n)] = todo[Start(n)]
  BY <1>2, <1>4, TaskNames DEF Moves
<1>6. Queued' /\ Unpressed'
  BY <1>1, <1>5 DEF Watching, Queued, Locked, Is, Unpressed
<1> QED BY <1>1, <1>2, <1>3, <1>4, <1>6, CountersWatched

----------------------------------------------------------------------------
(* The theorem.                                                               *)

LEMMA InitWatching == ASSUME LiveStartInit PROVE Watching
<1>1. /\ next = 0 /\ film = None /\ receiver = None /\ todo[Back] = <<"Idle">>
      /\ \A n \in StartIds : todo[Start(n)] = <<>> /\ todo[Mpv(n)] = <<>> /\ todo[Source(n)] = <<>>
  <2>1. \A n \in StartIds : Start(n) # Back /\ Mpv(n) # Back /\ Source(n) # Back
    BY TasksDiffer
  <2> QED BY <2>1, TaskNames DEF LiveStartInit, P!PlayInit
<1>2. \A n \in StartIds : ~Locked(n) /\ ~Clears(n) /\ ~Puts(n) /\ ~Keeps(n)
  BY <1>1, EmptyPlan DEF Locked, Clears, Puts, Keeps, Has
<1>3. \A n \in StartIds : ~EndsIn(todo[Start(n)], {"Begin"})
  BY <1>1, EmptyPlan
<1>4. ~ReceiverUp /\ ~FilmOn
  BY <1>1 DEF ReceiverUp, FilmOn
<1>5. Unpressed /\ Queued /\ ReceiverAlone /\ FilmGone /\ FilmLeaving /\ Straight
  BY <1>1, <1>2, <1>3 DEF Unpressed, Queued, ReceiverAlone, FilmGone, FilmLeaving, Straight
<1>6. HereOn
  BY <1>1 DEF HereOn, StartIds
<1>7. ReceiverWatched
  BY <1>4 DEF ReceiverWatched
<1>8. Calm
  BY <1>1, <1>2, <1>3, <1>4 DEF Calm, Whole, Uses, Is
<1> QED BY <1>5, <1>6, <1>7, <1>8 DEF Watching

LEMMA NextWatching == ASSUME Inv, Watching, [LiveStartNext]_vars PROVE Watching'
<1>0. LiveInv
  BY InvIsLive
<1>1. ASSUME NEW n \in StartIds, StartStep(n) PROVE Watching'
  BY <1>0, <1>1, CountInWatched, CallOffOlderWatched, LockWatched, DecideWatched, RetryWatched,
     AskWatched, SwitchWatched, ReloadWatched, ReceiverWatchedStart, UpWatched, OpenedWatched,
     RateWatched, AfterMatchWatched, LaunchWatched, LaunchedWatched, BeginWatched, OverWatched
     DEF StartStep
<1>2. ASSUME NEW m \in StartIds, FollowStep(m) PROVE Watching'
  BY <1>0, <1>2, HearWatched, OpeningWatched, EndWatched, WatchWatched DEF FollowStep
<1>3. ASSUME NEW t \in Tasks, StopStep(t) PROVE Watching'
  <2>1. CASE t[1] = "Start"
    <3>1. PICK n \in StartIds : t = Start(n)
      BY <2>1, Kinds
    <3>2. StopStep(Start(n))
      BY <1>3, <3>1
    <3> QED BY <1>0, <3>2, TakeWatched, QuitWatched, StoppingWatched, GoneWatched, CleanedWatched,
            StopHereWatched, FinishWatched, MatchWatched DEF StopStep
  <2>2. CASE t[1] # "Start"
    <3>1. Plan(t, todo[t])
      BY <1>0, Held
    <3>2. ~Take(t)
      BY <2>2, <3>1, StepOf DEF Take, Is
    <3>3. StopHere(t) => t = Back
      BY <2>2, <3>1, StepOf, Kinds DEF StopHere, Is
    <3>4. Match(t) => \E n \in StartIds : t = Rematch(n)
      BY <2>2, <3>1, StepOf, Kinds DEF Match, Is
    <3> QED BY <1>0, <1>3, <2>2, <3>2, <3>3, <3>4, OthersStop, BackStops, RematchWatched DEF StopStep
  <2> QED BY <2>1, <2>2
<1>4. ASSUME NEW c \in Channels, Choose(c) PROVE Watching'
  BY <1>0, <1>4, ChooseWatched
<1>5. PressBack \/ BackCallsOff => Watching'
  BY <1>0, BackGoesOn
<1>6. ReceiverFollows \/ ReceiverEnds \/ PlayerDies \/ UNCHANGED vars => Watching'
  BY <1>0, ProcessesWatched
<1> QED BY <1>1, <1>2, <1>3, <1>4, <1>5, <1>6 DEF LiveStartNext

\* When nothing is under way no task is to stop a receiver.
LEMMA NobodyStops == ASSUME LiveInv, Quiet PROVE ~ToGo /\ ~Tending /\ ~Waiting
<1>1. \A n \in StartIds : todo[Start(n)] = <<>>
  BY DEF Quiet
<1>2. ~Tending /\ ~Waiting
  BY <1>1, EmptyPlan DEF Tending, Tends, Puts, Waiting, Waits
<1>3. ASSUME NEW t \in Tasks, Has(t, "Gone") PROVE FALSE
  <2>1. Plan(t, todo[t]) /\ todo[t] # <<>>
    BY <1>3, Held, EmptyPlan DEF Has
  <2>2. t[1] \notin {"Rematch", "Display", "Source"}
    BY <1>3, NoneGone
  <2>3. \/ t = Back /\ Head(todo[t]) = "Idle" /\ t[1] = "Back"
        \/ t[1] = "Mpv" /\ Head(todo[t]) = "Hear"
    BY <1>1, <2>1, <2>2, Kinds DEF Quiet, Is
  <2> DEFINE q == Tail(todo[t])
  <2>4. /\ q # <<>> => <<Head(todo[t]), Head(q)>> \in Links[t[1]]
        /\ \A step : Holds(todo[t], step) <=> Head(todo[t]) = step \/ Holds(q, step)
    BY <2>1, PlanTail
  <2> HIDE DEF q
  <2>5. q = <<>>
    BY <2>3, <2>4 DEF Links, Stop
  <2> QED BY <1>3, <2>3, <2>4, <2>5, EmptyPlan DEF Has
<1> QED BY <1>2, <1>3 DEF ToGo

\* No receiver powers the LNB with nobody watching, where Back and failures do
\* not both come: stop_here, "the receiver goes with its player" and "is not
\* kept in standby".
THEOREM ReceiverLeaves == LiveStartSpec => [](Apartness => ReceiverGoesWithPlayer)
<1>1. LiveStartInit => Inv /\ Watching
  BY InitInv, InitWatching
<1>2. Inv /\ Watching /\ [LiveStartNext]_vars => Inv' /\ Watching'
  BY NextInv, NextWatching
<1>3. Inv /\ Watching => (Apartness => ReceiverGoesWithPlayer)
  <2> SUFFICES ASSUME Inv, Watching, Apartness, Quiet, film = None PROVE ~ReceiverUp
    BY DEF ReceiverGoesWithPlayer
  <2>1. ~ToGo /\ ~Tending /\ ~Waiting
    BY InvIsLive, NobodyStops
  <2> QED BY <2>1 DEF Watching, ReceiverWatched, FilmOn
<1> QED BY <1>1, <1>2, <1>3, PTL DEF LiveStartSpec

----------------------------------------------------------------------------
(* The display's match, with the player's numbers each of one film (HereOn).   *)

\* The match of the film that plays is not taken back under it.
LEMMA MatchStaysOn ==
    ASSUME Inv, Watching, [LiveStartNext]_vars, FilmOn, unit # None, content = pnum
    PROVE  content' # None \/ OwnFollowerEnds
<1>1. LiveInv
  BY InvIsLive
<1> USE Held
<1>2. handover = FALSE /\ pnum \in Nat
  <2>1. ~Older
    BY <1>1, LiveStartAssumption DEF Older, HeldOK
  <2> QED BY <1>1, <2>1 DEF HeldOK, LiveInv, LiveParts, HandoverOlder
<1>3. content # None
  BY <1>2, LiveStartAssumption
<1>4. HandoverFailed => content' = content
  BY <1>2 DEF HandoverFailed
<1>5. ASSUME NEW number \in Int, Matched(number) PROVE content' # None
  BY <1>3, <1>5, LiveStartAssumption DEF Matched, matchVars
<1>6. ASSUME NEW n \in StartIds, StartStep(n) PROVE content' = content
  <2>1. ASSUME NEW t, NEW reuse, WarmOrCold(t, reuse) PROVE content' = content
    BY <2>1 DEF WarmOrCold, matchVars
  <2>2. Decide(n) => content' = content
    BY <2>1 DEF Decide, matchVars
  <2>3. Retry(n) => content' = content
    BY <2>1 DEF Retry
  <2>4. Ask(n) \/ Switch(n) => content' = content
    BY <1>4 DEF Ask, Switch, matchVars
  <2>5. \/ CountIn(n) \/ CallOffOlder(n) \/ Lock(n)
        \/ Reload(n) \/ Receiver(n) \/ Up(n) \/ Opened(n) \/ Rate(n) \/ AfterMatch(n)
        \/ Launch(n) \/ Launched(n) \/ Begin(n) \/ Over(n)
        => content' = content
    BY DEF CountIn, CallOffOlder, Lock, Reload, Receiver, Up, Opened, Rate, AfterMatch, Launch,
           Launched, Begin, Over, matchVars
  <2> QED BY <1>6, <2>2, <2>3, <2>4, <2>5 DEF StartStep
<1>7. ASSUME NEW m \in StartIds, FollowStep(m) PROVE content' # None \/ OwnFollowerEnds
  <2>1. CASE Opening(m)
    <3>1. here[m] \in Int
      <4>1. todo[Display(m)] # <<>>
        BY <2>1 DEF Opening, Is
      <4> QED BY <1>1, <1>2, <4>1 DEF FilmsFollowed
    <3> QED BY <1>3, <1>5, <2>1, <3>1 DEF Opening, matchVars
  <2>2. CASE End(m)
    <3>0. Display(m) \in Tasks /\ Is(Display(m), "End") /\ Done(Display(m))
      BY <2>2, TaskNames DEF End
    <3>1. CASE m = film.number
      <4>1. unit # None /\ pnum = here[m]
        BY <3>1 DEF FilmOn
      <4>2. may.fail
        BY <2>2, <4>1 DEF End
      <4>3. Comes(Display(m), "End", {"Display"}, {}, {"Display"}) /\ todo[Display(m)] # <<>>
        BY <1>1, <3>0, DoneTo DEF Is
      <4>4. todo'[Display(m)] = <<>>
        BY <3>0, <4>3 DEF Comes, Is
      <4> QED BY <3>0, <3>1, <4>2, <4>4 DEF OwnFollowerEnds
    <3>2. CASE m # film.number
      <4>1. m <= next
        <5>1. todo[Display(m)] # <<>>
          BY <3>0 DEF Is
        <5> QED BY <1>1, <5>1 DEF FilmsFollowed
      <4>2. here[m] # pnum
        BY <3>2, <4>1 DEF Watching, HereOn
      <4>3. content' = content
        BY <2>2, <4>2 DEF End, ContentEnds
      <4> QED BY <1>3, <4>3
    <3> QED BY <3>1, <3>2
  <2>3. CASE Hear(m) \/ Watch(m)
    BY <1>3, <2>3 DEF Hear, Watch, matchVars
  <2> QED BY <1>7, <2>1, <2>2, <2>3 DEF FollowStep
<1>8. ASSUME NEW t \in Tasks, StopStep(t) PROVE content' # None
  <2>1. CASE Match(t)
    <3>1. own[t] \in Int
      BY <1>1, <1>2, <2>1 DEF Match, MatchOwned, LiveInv, LiveParts
    <3> QED BY <1>5, <2>1, <3>1 DEF Match
  <2>2. CASE StopHere(t)
    BY <1>3, <1>4, <2>2 DEF StopHere
  <2>3. CASE Take(t) \/ Quit(t) \/ Stopping(t) \/ Gone(t) \/ Cleaned(t) \/ Finish(t)
    BY <1>3, <2>3 DEF Take, Quit, Stopping, Gone, Cleaned, Finish, matchVars
  <2> QED BY <1>8, <2>1, <2>2, <2>3 DEF StopStep
<1>9. \/ \E c \in Channels : Choose(c)
      \/ PressBack \/ BackCallsOff \/ ReceiverFollows \/ ReceiverEnds \/ PlayerDies \/ UNCHANGED vars
      => content' = content
  BY DEF Choose, PressBack, BackCallsOff, ReceiverFollows, ReceiverEnds, PlayerDies, vars, matchVars
<1> QED BY <1>3, <1>6, <1>7, <1>8, <1>9 DEF LiveStartNext

\* The match of the film that plays is taken back under it by nobody but its own
\* follower, which has found its player silent: not by the end of the film before,
\* and not by a hand-over that came to nothing.
THEOREM MatchKeptOn == LiveStartSpec => MatchStays
<1>1. LiveStartInit => Inv /\ Watching
  BY InitInv, InitWatching
<1>2. Inv /\ Watching /\ [LiveStartNext]_vars => Inv' /\ Watching'
  BY NextInv, NextWatching
<1>3. Inv /\ Watching /\ [LiveStartNext]_vars
      => [film # None /\ unit # None /\ pnum = here[film.number] /\ content = pnum
          => content' # None \/ OwnFollowerEnds]_vars
  BY MatchStaysOn DEF FilmOn
<1> QED BY <1>1, <1>2, <1>3, PTL DEF LiveStartSpec, MatchStays

----------------------------------------------------------------------------
(* The channel on record and the one the receiver streams.  A start that asks *)
(* the receiver for its channel beside the film that is on leaves the two     *)
(* apart if it is called off; whoever called it off puts that right: Back     *)
(* takes the film, and a later start asks for a channel of its own.  A later  *)
(* start for the channel on record takes it to be on already: nothing is      *)
(* known of a channel that is asked for again after another.                  *)

NoReturn ==
    \A a, b, c \in StartIds : a < b /\ b < c /\ c <= begun /\ svc[a] = svc[c] => svc[b] = svc[a]

\* What the receiver streams, or is told to, and to which FIFO.
Streams(service) == /\ select # None => select.service = service
                    /\ select = None /\ receiver # None => receiver.service = service
StreamsTo == /\ select # None => select.fifo = fifo
             /\ select = None /\ receiver # None => receiver.fifo = fifo

StreamsOn == \A service \in Channels \cup {None} : Streams(service) => Streams(service)'

\* A start that has asked for its channel, beside the film that is on or not.
Changes(n) == Is(Start(n), "Switch") \/ Is(Start(n), "Reload")
Tuning(n)  == Changes(n) \/ Is(Start(n), "HandSwitch") \/ Is(Start(n), "Up") \/ Uses(n)
Plays(n)   == Is(Start(n), "Launched") \/ Is(Start(n), "Begin")
Fed        == unit \in {fifo, None}
Tuned == \A n \in StartIds : /\ Tuning(n) => Streams(svc[n])
                             /\ Plays(n) => Fed
Changing == \A n \in StartIds : Changes(n) =>
    svc[n] # shown /\ (film # None => own[Start(n)] = film.number)

\* The channel on record is of a start no later than the one that decides.
Decides(n) == Locked(n) /\ ~Is(Start(n), "Over")
Shown == shown # None => \E j \in StartIds :
    /\ j <= begun /\ j - 1 <= calledOff /\ svc[j] = shown
    /\ \A n \in StartIds : Decides(n) => j <= n

\* The receiver's follower watches over the film that is on.
Sourced == FilmOn => Is(Source(film.number), "Watch")

\* What is on record is what plays, or a start puts it right or takes it off,
\* or one for another channel is to come, or Back.
InStep == Streams(shown) /\ Fed
Putting(n) == Changes(n) \/ Is(Start(n), "Retry") \/ Is(Start(n), "StopHere")
Replaces(n) == /\ n > calledOff /\ svc[n] # shown
               /\ todo[Start(n)] # <<>> /\ Head(todo[Start(n)]) \in EarlySteps \cup {"Decide"}
Mended   == Is(Back, "StopHere") \/ \E n \in StartIds : Putting(n) \/ Replaces(n)
Followed == FilmOn /\ ReceiverUp => InStep \/ Mended

Tracking == StreamsTo /\ Tuned /\ Changing /\ Shown /\ Sourced /\ (NoReturn => Followed)

----------------------------------------------------------------------------
(* What keeps it.                                                             *)

\* The film that is on after a step was on before it.
LEMMA StillOn ==
    ASSUME LiveInv, UNCHANGED <<next, here>>, SameFilm, pnum' \in Nat, pnum' >= pnum
    PROVE  FilmOn' => /\ FilmOn /\ pnum' = pnum /\ film' # None /\ film # None
                      /\ film'.number = film.number /\ film.number \in StartIds
<1> SUFFICES ASSUME FilmOn'
             PROVE  /\ FilmOn /\ pnum' = pnum /\ film' # None /\ film # None
                    /\ film'.number = film.number /\ film.number \in StartIds
  OBVIOUS
<1>1. film' # None /\ film # None /\ film'.number = film.number /\ pnum' = here[film.number]
  BY DEF FilmOn, SameFilm
<1>2. here[film.number] \in 0..pnum /\ film.number \in StartIds /\ pnum \in Nat
  BY <1>1, Held
<1> QED BY <1>1, <1>2 DEF FilmOn

\* A receiver that goes streams nothing else.
LEMMA StreamsKept ==
    ASSUME StreamsTo, UNCHANGED <<select, fifo>>, receiver' \in {receiver, None}
    PROVE  StreamsTo' /\ StreamsOn
  BY DEF StreamsTo, StreamsOn, Streams

\* A start that has no part in it.
LEMMA AsideTracks ==
    ASSUME NEW n \in StartIds, Aside(todo[Start(n)])
    PROVE  ~Tuning(n) /\ ~Plays(n) /\ ~Changes(n) /\ ~Putting(n)
  BY DEF Aside, Tuning, Plays, Changes, Putting, Uses, Is, EarlySteps

\* A step of a task that is no start.
LEMMA BesideTracks ==
    ASSUME LiveInv, Tracking, NEW t \in Tasks, t[1] # "Start", Still(t),
           UNCHANGED <<begun, calledOff, svc, shown, next, here, fifo>>, SameFilm,
           pnum' \in Nat, pnum' >= pnum, unit' \in {unit, None},
           \A n \in StartIds : own'[Start(n)] = own[Start(n)],
           StreamsTo', StreamsOn, ReceiverUp' => ReceiverUp,
           FilmOn' /\ todo'[t] # todo[t] =>
               t # Source(film.number) /\ ~(t = Back /\ Is(Back, "StopHere"))
    PROVE  Tracking'
<1>1. \A n \in StartIds : todo'[Start(n)] = todo[Start(n)]
  BY TaskNames DEF Still
<1>2. \A n \in StartIds : /\ Tuning(n)' <=> Tuning(n)
                          /\ Plays(n)' <=> Plays(n)
                          /\ Changes(n)' <=> Changes(n)
                          /\ Decides(n)' <=> Decides(n)
                          /\ Putting(n)' <=> Putting(n)
                          /\ Replaces(n)' <=> Replaces(n)
  BY <1>1 DEF Tuning, Plays, Changes, Decides, Locked, Putting, Replaces, Uses, Is
<1>3. /\ Fed => Fed'
      /\ Streams(shown) => Streams(shown)'
      /\ \A n \in StartIds : Streams(svc[n]) => Streams(svc[n])'
  <2>1. shown \in Channels \cup {None} /\ \A n \in StartIds : svc[n] \in Channels \cup {None}
    BY Held DEF HeldOK, PlansOK
  <2>2. shown' = shown /\ svc' = svc
    OBVIOUS
  <2> QED BY <2>1, <2>2 DEF Fed, StreamsOn
<1>4. Tuned'
  BY <1>2, <1>3 DEF Tracking, Tuned
<1>5. Changing'
  BY <1>2 DEF Tracking, Changing, SameFilm
<1>6. Shown'
  BY <1>2 DEF Tracking, Shown
<1>7. FilmOn' => /\ FilmOn /\ film'.number = film.number /\ film.number \in StartIds
  BY StillOn
<1>8. Sourced'
  <2> SUFFICES ASSUME FilmOn' PROVE Is(Source(film.number), "Watch")'
    BY DEF Sourced
  <2>1. todo'[Source(film.number)] = todo[Source(film.number)]
    BY <1>7, TaskNames DEF Still
  <2> QED BY <1>7, <2>1 DEF Tracking, Sourced, Is
<1>9. NoReturn' => Followed'
  <2> SUFFICES ASSUME NoReturn', FilmOn', ReceiverUp' PROVE InStep' \/ Mended'
    BY DEF Followed
  <2>1. InStep \/ Mended
    BY <1>7 DEF Tracking, Followed, NoReturn
  <2>2. InStep => InStep'
    BY <1>3 DEF InStep
  <2>3. Is(Back, "StopHere") => Is(Back, "StopHere")'
    BY TaskNames DEF Still, Is
  <2> QED BY <1>2, <2>1, <2>2, <2>3 DEF Mended
<1> QED BY <1>4, <1>5, <1>6, <1>8, <1>9 DEF Tracking

\* A step of the start that has the lock.
LEMMA HolderTracks ==
    ASSUME LiveInv, Tracking, NEW n \in StartIds, Decides(n), Still(Start(n)),
           UNCHANGED <<begun, calledOff, svc, next, here>>, SameFilm, pnum' \in Nat, pnum' >= pnum,
           shown' \in {shown, svc[n]}, StreamsTo',
           Tuning(n)' => Streams(svc[n])', Plays(n)' => Fed',
           Changes(n)' => svc[n] # shown' /\ (film' # None => own'[Start(n)] = film'.number),
           NoReturn /\ FilmOn' /\ ReceiverUp' => InStep' \/ Mended'
    PROVE  Tracking'
<1>1. Locked(n)
  BY DEF Decides
<1>2. ASSUME NEW k \in StartIds, k # n
      PROVE  /\ Aside(todo[Start(k)]) /\ ~Locked(k)
             /\ todo'[Start(k)] = todo[Start(k)] /\ Aside(todo'[Start(k)])
  <2>1. Aside(todo[Start(k)]) /\ ~Locked(k)
    BY <1>1, <1>2, OthersAside
  <2>2. todo'[Start(k)] = todo[Start(k)]
    BY <1>2, TaskNames, TasksDiffer DEF Still
  <2> QED BY <2>1, <2>2
<1>3. ASSUME NEW k \in StartIds, k # n
      PROVE  ~Tuning(k)' /\ ~Plays(k)' /\ ~Changes(k)' /\ ~Decides(k)'
  <2>1. Aside(todo'[Start(k)]) /\ ~Decides(k)'
    BY <1>2, <1>3 DEF Decides, Locked
  <2> QED BY <2>1 DEF Aside, Tuning, Plays, Changes, Uses, Is, EarlySteps
<1>4. Tuned'
  BY <1>3 DEF Tuned
<1>5. Changing'
  BY <1>3 DEF Changing
<1>6. Shown'
  <2> SUFFICES ASSUME shown' # None
               PROVE  \E j \in StartIds : /\ j <= begun /\ j - 1 <= calledOff /\ svc[j] = shown'
                                          /\ \A k \in StartIds : Decides(k)' => j <= k
    BY DEF Shown
  <2>1. CASE shown' = shown
    <3>1. PICK j \in StartIds : /\ j <= begun /\ j - 1 <= calledOff /\ svc[j] = shown
                                /\ \A k \in StartIds : Decides(k) => j <= k
      BY <2>1 DEF Tracking, Shown
    <3> QED BY <1>3, <2>1, <3>1
  <2>2. CASE shown' = svc[n]
    <3>1. n <= begun /\ n - 1 <= calledOff /\ n <= n
      BY <1>1, Held DEF Linked, Locked, Early, StartIds
    <3> QED BY <1>3, <2>2, <3>1
  <2> QED BY <2>1, <2>2
<1>7. Sourced'
  <2> SUFFICES ASSUME FilmOn' PROVE Is(Source(film.number), "Watch")'
    BY DEF Sourced
  <2>1. /\ FilmOn /\ film'.number = film.number /\ film.number \in StartIds
    BY StillOn
  <2>2. todo'[Source(film.number)] = todo[Source(film.number)]
    BY <2>1, TaskNames, TasksDiffer DEF Still
  <2> QED BY <2>1, <2>2 DEF Tracking, Sourced, Is
<1>8. NoReturn' => Followed'
  BY DEF Followed, NoReturn
<1> QED BY <1>4, <1>5, <1>6, <1>7, <1>8 DEF Tracking

----------------------------------------------------------------------------
(* The steps of a start that has put away what was on.                        *)

\* What the plan of such a start may turn to.
LEMMA AwayTracks ==
    ASSUME LiveInv, Watching, Tracking, NEW n \in StartIds, Decides(n), Still(Start(n)),
           Clears(n), ~Is(Start(n), "StopHere"),
           UNCHANGED <<begun, calledOff, svc, shown, next, here, select, fifo>>,
           receiver' \in {receiver, None}, SameFilm, pnum' \in Nat, pnum' >= pnum,
           Tuning(n)' => Tuning(n), ~Changes(n)',
           Plays(n)' => unit' = fifo \/ (Plays(n) /\ unit' = unit)
    PROVE  Tracking'
<1>1. ~FilmOn'
  BY AwayOff, StillOn
<1>2. StreamsTo' /\ StreamsOn
  BY StreamsKept DEF Tracking
<1>3. Tuning(n)' => Streams(svc[n])'
  <2>1. Tuning(n) => Streams(svc[n])
    BY DEF Tracking, Tuned
  <2>2. svc[n] \in Channels \cup {None}
    BY Held DEF PlansOK
  <2>3. Tuning(n)' => Streams(svc[n])' \/ ~StreamsOn
    BY <2>1, <2>2 DEF StreamsOn
  <2> QED BY <1>2, <2>3
<1>4. Plays(n)' => Fed'
  BY DEF Tracking, Tuned, Fed
<1> QED BY <1>1, <1>2, <1>3, <1>4, HolderTracks

LEMMA AwayGoesOn ==
    ASSUME LiveInv, Watching, Tracking, NEW n \in StartIds, Clears(n),
           todo[Start(n)] # <<>>, Done(Start(n)),
           Head(todo[Start(n)]) \notin EarlySteps \cup Ends["Start"] \cup
                                       {"StopHere", "Switch", "Ask", "Receiver"},
           UNCHANGED <<begun, calledOff, svc, shown, next, here, select, fifo>>,
           receiver' \in {receiver, None}, SameFilm, pnum' \in Nat, pnum' >= pnum,
           Is(Start(n), "Launch") => unit' = fifo, Is(Start(n), "Launched") => unit' = unit
    PROVE  Tracking'
<1> DEFINE t == Start(n)
<1>1. /\ Locked(n) /\ ~Is(t, "Over") /\ Still(t) /\ todo'[t] # <<>>
      /\ <<Head(todo[t]), Head(todo'[t])>> \in Links["Start"]
      /\ \A steps : EndsIn(todo[t], steps) <=> EndsIn(todo'[t], steps)
  BY StartDone
<1>2. /\ Head(todo'[t]) \notin {"Switch", "Reload", "HandSwitch", "Up"}
      /\ Head(todo'[t]) = "Opened" => Head(todo[t]) \in {"HandSwitch", "Up"}
      /\ Head(todo'[t]) = "Rate" => Head(todo[t]) = "Opened"
      /\ Head(todo'[t]) = "Match" => Head(todo[t]) = "Rate"
      /\ Head(todo'[t]) = "Matched" => Head(todo[t]) = "Match"
      /\ Head(todo'[t]) = "Launched" => Head(todo[t]) = "Launch"
      /\ Head(todo'[t]) = "Begin" => Head(todo[t]) = "Launched"
  BY <1>1 DEF Links, Stop, Ends
<1>3. ~Changes(n)' /\ (Tuning(n)' => Tuning(n))
  BY <1>1, <1>2 DEF Tuning, Changes, Uses, Is
<1>4. Plays(n)' => unit' = fifo \/ (Plays(n) /\ unit' = unit)
  BY <1>1, <1>2 DEF Plays, Is
<1>5. Decides(n) /\ ~Is(t, "StopHere")
  BY <1>1 DEF Decides, Is
<1> QED BY <1>1, <1>3, <1>4, <1>5, AwayTracks

LEMMA AwayTurns ==
    ASSUME LiveInv, Watching, Tracking, NEW n \in StartIds, Clears(n),
           todo[Start(n)] # <<>>, Head(todo[Start(n)]) \notin EarlySteps \cup {"StopHere", "Over"},
           Moves(Start(n)), todo'[Start(n)] # <<>>,
           Head(todo'[Start(n)]) \in {"StopHere", "Take", "Stopping", "Finish", "Receiver", "Over"},
           Begins(todo'[Start(n)]) => Uses(n),
           UNCHANGED <<begun, calledOff, svc, shown, next, here, select, fifo>>,
           receiver' \in {receiver, None}, SameFilm, pnum' \in Nat, pnum' >= pnum
    PROVE  Tracking'
<1>1. Decides(n) /\ ~Is(Start(n), "StopHere")
  BY DEF Decides, Locked, Is, EarlySteps
<1>2. Still(Start(n))
  BY TaskNames, MovesStill
<1>3. ~Changes(n)' /\ (Tuning(n)' => Tuning(n)) /\ ~Plays(n)'
  BY DEF Tuning, Changes, Plays, Uses, Is, Begins
<1> QED BY <1>1, <1>2, <1>3, AwayTracks

LEMMA TakeTracks == ASSUME LiveInv, Watching, Tracking, NEW n \in StartIds, Take(Start(n)) PROVE Tracking'
<1>1. /\ todo[Start(n)] # <<>> /\ Head(todo[Start(n)]) = "Take" /\ Done(Start(n)) /\ pnum' = pnum + 1
      /\ UNCHANGED <<begun, calledOff, svc, shown, next, here, select, fifo, receiver, film>>
  BY DEF Take, Is, LetsGo, startVars, playVars, given, tunerVars
<1>2. Clears(n) /\ pnum' \in Nat /\ pnum' >= pnum /\ SameFilm
  BY <1>1, Held DEF Clears, Away, SameFilm
<1> QED BY <1>1, <1>2, AwayGoesOn DEF EarlySteps, Ends, Is

LEMMA QuitTracks == ASSUME LiveInv, Watching, Tracking, NEW n \in StartIds, Quit(Start(n)) PROVE Tracking'
<1>1. /\ todo[Start(n)] # <<>> /\ Head(todo[Start(n)]) = "Quit" /\ Done(Start(n))
      /\ UNCHANGED <<begun, calledOff, svc, shown, next, here, select, fifo, receiver, film, pnum>>
  BY DEF Quit, Is, startVars, playVars, given, tunerVars
<1>2. Clears(n) /\ pnum \in Nat /\ SameFilm
  BY <1>1, Held DEF Clears, Away, SameFilm
<1> QED BY <1>1, <1>2, AwayGoesOn DEF EarlySteps, Ends, Is

LEMMA FinishTracks ==
    ASSUME LiveInv, Watching, Tracking, NEW n \in StartIds, Finish(Start(n)) PROVE Tracking'
<1> DEFINE t == Start(n)
<1>1. /\ todo[t] # <<>> /\ Head(todo[t]) = "Finish" /\ Done(t)
      /\ UNCHANGED <<begun, calledOff, svc, shown, here, select, fifo, receiver, pnum>>
      /\ IF P!Playing(own[t]) THEN P!Finish(own[t], "Gone") ELSE UNCHANGED playVars
  BY DEF Finish, Is, startVars, playerVars, given, tunerVars
<1>2. Clears(n) /\ pnum \in Nat
  BY <1>1, Held DEF Clears, Away
<1>3. film' = None /\ next' = next
  <2>1. film # None => own[t] = film.number
    BY <1>1, <1>2, AwayOff DEF Is
  <2> QED BY <1>1, <2>1 DEF P!Playing, P!Finish, playVars
<1> QED BY <1>1, <1>2, <1>3, AwayGoesOn DEF EarlySteps, Ends, Is, SameFilm

LEMMA StoppingTracks ==
    ASSUME LiveInv, Watching, Tracking, NEW n \in StartIds, Stopping(Start(n)) PROVE Tracking'
<1> DEFINE t == Start(n)
<1>1. /\ todo[t] # <<>> /\ Head(todo[t]) = "Stopping"
      /\ UNCHANGED <<begun, calledOff, svc, shown, next, here, select, fifo, receiver, film, pnum>>
      /\ Goes(t, SubSeq(todo[t], 4, Len(todo[t]))) \/ Done(t)
  BY DEF Stopping, Is, startVars, playVars, playerVars, given
<1>2. Clears(n) /\ pnum \in Nat /\ SameFilm
  BY <1>1, Held DEF Clears, Away, SameFilm
<1>3. CASE Done(t)
  BY <1>1, <1>2, <1>3, AwayGoesOn DEF EarlySteps, Ends, Is
<1>4. CASE Goes(t, SubSeq(todo[t], 4, Len(todo[t])))
  <2> DEFINE r == Skipped(todo[t])
  <2>1. Plan(t, todo[t]) /\ t \in Tasks /\ t[1] = "Start" /\ PlansOK
    BY TaskNames DEF LiveInv, LiveParts, PlansOK
  <2>2. /\ Plan(t, r)
        /\ \A step : Holds(todo[t], step) <=> step \in {"Stopping", "Gone", "Cleaned"} \/ Holds(r, step)
        /\ \A steps : r # <<>> => (EndsIn(todo[t], steps) <=> EndsIn(r, steps))
        /\ r # <<>> => <<"Cleaned", Head(r)>> \in Links["Start"]
        /\ r = <<>> => "Cleaned" \in Ends["Start"]
    BY <1>1, <2>1, SkipMade
  <2>3. Moves(t) /\ todo'[t] = r
    BY <1>4, <2>1, <2>2, GoesMoves DEF Skipped
  <2> HIDE DEF r
  <2>4. /\ todo'[t] # <<>> /\ Head(todo'[t]) \in {"Finish", "Receiver", "Over"}
        /\ Has(t, "Gone") /\ \A steps : EndsIn(todo[t], steps) <=> EndsIn(todo'[t], steps)
    BY <2>2, <2>3 DEF Ends, Links, Stop, Has
  <2>5. ~Begins(todo'[t])
    BY <2>4 DEF Watching, Straight, Begins
  <2> QED BY <1>1, <1>2, <2>3, <2>4, <2>5, AwayTurns DEF EarlySteps
<1> QED BY <1>1, <1>3, <1>4

LEMMA GoneTracks == ASSUME LiveInv, Watching, Tracking, NEW n \in StartIds, Gone(Start(n)) PROVE Tracking'
<1>1. /\ todo[Start(n)] # <<>> /\ Head(todo[Start(n)]) = "Gone" /\ Done(Start(n)) /\ receiver' = None
      /\ UNCHANGED <<begun, calledOff, svc, shown, next, here, select, fifo, film, pnum>>
  BY DEF Gone, Is, startVars, playVars, playerVars, given
<1>2. Clears(n) /\ pnum \in Nat /\ SameFilm
  BY <1>1, Held DEF Clears, Away, SameFilm
<1> QED BY <1>1, <1>2, AwayGoesOn DEF EarlySteps, Ends, Is

LEMMA CleanedTracks ==
    ASSUME LiveInv, Watching, Tracking, NEW n \in StartIds, Cleaned(Start(n)) PROVE Tracking'
<1>1. /\ todo[Start(n)] # <<>> /\ Head(todo[Start(n)]) = "Cleaned" /\ Done(Start(n))
      /\ UNCHANGED <<begun, calledOff, svc, shown, next, here, select, fifo, receiver, film, pnum>>
  BY DEF Cleaned, Is, startVars, playVars, playerVars, given
<1>2. Clears(n) /\ pnum \in Nat /\ SameFilm
  BY <1>1, Held DEF Clears, Away, SameFilm
<1> QED BY <1>1, <1>2, AwayGoesOn DEF EarlySteps, Ends, Is

\* A start on its way to show its channel has put away what was on.
LEMMA PutsClears ==
    ASSUME LiveInv, NEW n \in StartIds, todo[Start(n)] # <<>>,
           Head(todo[Start(n)]) \in {"Ask", "HandSwitch", "Receiver", "Up", "Opened", "Rate", "Match",
                                     "Matched", "Launch", "Launched", "Begin"}
    PROVE  /\ Clears(n) /\ pnum \in Nat /\ PlansOK
           /\ Begins(todo[Start(n)]) => Uses(n)
<1>1. \A ends : EndsIn(todo[Start(n)], ends) <=> Last[Head(todo[Start(n)])] \in ends
  BY StartHolds DEF Left
<1> QED BY <1>1, Held DEF Clears, Puts, Last, Begins, Uses

LEMMA MatchTracks == ASSUME LiveInv, Watching, Tracking, NEW n \in StartIds, Match(Start(n)) PROVE Tracking'
<1>1. /\ todo[Start(n)] # <<>> /\ Head(todo[Start(n)]) = "Match" /\ Done(Start(n))
      /\ UNCHANGED <<begun, calledOff, svc, shown, next, here, select, fifo, receiver, film, pnum>>
  BY DEF Match, Is, startVars, playVars, playerVars, tunerVars, given
<1> QED BY <1>1, PutsClears, AwayGoesOn DEF EarlySteps, Ends, Is, SameFilm

LEMMA UpTracks == ASSUME LiveInv, Watching, Tracking, NEW n \in StartIds, Up(n) PROVE Tracking'
<1>1. /\ todo[Start(n)] # <<>> /\ Head(todo[Start(n)]) = "Up"
      /\ UNCHANGED <<begun, calledOff, svc, shown, next, here, select, fifo, receiver, film, pnum>>
      /\ Done(Start(n)) \/ Goes(Start(n), <<"Over">>) \/ GiveUp(n)
  BY DEF Up, Is, startVars, playVars, playerVars, given
<1>2. CASE Done(Start(n))
  BY <1>1, <1>2, PutsClears, AwayGoesOn DEF EarlySteps, Ends, Is, SameFilm
<1>3. CASE Goes(Start(n), <<"Over">>) \/ GiveUp(n)
  <2>1. /\ Moves(Start(n)) /\ todo'[Start(n)] # <<>> /\ Head(todo'[Start(n)]) \in {"Over", "Stopping"}
        /\ ~Begins(todo'[Start(n)])
    BY <1>1, <1>3, PutsClears, IsOver, GivesUp
  <2> QED BY <1>1, <2>1, PutsClears, AwayTurns DEF EarlySteps, SameFilm
<1> QED BY <1>1, <1>2, <1>3

LEMMA OpenedTracks == ASSUME LiveInv, Watching, Tracking, NEW n \in StartIds, Opened(n) PROVE Tracking'
<1>1. /\ todo[Start(n)] # <<>> /\ Head(todo[Start(n)]) = "Opened"
      /\ UNCHANGED <<begun, calledOff, svc, shown, next, here, select, fifo, receiver, film, pnum>>
      /\ Done(Start(n)) \/ GiveUp(n)
  BY DEF Opened, Is, startVars, playVars, playerVars, tunerVars, given
<1>2. CASE Done(Start(n))
  BY <1>1, <1>2, PutsClears, AwayGoesOn DEF EarlySteps, Ends, Is, SameFilm
<1>3. CASE GiveUp(n)
  BY <1>1, <1>3, PutsClears, GivesUp, AwayTurns DEF EarlySteps, SameFilm
<1> QED BY <1>1, <1>2, <1>3

LEMMA RateTracks == ASSUME LiveInv, Watching, Tracking, NEW n \in StartIds, Rate(n) PROVE Tracking'
<1>1. /\ todo[Start(n)] # <<>> /\ Head(todo[Start(n)]) = "Rate" /\ Done(Start(n))
      /\ UNCHANGED <<begun, calledOff, svc, shown, next, here, select, fifo, receiver, film, pnum>>
  BY DEF Rate, Is, startVars, playVars, playerVars, tunerVars, given
<1> QED BY <1>1, PutsClears, AwayGoesOn DEF EarlySteps, Ends, Is, SameFilm

LEMMA AfterMatchTracks ==
    ASSUME LiveInv, Watching, Tracking, NEW n \in StartIds, AfterMatch(n) PROVE Tracking'
<1>1. /\ todo[Start(n)] # <<>> /\ Head(todo[Start(n)]) = "Matched" /\ (GiveUp(n) \/ Goes(Start(n), LaunchPlan))
      /\ UNCHANGED <<begun, calledOff, svc, shown, next, here, select, fifo, receiver, film, pnum>>
  BY DEF AfterMatch, LaunchPlan, Is, startVars, playVars, playerVars, tunerVars, given
<1>2. CASE GiveUp(n)
  BY <1>1, <1>2, PutsClears, GivesUp, AwayTurns DEF EarlySteps, SameFilm
<1>3. CASE Goes(Start(n), LaunchPlan)
  <2>1. Start(n) \in Tasks /\ Start(n)[1] = "Start" /\ PlansOK
    BY TaskNames, Held
  <2>2. Made(Start(n), LaunchPlan, "Take", {"Take", "Quit", "Launch", "Launched", "Begin"}, "Begin")
    BY <2>1, LaunchMade
  <2>3. /\ Moves(Start(n)) /\ todo'[Start(n)] # <<>> /\ Head(todo'[Start(n)]) = "Take" /\ Uses(n)
    BY <1>1, <1>3, <2>1, <2>2, GoesMoves DEF Made, Uses, Is
  <2> QED BY <1>1, <2>3, PutsClears, AwayTurns DEF EarlySteps, SameFilm
<1> QED BY <1>1, <1>2, <1>3

LEMMA LaunchTracks == ASSUME LiveInv, Watching, Tracking, NEW n \in StartIds, Launch(n) PROVE Tracking'
<1>1. /\ todo[Start(n)] # <<>> /\ Head(todo[Start(n)]) = "Launch" /\ pnum' = pnum + 1
      /\ UNCHANGED <<begun, calledOff, svc, shown, next, here, select, fifo, receiver, film>>
      /\ (unit' = fifo /\ Done(Start(n))) \/ GiveUp(n)
  BY DEF Launch, Is, startVars, playVars, tunerVars, given
<1>2. CASE unit' = fifo /\ Done(Start(n))
  BY <1>1, <1>2, PutsClears, AwayGoesOn DEF EarlySteps, Ends, Is, SameFilm
<1>3. CASE GiveUp(n)
  BY <1>1, <1>3, PutsClears, GivesUp, AwayTurns DEF EarlySteps, SameFilm
<1> QED BY <1>1, <1>2, <1>3

LEMMA LaunchedTracks ==
    ASSUME LiveInv, Watching, Tracking, NEW n \in StartIds, Launched(n) PROVE Tracking'
<1>1. /\ todo[Start(n)] # <<>> /\ Head(todo[Start(n)]) = "Launched" /\ Done(Start(n))
      /\ UNCHANGED <<begun, calledOff, svc, shown, next, here, select, fifo, receiver, film, pnum, unit>>
  BY DEF Launched, Is, startVars, playVars, tunerVars, given
<1> QED BY <1>1, PutsClears, AwayGoesOn DEF EarlySteps, Ends, Is, SameFilm

LEMMA UndoTracks ==
    ASSUME LiveInv, Watching, Tracking, NEW n \in StartIds, todo[Start(n)] # <<>>,
           Head(todo[Start(n)]) = "Begin", Goes(Start(n), UndoPlan),
           UNCHANGED <<begun, calledOff, svc, shown, next, here, select, fifo, receiver, film, pnum>>
    PROVE  Tracking'
<1>1. Start(n) \in Tasks /\ Start(n)[1] = "Start" /\ PlansOK
  BY TaskNames, Held
<1>2. Made(Start(n), UndoPlan, "Take", {"Take", "Quit", "Stopping", "Gone", "Cleaned", "Over"}, "Over")
  BY <1>1, UndoMade
<1>3. /\ Moves(Start(n)) /\ todo'[Start(n)] # <<>> /\ Head(todo'[Start(n)]) = "Take"
      /\ ~Begins(todo'[Start(n)])
  BY <1>1, <1>2, GoesMoves DEF Made, Begins
<1> QED BY <1>3, PutsClears, AwayTurns DEF EarlySteps, SameFilm

----------------------------------------------------------------------------
(* The steps of a start that turns to another plan.                           *)

\* It puts what was on away, or is to start anew.
LEMMA PutsRight ==
    ASSUME LiveInv, Tracking, NEW n \in StartIds, Decides(n), Moves(Start(n)),
           todo'[Start(n)] # <<>>, ~Begins(todo'[Start(n)]),
           \/ Head(todo'[Start(n)]) = "Quit" /\ pnum' > pnum
           \/ Head(todo'[Start(n)]) \in {"StopHere", "Retry"},
           UNCHANGED <<begun, calledOff, svc, shown, next, here, select, fifo, receiver>>,
           SameFilm, pnum' \in Nat, pnum' >= pnum
    PROVE  Tracking'
<1>1. Still(Start(n))
  BY TaskNames, MovesStill
<1>2. ~Tuning(n)' /\ ~Plays(n)' /\ ~Changes(n)'
  BY DEF Tuning, Changes, Plays, Uses, Is, Begins
<1>3. FilmOn' => Mended'
  <2>1. CASE Head(todo'[Start(n)]) = "Quit" /\ pnum' > pnum
    <3>1. FilmOn' => pnum' = pnum
      BY StillOn
    <3> QED BY <2>1, <3>1, Held
  <2>2. CASE Head(todo'[Start(n)]) \in {"StopHere", "Retry"}
    <3>1. Putting(n)'
      BY <2>2 DEF Putting, Is
    <3> QED BY <3>1 DEF Mended
  <2> QED BY <2>1, <2>2
<1>4. StreamsTo'
  BY StreamsKept DEF Tracking
<1> QED BY <1>1, <1>2, <1>3, <1>4, HolderTracks

\* What the stop of what is on comes before.
LEMMA StopHereLeft ==
    ASSUME LiveInv, NEW n \in StartIds, Is(Start(n), "StopHere")
    PROVE  /\ \A step : Has(Start(n), step) <=> step = "StopHere" \/ Holds(Tail(todo[Start(n)]), step)
           /\ Holds(Tail(todo[Start(n)]), "Gone")
<1> DEFINE t == Start(n)
           q == Tail(todo[t])
<1>0. t \in Tasks /\ t[1] = "Start" /\ Plan(t, todo[t]) /\ todo[t] # <<>> /\ Head(todo[t]) = "StopHere"
  BY TaskNames, Held DEF PlansOK, Is
<1>1. /\ Plan(t, q) /\ \A step : Has(t, step) <=> Head(todo[t]) = step \/ Holds(q, step)
      /\ q = <<>> => Head(todo[t]) \in Ends["Start"]
      /\ q # <<>> => <<Head(todo[t]), Head(q)>> \in Links["Start"]
  BY <1>0, PlanTail DEF Has
<1> HIDE DEF q
<1>2. q # <<>> /\ Head(q) = "Stopping"
  BY <1>0, <1>1 DEF Ends, Links, Stop
<1> DEFINE r == Tail(q)
<1>3. /\ \A step : Holds(q, step) <=> Head(q) = step \/ Holds(r, step)
      /\ Plan(t, r)
      /\ r = <<>> => Head(q) \in Ends["Start"]
      /\ r # <<>> => <<Head(q), Head(r)>> \in Links["Start"]
  BY <1>0, <1>1, <1>2, PlanTail
<1> HIDE DEF r
<1>4. r # <<>> /\ Head(r) = "Gone"
  BY <1>2, <1>3 DEF Ends, Links, Stop
<1>5. Holds(r, "Gone")
  BY <1>0, <1>3, <1>4, PlanTail
<1> QED BY <1>0, <1>1, <1>3, <1>5 DEF q

LEMMA StopHereTracks ==
    ASSUME LiveInv, Watching, Tracking, NEW n \in StartIds, StopHere(Start(n)) PROVE Tracking'
<1> DEFINE t == Start(n)
           receives == LiveOn \/ playing # None
           p == StopHerePlan(receives, Tail(todo[t]))
<1>1. /\ todo[t] # <<>> /\ Head(todo[t]) = "StopHere" /\ Intended(t) /\ pnum' = pnum + 1
      /\ Goes(t, StopHerePlan(receives, Tail(todo[t])))
      /\ UNCHANGED <<begun, calledOff, svc, shown, here, select, fifo, receiver>>
  BY DEF StopHere, Is, LetsGo, StopHerePlan, Rest, startVars, tunerVars, given
<1>2. t \in Tasks /\ t[1] = "Start" /\ PlansOK /\ Plan(t, todo[t]) /\ pnum \in Nat
  BY TaskNames, Held DEF PlansOK
<1>3. SameFilm /\ next' = next
  BY <1>1, IntendedSame
<1>4. /\ Plan(t, p) /\ p # <<>> /\ Head(p) = "Quit"
      /\ \A steps : EndsIn(p, steps) <=> EndsIn(todo[t], steps)
  <2> receives \in BOOLEAN
    OBVIOUS
  <2> HIDE DEF receives
  <2> QED BY <1>1, <1>2, StopHereMade
<1> HIDE DEF p
<1>5. Moves(t) /\ todo'[t] = p
  BY <1>1, <1>2, <1>4, GoesMoves DEF p
<1>6. Has(t, "Gone")
  BY <1>1, StopHereLeft DEF Is
<1>7. ~Begins(todo'[t])
  BY <1>4, <1>5, <1>6 DEF Watching, Straight, Begins
<1>8. Decides(n)
  BY <1>1 DEF Decides, Locked, Is
<1> QED BY <1>1, <1>2, <1>3, <1>4, <1>5, <1>7, <1>8, PutsRight

LEMMA WarmOrColdTracks ==
    ASSUME LiveInv, Tracking, NEW n \in StartIds, Decides(n), NEW reuse \in BOOLEAN,
           WarmOrCold(Start(n), reuse),
           UNCHANGED <<startVars, shown, change, unit, tunerVars, given, here>>
    PROVE  Tracking'
<1> DEFINE t == Start(n)
<1>0. /\ t \in Tasks /\ t[1] = "Start" /\ PlansOK /\ pnum \in Nat
      /\ UNCHANGED <<begun, calledOff, svc, select, fifo, receiver>>
  BY TaskNames, Held DEF startVars, given, tunerVars
<1>1. CASE ~reuse
  <2>1. Goes(t, ColdStart) /\ next' = next /\ SameFilm /\ pnum' = pnum
    BY <1>1 DEF WarmOrCold, playVars, SameFilm
  <2>2. /\ Moves(t) /\ todo'[t] # <<>> /\ Head(todo'[t]) = "StopHere" /\ ~Begins(todo'[t])
    BY <1>0, <2>1, IsCold
  <2> QED BY <1>0, <2>1, <2>2, PutsRight
<1>2. CASE reuse
  <2>1. pnum' = pnum + 1 /\ Goes(t, WarmPlan) /\ Intended(t)
    BY <1>2 DEF WarmOrCold, LetsGo, WarmPlan
  <2>2. Made(t, WarmPlan, "Quit", {"Quit", "Finish", "Ask", "HandSwitch", "Opened", "Rate",
                                   "Match", "Matched"}, "Matched")
    BY <1>0, WarmMade
  <2>3. Moves(t) /\ todo'[t] # <<>> /\ Head(todo'[t]) = "Quit" /\ ~Begins(todo'[t])
    BY <1>0, <2>1, <2>2, GoesMoves DEF Made, Begins
  <2>4. SameFilm /\ next' = next
    BY <2>1, IntendedSame
  <2> QED BY <1>0, <2>1, <2>3, <2>4, PutsRight
<1> QED BY <1>1, <1>2

LEMMA RetryTracks == ASSUME LiveInv, Tracking, NEW n \in StartIds, Retry(n) PROVE Tracking'
<1>1. /\ Is(Start(n), "Retry")
      /\ UNCHANGED <<startVars, shown, change, unit, tunerVars, given, here>>
      /\ \E reuse \in CanReuse : WarmOrCold(Start(n), reuse)
  BY DEF Retry
<1>2. CanReuse \subseteq BOOLEAN
  BY DEF CanReuse
<1>3. Decides(n)
  BY <1>1 DEF Decides, Locked, Is
<1> QED BY <1>1, <1>2, <1>3, WarmOrColdTracks

\* The receiver is told of a channel.
LEMMA Selects ==
    ASSUME LiveInv, NEW n \in StartIds, todo[Start(n)] # <<>>, Select(n), svc' = svc
    PROVE  StreamsTo' /\ Streams(svc[n])'
<1>1. /\ select' = [service |-> svc[n], fifo |-> fifos + 1] /\ fifo' = fifos + 1
      /\ svc[n] \in Channels /\ fifos \in Nat
  BY Held DEF Select, Linked, HeldOK
<1>2. select' \in [service : Channels, fifo : Int]
  BY <1>1
<1>3. select' # None /\ select'.service = svc[n] /\ select'.fifo = fifo'
  BY <1>1, <1>2, NoneAssumption
<1> QED BY <1>3 DEF StreamsTo, Streams

LEMMA AskTracks == ASSUME LiveInv, Watching, Tracking, NEW n \in StartIds, Ask(n) PROVE Tracking'
<1> DEFINE t == Start(n)
<1>1. /\ todo[t] # <<>> /\ Head(todo[t]) = "Ask"
      /\ UNCHANGED <<begun, calledOff, svc, shown, next, here, receiver, film, pnum, unit>>
      /\ \/ Goes(t, ColdStart) /\ UNCHANGED tunerVars
         \/ Select(n) /\ Done(t)
  BY DEF Ask, Is, startVars, playVars, playerVars, tunerVars, given
<1>2. CASE Goes(t, ColdStart) /\ UNCHANGED tunerVars
  BY <1>1, <1>2, PutsClears, IsCold, AwayTurns DEF EarlySteps, SameFilm, tunerVars
<1>3. CASE Select(n) /\ Done(t)
  <2>1. /\ Locked(n) /\ ~Is(t, "Over") /\ Still(t) /\ todo'[t] # <<>>
        /\ <<"Ask", Head(todo'[t])>> \in Links["Start"]
    BY <1>1, <1>3, StartDone DEF EarlySteps, Ends
  <2>2. Head(todo'[t]) = "HandSwitch"
    BY <2>1 DEF Links, Stop
  <2>3. ~Plays(n)' /\ ~Changes(n)'
    BY <2>2 DEF Plays, Changes, Is
  <2>4. StreamsTo' /\ Streams(svc[n])'
    BY <1>1, <1>3, Selects
  <2>5. ~FilmOn'
    BY <1>1, PutsClears, AwayOff DEF FilmOn, Is
  <2> QED BY <1>1, <2>1, <2>3, <2>4, <2>5, PutsClears, HolderTracks DEF Decides, SameFilm
<1> QED BY <1>1, <1>2, <1>3

LEMMA ReceiverTracks ==
    ASSUME LiveInv, Watching, Tracking, NEW n \in StartIds, Receiver(n) PROVE Tracking'
<1> DEFINE t == Start(n)
<1>1. /\ todo[t] # <<>> /\ Head(todo[t]) = "Receiver" /\ fifo' = 0 /\ select' = None
      /\ UNCHANGED <<begun, calledOff, svc, shown, next, here, film, pnum, unit>>
      /\ \/ receiver' = [service |-> svc[n], fifo |-> 0, ended |-> FALSE] /\ Done(t)
         \/ receiver' = receiver /\ Goes(t, <<"Over">>)
  BY DEF Receiver, Is, startVars, playVars, playerVars, given
<1>2. receiver = None
  BY <1>1 DEF Watching, ReceiverAlone, Is
<1>3. ~FilmOn' /\ Decides(n)
  <2>1. ~Is(t, "StopHere") /\ Decides(n)
    BY <1>1 DEF Is, Decides, Locked
  <2> QED BY <1>1, <2>1, PutsClears, AwayOff DEF FilmOn
<1>4. CASE receiver' = [service |-> svc[n], fifo |-> 0, ended |-> FALSE] /\ Done(t)
  <2>1. /\ Still(t) /\ todo'[t] # <<>>
        /\ <<"Receiver", Head(todo'[t])>> \in Links["Start"]
    BY <1>1, <1>4, StartDone DEF EarlySteps, Ends
  <2>2. Head(todo'[t]) = "Up"
    BY <2>1 DEF Links, Stop
  <2>3. ~Plays(n)' /\ ~Changes(n)'
    BY <2>2 DEF Plays, Changes, Is
  <2>4. StreamsTo' /\ Streams(svc[n])'
    BY <1>1, <1>4 DEF StreamsTo, Streams
  <2> QED BY <1>1, <1>3, <2>1, <2>3, <2>4, PutsClears, HolderTracks DEF SameFilm
<1>5. CASE receiver' = receiver /\ Goes(t, <<"Over">>)
  <2>1. /\ Moves(t) /\ todo'[t] # <<>> /\ Head(todo'[t]) = "Over" /\ ~Begins(todo'[t])
    BY <1>1, <1>5, PutsClears, IsOver
  <2>2. Still(t)
    BY <2>1, TaskNames, MovesStill
  <2>3. ~Tuning(n)' /\ ~Plays(n)' /\ ~Changes(n)'
    BY <2>1 DEF Tuning, Plays, Changes, Uses, Is, Begins
  <2>4. StreamsTo'
    BY <1>1, <1>2, <1>5 DEF StreamsTo
  <2> QED BY <1>1, <1>3, <2>2, <2>3, <2>4, PutsClears, HolderTracks DEF SameFilm
<1> QED BY <1>1, <1>4, <1>5

\* A start that is called off beside the film that is on leaves it to another.
LEMMA Successor ==
    ASSUME LiveInv, Watching, Tracking, NoReturn, FilmOn, NEW n \in StartIds, Is(Start(n), "Switch"),
           n <= calledOff
    PROVE  Is(Back, "StopHere") \/ \E k \in StartIds : k # n /\ Replaces(k)
<1> USE Held
<1>0. /\ begun \in Nat /\ calledOff \in Nat /\ calledOff <= begun /\ begun <= MaxStarts
      /\ Locked(n) /\ ~Is(Start(n), "Over") /\ Decides(n) /\ Changes(n) /\ n \in Nat
  BY DEF LiveInv, Counted, Linked, Locked, Decides, Changes, Is, StartIds
<1>1. CASE calledOff = begun
  <2>1. Is(Back, "StopHere") \/ (Has(Back, "Finish") /\ own[Back] = film.number)
    BY <1>1 DEF FilmOn, LiveInv, LiveParts, BackTakes
  <2>2. ASSUME Has(Back, "Finish"), own[Back] = film.number PROVE FALSE
    <3>1. here[own[Back]] < pnum
      BY <2>2, TaskNames DEF FilmOn, LiveInv, LiveParts, FinishLate
    <3> QED BY <2>2, <3>1 DEF FilmOn
  <2> QED BY <2>1, <2>2
<1>2. CASE calledOff # begun
  <2>1. begun \in StartIds /\ n < begun /\ begun > calledOff /\ begun # n
    BY <1>0, <1>2 DEF StartIds
  <2>2. todo[Start(begun)] # <<>>
    BY <1>0, <2>1 DEF Watching, Queued
  <2>3. Head(todo[Start(begun)]) \in EarlySteps
    <3>1. ~Locked(begun)
      BY <1>0, <2>1, OthersAside
    <3> QED BY <2>2, <3>1 DEF Locked, EarlySteps
  <2>4. svc[begun] # shown
    <3> SUFFICES ASSUME svc[begun] = shown PROVE FALSE
      OBVIOUS
    <3>1. svc[begun] \in Channels /\ shown # None
      BY <1>0, <2>1, LiveStartAssumption DEF Linked
    <3>2. PICK j \in StartIds : svc[j] = shown /\ j <= n
      BY <1>0, <3>1 DEF Tracking, Shown
    <3>3. svc[n] # shown
      BY <1>0 DEF Tracking, Changing
    <3>4. j < n
      BY <3>2, <3>3 DEF StartIds
    <3>5. begun <= begun
      BY <1>0
    <3> QED BY <2>1, <3>2, <3>3, <3>4, <3>5 DEF NoReturn
  <2> QED BY <2>1, <2>2, <2>3, <2>4 DEF Replaces
<1> QED BY <1>1, <1>2

LEMMA SwitchTracks == ASSUME LiveInv, Watching, Tracking, NEW n \in StartIds, Switch(n) PROVE Tracking'
<1> DEFINE t == Start(n)
<1>1. /\ todo[t] # <<>> /\ Head(todo[t]) \in {"Switch", "HandSwitch"}
      /\ UNCHANGED <<begun, calledOff, svc, shown, next, here, select, fifo, receiver, film, pnum, unit,
                     own>>
      /\ \/ n <= calledOff /\ Goes(t, <<"Over">>)
         \/ Done(t)
         \/ Goes(t, IF Is(t, "Switch") THEN <<"Retry">> ELSE ColdStart)
  BY DEF Switch, S!CalledOff, Is, startVars, playVars, playerVars, given
<1>2. Decides(n) /\ SameFilm /\ pnum \in Nat /\ PlansOK
  BY <1>1, Held DEF Decides, Locked, Is, SameFilm
<1>3. CASE Head(todo[t]) = "HandSwitch"
  <2>1. CASE Done(t)
    BY <1>1, <1>2, <1>3, <2>1, PutsClears, AwayGoesOn DEF EarlySteps, Ends, Is
  <2>2. CASE Goes(t, <<"Over">>)
    BY <1>1, <1>2, <1>3, <2>2, PutsClears, IsOver, AwayTurns DEF EarlySteps
  <2>3. CASE Goes(t, ColdStart)
    BY <1>1, <1>2, <1>3, <2>3, PutsClears, IsCold, AwayTurns DEF EarlySteps
  <2> QED BY <1>1, <1>3, <2>1, <2>2, <2>3 DEF Is
<1>4. CASE Head(todo[t]) = "Switch"
  <2>s. StreamsTo' /\ (Streams(svc[n]) => Streams(svc[n])') /\ Changes(n) /\ Is(t, "Switch")
    BY <1>1, <1>4 DEF Tracking, StreamsTo, Streams, Changes, Is
  <2>1. CASE Done(t)
    <3>1. Head(todo'[t]) = "Reload" /\ todo'[t] # <<>> /\ Still(t)
      <4>1. /\ Still(t) /\ todo'[t] # <<>>
            /\ <<"Switch", Head(todo'[t])>> \in Links["Start"]
        BY <1>1, <1>4, <2>1, StartDone DEF EarlySteps, Ends
      <4> QED BY <4>1 DEF Links, Stop
    <3>2. Putting(n)' /\ ~Plays(n)' /\ Streams(svc[n])'
      BY <2>s, <3>1 DEF Putting, Changes, Plays, Is, Tracking, Tuned, Tuning
    <3>3. svc[n] # shown' /\ (film' # None => own'[Start(n)] = film'.number)
      BY <1>1, <2>s DEF Tracking, Changing
    <3> QED BY <1>1, <1>2, <2>s, <3>1, <3>2, <3>3, HolderTracks DEF Mended
  <2>2. CASE n <= calledOff /\ Goes(t, <<"Over">>)
    <3>1. /\ Moves(t) /\ todo'[t] # <<>> /\ Head(todo'[t]) = "Over" /\ ~Begins(todo'[t])
      BY <1>2, <2>2, IsOver
    <3>2. Still(t) /\ ~Tuning(n)' /\ ~Plays(n)' /\ ~Changes(n)'
      BY <3>1, TaskNames, MovesStill DEF Tuning, Plays, Changes, Uses, Is, Begins
    <3>3. ASSUME NoReturn, FilmOn' PROVE Mended'
      <4>1. FilmOn
        BY <1>1, <3>3 DEF FilmOn
      <4>2. Is(Back, "StopHere") \/ \E k \in StartIds : k # n /\ Replaces(k)
        BY <2>2, <2>s, <3>3, <4>1, Successor
      <4>3. Is(Back, "StopHere") => Is(Back, "StopHere")'
        BY <3>2, TaskNames, TasksDiffer DEF Still, Is
      <4>4. ASSUME NEW k \in StartIds, k # n, Replaces(k) PROVE Replaces(k)'
        <5>1. todo'[Start(k)] = todo[Start(k)]
          BY <3>2, <4>4, TaskNames, TasksDiffer DEF Still
        <5> QED BY <1>1, <4>4, <5>1 DEF Replaces
      <4> QED BY <4>2, <4>3, <4>4 DEF Mended
    <3> QED BY <1>1, <1>2, <2>s, <3>2, <3>3, HolderTracks
  <2>3. CASE Goes(t, <<"Retry">>)
    BY <1>1, <1>2, <2>3, IsRetry, PutsRight
  <2> QED BY <1>1, <2>s, <2>1, <2>2, <2>3
<1> QED BY <1>1, <1>3, <1>4

LEMMA ReloadTracks == ASSUME LiveInv, Tracking, NEW n \in StartIds, Reload(n) PROVE Tracking'
<1> DEFINE t == Start(n)
<1>1. /\ todo[t] # <<>> /\ Head(todo[t]) = "Reload" /\ Is(t, "Reload")
      /\ UNCHANGED <<begun, calledOff, svc, next, here, select, fifo, receiver, film, pnum>>
      /\ \/ /\ unit' = fifo
            /\ shown' = IF P!Playing(own[t]) THEN svc[n] ELSE shown
            /\ todo' = [todo EXCEPT ![t] = <<"Over">>, ![Rematch(n)] = <<"Match">>]
         \/ Goes(t, <<"Retry">>) /\ shown' = shown
  BY DEF Reload, Is, startVars, playVars, given
<1>2. Decides(n) /\ SameFilm /\ pnum \in Nat /\ PlansOK /\ Changes(n)
  BY <1>1, Held DEF Decides, Locked, Is, SameFilm, Changes
<1>3. StreamsTo' /\ (Streams(svc[n]) => Streams(svc[n])')
  BY <1>1 DEF Tracking, StreamsTo, Streams
<1>4. CASE /\ unit' = fifo
           /\ shown' = IF P!Playing(own[t]) THEN svc[n] ELSE shown
           /\ todo' = [todo EXCEPT ![t] = <<"Over">>, ![Rematch(n)] = <<"Match">>]
  <2>1. t \in Tasks /\ Rematch(n) \in Tasks /\ t # Rematch(n) /\ Rematch(n)[1] = "Rematch"
        /\ t[1] = "Start"
    BY TaskNames, TasksDiffer
  <2>2. todo'[t] = <<"Over">> /\ Still(t)
    BY <1>4, <2>1, Held DEF Still
  <2>3. Made(t, <<"Over">>, "Over", {"Over"}, "Over")
    BY <2>1, OneMade
  <2>4. ~Tuning(n)' /\ ~Plays(n)' /\ ~Changes(n)'
    BY <2>2, <2>3 DEF Made, Tuning, Plays, Changes, Uses, Is
  <2>5. ASSUME FilmOn' PROVE InStep'
    <3>1. film # None /\ own[t] = film.number
      BY <1>1, <1>2, <2>5 DEF FilmOn, Tracking, Changing
    <3>2. shown' = svc[n] /\ Streams(svc[n])'
      BY <1>2, <1>3, <1>4, <3>1 DEF P!Playing, Tracking, Tuned, Tuning
    <3> QED BY <1>1, <1>4, <3>2 DEF InStep, Fed, Streams
  <2> QED BY <1>1, <1>2, <1>3, <1>4, <2>2, <2>4, <2>5, HolderTracks
<1>5. CASE Goes(t, <<"Retry">>) /\ shown' = shown
  BY <1>1, <1>2, <1>5, IsRetry, PutsRight
<1> QED BY <1>1, <1>4, <1>5

LEMMA DecideTracks == ASSUME LiveInv, Watching, Tracking, NEW n \in StartIds, Decide(n) PROVE Tracking'
<1> DEFINE t == Start(n)
<1>1. /\ todo[t] # <<>> /\ Head(todo[t]) = "Decide"
      /\ UNCHANGED <<startVars, shown, change, unit, given, here>>
  BY DEF Decide, Is
<1>2. \/ /\ shown = svc[n] /\ Goes(t, <<"Over">>)
         /\ UNCHANGED <<tunerVars, own, playVars, pnum>>
      \/ /\ shown # svc[n] /\ Select(n) /\ Goes(t, <<"Switch", "Reload">>)
         /\ own' = [own EXCEPT ![t] = Current]
         /\ UNCHANGED <<receiver, playVars, pnum>>
      \/ \E reuse \in BOOLEAN : WarmOrCold(t, reuse) /\ UNCHANGED tunerVars
  BY DEF Decide, CanReuse
<1>3. /\ t \in Tasks /\ t[1] = "Start" /\ PlansOK /\ pnum \in Nat /\ own \in [Tasks -> Nat \cup {None}]
      /\ Decides(n) /\ ~Putting(n) /\ UNCHANGED <<begun, calledOff, svc>>
  BY <1>1, TaskNames, Held DEF Decides, Locked, Putting, Changes, Is, startVars, given
<1>4. CASE /\ shown = svc[n] /\ Goes(t, <<"Over">>)
           /\ UNCHANGED <<tunerVars, own, playVars, pnum>>
  <2>0. /\ UNCHANGED <<next, film, select, fifo, receiver>> /\ SameFilm
    BY <1>4 DEF tunerVars, playVars, SameFilm
  <2>1. /\ Moves(t) /\ todo'[t] # <<>> /\ Head(todo'[t]) = "Over" /\ ~Begins(todo'[t])
    BY <1>3, <1>4, IsOver
  <2>2. Still(t) /\ ~Tuning(n)' /\ ~Plays(n)' /\ ~Changes(n)'
    BY <1>3, <2>1, MovesStill DEF Tuning, Plays, Changes, Uses, Is, Begins
  <2>3. StreamsTo' /\ (InStep => InStep')
    BY <1>1, <2>0 DEF Tracking, StreamsTo, InStep, Fed, Streams
  <2>4. ASSUME NoReturn, FilmOn', ReceiverUp' PROVE InStep' \/ Mended'
    <3>1. InStep \/ Mended
      BY <1>1, <1>4, <2>0, <2>4 DEF Tracking, Followed, FilmOn, ReceiverUp
    <3>2. Is(Back, "StopHere") => Is(Back, "StopHere")'
      BY <2>2, TaskNames, TasksDiffer DEF Still, Is
    <3>3. ASSUME NEW k \in StartIds, Putting(k) \/ Replaces(k)
          PROVE  k # n /\ Replaces(k)'
      <4>1. k # n
        BY <1>3, <1>4, <3>3 DEF Replaces
      <4>2. ~Putting(k) /\ todo'[Start(k)] = todo[Start(k)]
        <5>1. Aside(todo[Start(k)])
          BY <1>3, <4>1, OthersAside DEF Decides
        <5>2. todo'[Start(k)] = todo[Start(k)]
          BY <2>2, <4>1, TaskNames, TasksDiffer DEF Still
        <5> QED BY <5>1, <5>2, AsideTracks
      <4> QED BY <1>1, <1>3, <3>3, <4>1, <4>2 DEF Replaces
    <3> QED BY <2>3, <3>1, <3>2, <3>3 DEF Mended
  <2> QED BY <1>1, <1>3, <1>4, <2>0, <2>2, <2>3, <2>4, HolderTracks
<1>5. CASE /\ shown # svc[n] /\ Select(n) /\ Goes(t, <<"Switch", "Reload">>)
           /\ own' = [own EXCEPT ![t] = Current]
           /\ UNCHANGED <<receiver, playVars, pnum>>
  <2>0. /\ UNCHANGED <<next, film>> /\ SameFilm
    BY <1>5 DEF playVars, SameFilm
  <2>1. Made(t, <<"Switch", "Reload">>, "Switch", {"Switch", "Reload"}, "Reload")
    BY <1>3, SwitchMade
  <2>2. Moves(t) /\ todo'[t] # <<>> /\ Head(todo'[t]) = "Switch" /\ Still(t)
    BY <1>3, <1>5, <2>1, GoesMoves, MovesStill DEF Made
  <2>3. Putting(n)' /\ ~Plays(n)'
    BY <2>2 DEF Putting, Changes, Plays, Is
  <2>4. StreamsTo' /\ Streams(svc[n])'
    BY <1>1, <1>3, <1>5, Selects
  <2>5. film' # None => own'[t] = film'.number
    BY <1>3, <1>5, <2>0 DEF Current
  <2> QED BY <1>1, <1>3, <1>5, <2>0, <2>2, <2>3, <2>4, <2>5, HolderTracks DEF Mended
<1>6. CASE \E reuse \in BOOLEAN : WarmOrCold(t, reuse) /\ UNCHANGED tunerVars
  BY <1>1, <1>3, <1>6, WarmOrColdTracks
<1> QED BY <1>2, <1>4, <1>5, <1>6

\* What a channel that is put on record leaves.
LEMMA RecordMakes ==
    ASSUME LiveInv, Watching, NEW n \in StartIds, todo[Start(n)] # <<>>,
           Head(todo[Start(n)]) = "Begin", Record(n)
    PROVE  /\ Decides(n) /\ Uses(n) /\ film = None
           /\ next + 1 \in StartIds /\ film' # None /\ film'.number = next + 1
           /\ shown' = svc[n] /\ here'[next + 1] = pnum /\ todo'[Source(next + 1)] = <<"Watch">>
           /\ \A j \in StartIds : Aside(todo'[Start(j)]) /\ ~Decides(j)'
<1> DEFINE t == Start(n)
           k == next + 1
<1> USE Held
<1>h. /\ \A step : Has(t, step) <=> step \in Left["Begin"]
      /\ \A ends : EndsIn(todo[t], ends) <=> "Begin" \in ends
  BY StartHolds DEF Left, Last
<1>1. /\ next < MaxStarts /\ next' = k /\ shown' = svc[n]
      /\ film' = P!Begun(k, "Here", TRUE, FALSE, None, FALSE, "Short")
      /\ here' = [here EXCEPT ![k] = pnum]
      /\ todo' = [todo EXCEPT ![t] = <<"Over">>, ![Mpv(k)] = <<"Hear">>,
                              ![Display(k)] = <<"Opening", "End">>, ![Source(k)] = <<"Watch">>]
  BY DEF Record, P!Begin
<1>2. k \in StartIds /\ here'[k] = pnum
  BY <1>1, LiveStartAssumption DEF StartIds, PlansOK
<1>3. film'.number = k /\ film' # None
  <2>1. film' = [number |-> k, player |-> "Here", live |-> TRUE, watch |-> FALSE,
                 session |-> None, sourceEnd |-> None, given |-> FALSE, measured |-> FALSE,
                 position |-> "Short", intent |-> None, told |-> FALSE, jumped |-> FALSE]
    BY <1>1 DEF P!Begun
  <2>2. film' \in P!Film
    BY <1>2, <2>1 DEF P!Film, P!Players, P!Places
  <2> QED BY <1>2, <2>1, <2>2, NoneAssumption
<1>4. /\ {t, Mpv(k), Display(k), Source(k)} \subseteq Tasks
      /\ t # Mpv(k) /\ t # Display(k) /\ t # Source(k) /\ Mpv(k) # Source(k) /\ Display(k) # Source(k)
      /\ \A j \in StartIds : /\ Start(j) \in Tasks /\ Start(j) # Mpv(k) /\ Start(j) # Display(k)
                             /\ Start(j) # Source(k) /\ (j # n => Start(j) # t)
  BY <1>2, TaskNames, TasksDiffer
<1>5. /\ todo'[t] = <<"Over">> /\ todo'[Source(k)] = <<"Watch">>
      /\ \A j \in StartIds : j # n => todo'[Start(j)] = todo[Start(j)]
  BY <1>1, <1>4
<1>6. Made(t, <<"Over">>, "Over", {"Over"}, "Over")
  BY TaskNames, OneMade
<1>7. Decides(n) /\ Uses(n) /\ Clears(n) /\ ~Has(t, "Finish") /\ ~Is(t, "StopHere")
  BY <1>h DEF Decides, Locked, Is, Uses, Clears, Puts, Left
<1>8. ASSUME NEW j \in StartIds PROVE Aside(todo'[Start(j)]) /\ ~Decides(j)'
  <2>1. CASE j = n
    BY <1>5, <1>6, <2>1 DEF Made, Aside, Decides, Is
  <2>2. CASE j # n
    <3>1. Aside(todo[Start(j)]) /\ ~Locked(j)
      BY <1>7, <2>2, OthersAside DEF Decides
    <3> QED BY <1>5, <2>2, <3>1 DEF Decides, Locked
  <2> QED BY <2>1, <2>2
<1>9. film = None
  BY <1>7, AwayOff
<1> QED BY <1>1, <1>2, <1>3, <1>5, <1>7, <1>8, <1>9

LEMMA RecordTracks ==
    ASSUME LiveInv, Watching, Tracking, NEW n \in StartIds, todo[Start(n)] # <<>>,
           Head(todo[Start(n)]) = "Begin", Record(n),
           UNCHANGED <<begun, calledOff, svc, select, fifo, receiver, unit, pnum>>
    PROVE  Tracking'
<1>1. /\ Decides(n) /\ Uses(n) /\ next + 1 \in StartIds /\ film' # None /\ film'.number = next + 1
      /\ shown' = svc[n] /\ todo'[Source(next + 1)] = <<"Watch">>
      /\ \A j \in StartIds : Aside(todo'[Start(j)]) /\ ~Decides(j)'
  BY RecordMakes
<1>2. \A j \in StartIds : ~Tuning(j)' /\ ~Plays(j)' /\ ~Changes(j)'
  BY <1>1 DEF Aside, Tuning, Plays, Changes, Uses, Is, EarlySteps
<1>3. StreamsTo' /\ Tuned' /\ Changing'
  BY <1>2 DEF Tracking, StreamsTo, Tuned, Changing
<1>4. Shown'
  <2>1. n <= begun /\ n - 1 <= calledOff
    BY <1>1, Held DEF Decides, Linked, Locked, Early, StartIds
  <2> QED BY <1>1, <2>1 DEF Shown
<1>5. Sourced'
  <2>1. <<"Watch">> # <<>> /\ Head(<<"Watch">>) = "Watch"
    OBVIOUS
  <2> QED BY <1>1, <2>1 DEF Sourced, Is
<1>6. InStep'
  <2>1. Streams(svc[n]) /\ Fed
    BY <1>1 DEF Tracking, Tuned, Tuning, Plays, Is
  <2> QED BY <1>1, <2>1 DEF InStep, Streams, Fed
<1> QED BY <1>3, <1>4, <1>5, <1>6 DEF Tracking, Followed

LEMMA BeginTracks == ASSUME LiveInv, Watching, Tracking, NEW n \in StartIds, Begin(n) PROVE Tracking'
<1>1. /\ todo[Start(n)] # <<>> /\ Head(todo[Start(n)]) = "Begin"
      /\ UNCHANGED <<begun, calledOff, svc, select, fifo, receiver, unit, pnum>>
  BY DEF Begin, Is, startVars, playerVars, given
<1>2. CASE S!CalledOff(n)
  BY <1>1, <1>2, UndoTracks DEF Begin, UndoPlan, playVars
<1>3. CASE ~S!CalledOff(n)
  BY <1>1, <1>3, RecordTracks DEF Begin
<1> QED BY <1>2, <1>3

----------------------------------------------------------------------------
(* Back, the followers, and what happens of itself.                           *)

LEMMA OthersTrack ==
    ASSUME LiveInv, Tracking, NEW t \in Tasks, t[1] # "Start",
           Quit(t) \/ Stopping(t) \/ Gone(t) \/ Cleaned(t) \/ Finish(t) \/ Match(t)
    PROVE  Tracking'
<1>1. /\ todo[t] # <<>> /\ Head(todo[t]) \notin {"Watch", "StopHere"}
      /\ \E s : Goes(t, s)
      /\ UNCHANGED <<begun, calledOff, svc, shown, next, here, select, fifo, own, pnum>>
      /\ receiver' \in {receiver, None} /\ unit' \in {unit, None} /\ film' \in {film, None}
  BY DEF Quit, Stopping, Gone, Cleaned, Finish, Match, Is, Done, P!Finish, startVars, playVars,
         playerVars, tunerVars, given
<1>2. Still(t) /\ SameFilm /\ pnum \in Nat
  BY <1>1, Held DEF Goes, Still, SameFilm
<1>3. StreamsTo' /\ StreamsOn /\ (ReceiverUp' => ReceiverUp)
  BY <1>1, StreamsKept DEF Tracking, ReceiverUp
<1>4. FilmOn' => t # Source(film.number) /\ ~(t = Back /\ Is(Back, "StopHere"))
  <2>1. FilmOn' => FilmOn
    BY <1>1 DEF FilmOn
  <2> QED BY <1>1, <2>1 DEF Tracking, Sourced, Is
<1> QED BY <1>1, <1>2, <1>3, <1>4, BesideTracks

LEMMA BackTracks == ASSUME LiveInv, Tracking, StopHere(Back) PROVE Tracking'
<1>1. /\ \E s : Goes(Back, s)
      /\ Intended(Back) /\ own' = [own EXCEPT ![Back] = Current] /\ pnum' = pnum + 1
      /\ UNCHANGED <<begun, calledOff, svc, shown, here, select, fifo, receiver, unit>>
  BY DEF StopHere, LetsGo, startVars, tunerVars, given
<1>2. Still(Back) /\ Back \in Tasks /\ Back[1] = "Back" /\ pnum \in Nat
  BY <1>1, Held, TaskNames DEF Goes, Still
<1>3. SameFilm /\ next' = next /\ \A n \in StartIds : own'[Start(n)] = own[Start(n)]
  BY <1>1, IntendedSame, TasksDiffer
<1>4. StreamsTo' /\ StreamsOn /\ (ReceiverUp' => ReceiverUp)
  BY <1>1, StreamsKept DEF Tracking, ReceiverUp
<1>5. ~FilmOn'
  BY <1>1, <1>2, <1>3, StillOn
<1> QED BY <1>1, <1>2, <1>3, <1>4, <1>5, BesideTracks

LEMMA DisplayTracks ==
    ASSUME LiveInv, Tracking, NEW m \in StartIds, Opening(m) \/ End(m) PROVE Tracking'
<1>1. /\ \E s : Goes(Display(m), s)
      /\ UNCHANGED <<begun, calledOff, svc, shown, next, here, select, fifo, own, pnum, receiver, unit,
                     film>>
  BY DEF Opening, End, Done, startVars, playVars, playerVars, tunerVars, given
<1>2. /\ Still(Display(m)) /\ Display(m) \in Tasks /\ Display(m)[1] = "Display" /\ pnum \in Nat
      /\ SameFilm
  BY <1>1, Held, TaskNames DEF Goes, Still, SameFilm
<1>3. StreamsTo' /\ StreamsOn /\ (ReceiverUp' => ReceiverUp)
  BY <1>1, StreamsKept DEF Tracking, ReceiverUp
<1>4. Display(m) # Back /\ (FilmOn' => Display(m) # Source(film.number))
  <2>1. FilmOn' => film.number \in StartIds
    BY <1>1, <1>2, StillOn
  <2> QED BY <2>1, TaskNames
<1> QED BY <1>1, <1>2, <1>3, <1>4, BesideTracks

LEMMA HearTracks == ASSUME LiveInv, Tracking, NEW m \in StartIds, Hear(m) PROVE Tracking'
<1>1. /\ \E s : Goes(Mpv(m), s)
      /\ UNCHANGED <<begun, calledOff, svc, shown, next, here, select, fifo, own, receiver, unit>>
      /\ film' \in {film, None} /\ pnum' \in {pnum, pnum + 1}
  BY DEF Hear, P!Finish, LetsGo, startVars, playVars, tunerVars, given
<1>2. /\ Still(Mpv(m)) /\ Mpv(m) \in Tasks /\ Mpv(m)[1] = "Mpv" /\ pnum \in Nat /\ SameFilm
  BY <1>1, Held, TaskNames DEF Goes, Still, SameFilm
<1>3. StreamsTo' /\ StreamsOn /\ (ReceiverUp' => ReceiverUp)
  BY <1>1, StreamsKept DEF Tracking, ReceiverUp
<1>4. Mpv(m) # Back /\ (FilmOn' => Mpv(m) # Source(film.number))
  <2>1. FilmOn' => film.number \in StartIds
    BY <1>1, <1>2, StillOn
  <2> QED BY <2>1, TaskNames
<1> QED BY <1>1, <1>2, <1>3, <1>4, BesideTracks

LEMMA WatchTracks == ASSUME LiveInv, Tracking, NEW m \in StartIds, Watch(m) PROVE Tracking'
<1>1. /\ \E s : Goes(Source(m), s)
      /\ UNCHANGED <<begun, calledOff, svc, shown, here, select, fifo, own, receiver, unit>>
      /\ \/ pnum # here[m] /\ UNCHANGED <<next, film, pnum>>
         \/ /\ pnum' = pnum + 1
            /\ IF P!Playing(m) THEN P!SourceEnded(m, "Broken") ELSE UNCHANGED playVars
  BY DEF Watch, LetsGo, startVars, playVars, tunerVars, given
<1>2. /\ Still(Source(m)) /\ Source(m) \in Tasks /\ Source(m)[1] = "Source" /\ pnum \in Nat
      /\ Source(m) # Back
  BY <1>1, Held, TaskNames DEF Goes, Still
<1>3. SameFilm /\ next' = next
  <2>1. next' = next /\ (film' = film \/ (film # None /\ film' = [film EXCEPT !.sourceEnd = "Broken"]))
    BY <1>1 DEF P!SourceEnded, P!Playing, playVars
  <2>2. film # None => film \in P!Film
    BY DEF LiveInv, Recorded
  <2>3. ASSUME film # None, film' = [film EXCEPT !.sourceEnd = "Broken"]
        PROVE  film'.number = film.number /\ film'.live = film.live
    BY <2>2, <2>3 DEF P!Film
  <2> QED BY <2>1, <2>3 DEF SameFilm
<1>4. StreamsTo' /\ StreamsOn /\ (ReceiverUp' => ReceiverUp)
  BY <1>1, StreamsKept DEF Tracking, ReceiverUp
<1>5. pnum' \in Nat /\ pnum' >= pnum
  BY <1>1, <1>2
<1>6. ASSUME FilmOn' PROVE Source(m) # Source(film.number)
  <2>1. FilmOn /\ pnum' = pnum /\ film.number \in StartIds
    BY <1>1, <1>3, <1>5, <1>6, StillOn
  <2>2. pnum # here[m]
    BY <1>1, <1>2, <2>1
  <2> QED BY <2>1, <2>2, TasksDiffer DEF FilmOn
<1> QED BY <1>1, <1>2, <1>3, <1>4, <1>5, <1>6, BesideTracks

LEMMA ProcessesTrack ==
    ASSUME LiveInv, Tracking, ReceiverFollows \/ ReceiverEnds \/ PlayerDies \/ UNCHANGED vars
    PROVE  Tracking'
<1>1. UNCHANGED <<begun, calledOff, svc, shown, next, here, fifo, own, pnum, film, todo>>
  BY DEF ReceiverFollows, ReceiverEnds, PlayerDies, vars, startVars, playVars, playerVars, tunerVars,
         given, taskVars
<1>2. Back \in Tasks /\ Back[1] = "Back" /\ pnum \in Nat /\ Still(Back) /\ SameFilm
  BY <1>1, Held, TaskNames DEF Still, SameFilm
<1>3. receiver # None => receiver \in [service : Channels, fifo : Nat, ended : BOOLEAN]
  BY Held DEF HeldOK
<1>4. /\ unit' \in {unit, None} /\ StreamsTo' /\ StreamsOn /\ (ReceiverUp' => ReceiverUp)
  <2>1. CASE ReceiverFollows
    <3>1. /\ ReceiverUp /\ unit' = unit /\ select # None /\ select' = None
          /\ receiver' = [receiver EXCEPT !.service = select.service, !.fifo = select.fifo]
      BY <2>1 DEF ReceiverFollows, playerVars
    <3>2. receiver'.service = select.service /\ receiver'.fifo = select.fifo
      BY <1>3, <3>1 DEF ReceiverUp
    <3> QED BY <1>1, <3>1, <3>2 DEF Tracking, StreamsTo, StreamsOn, Streams
  <2>2. CASE ReceiverEnds
    <3>1. ReceiverUp /\ receiver' = [receiver EXCEPT !.ended = TRUE] /\ UNCHANGED <<select, unit>>
      BY <2>2 DEF ReceiverEnds, playerVars
    <3>2. receiver'.service = receiver.service /\ receiver'.fifo = receiver.fifo /\ receiver # None
      BY <1>3, <3>1 DEF ReceiverUp
    <3> QED BY <1>1, <3>1, <3>2 DEF Tracking, StreamsTo, StreamsOn, Streams
  <2>3. CASE PlayerDies \/ UNCHANGED vars
    <3>1. UNCHANGED <<select, receiver>> /\ unit' \in {unit, None}
      BY <2>3 DEF PlayerDies, tunerVars, playerVars, vars
    <3> QED BY <1>1, <3>1, StreamsKept DEF Tracking, ReceiverUp
  <2> QED BY <2>1, <2>2, <2>3
<1> QED BY <1>1, <1>2, <1>4, BesideTracks

----------------------------------------------------------------------------
(* The counters, the lock and the press of Back.                              *)

LEMMA CountersTrack ==
    ASSUME LiveInv, Tracking, NEW t \in Tasks, t[1] \in {"Start", "Back"}, Moves(t),
           t[1] = "Start" =>
               /\ todo[t] # <<>> => Head(todo[t]) \in EarlySteps \cup {"Decide", "Over"}
               /\ todo'[t] # <<>> => Head(todo'[t]) \in EarlySteps \cup {"Decide", "Over"},
           UNCHANGED <<playVars, playerVars, tunerVars, here, shown>>,
           \A n \in StartIds : t # Start(n) => own'[Start(n)] = own[Start(n)],
           begun' \in Nat, begun' >= begun, calledOff' \in Nat, calledOff' >= calledOff,
           \A n \in StartIds : n <= begun => svc'[n] = svc[n],
           \A n \in StartIds : t = Start(n) /\ Decides(n)' => n > calledOff,
           t = Back => ~Is(Back, "StopHere"),
           NoReturn => \A k \in StartIds : Replaces(k) => Mended'
    PROVE  Tracking'
<1>1. /\ UNCHANGED <<next, film, here, pnum, unit, select, fifo, receiver, shown>>
      /\ begun \in Nat /\ calledOff \in Nat /\ Plan(t, todo[t]) /\ Plan(t, todo'[t])
  BY Held DEF playVars, playerVars, tunerVars, Moves, LiveInv, Counted
<1>2. ASSUME NEW n \in StartIds, t = Start(n)
      PROVE  /\ ~Tuning(n)' /\ ~Plays(n)' /\ ~Changes(n)' /\ ~Putting(n)
  <2>1. Aside(todo[t]) /\ Aside(todo'[t])
    BY <1>1, <1>2, TaskNames, LeftAside
  <2>2. ~Putting(n)
    BY <1>2, <2>1, AsideTracks
  <2>3. ~Tuning(n)' /\ ~Plays(n)' /\ ~Changes(n)'
    BY <1>2, <2>1 DEF Aside, Tuning, Plays, Changes, Uses, Is, EarlySteps
  <2> QED BY <2>2, <2>3
<1>3. ASSUME NEW n \in StartIds, t # Start(n)
      PROVE  /\ Tuning(n)' => Tuning(n) /\ svc'[n] = svc[n]
             /\ Plays(n)' => Plays(n)
             /\ Changes(n)' => Changes(n) /\ Tuning(n)
             /\ Decides(n)' => Decides(n)
             /\ Putting(n) => Putting(n)'
  <2>1. todo'[Start(n)] = todo[Start(n)]
    BY <1>3, TaskNames DEF Moves
  <2>2. todo[Start(n)] # <<>> => svc'[n] = svc[n]
    BY Held DEF Linked
  <2>3. Tuning(n) => todo[Start(n)] # <<>>
    BY DEF Tuning, Changes, Uses, Is, EndsIn
  <2> QED BY <2>1, <2>2, <2>3 DEF Tuning, Plays, Changes, Decides, Locked, Putting, Uses, Is
<1>4. StreamsTo'
  BY <1>1 DEF Tracking, StreamsTo
<1>5. Tuned'
  <2> SUFFICES ASSUME NEW n \in StartIds PROVE (Tuning(n)' => Streams(svc[n])') /\ (Plays(n)' => Fed')
    BY DEF Tuned
  <2> QED BY <1>1, <1>2, <1>3 DEF Tracking, Tuned, Streams, Fed
<1>6. Changing'
  <2> SUFFICES ASSUME NEW n \in StartIds, Changes(n)'
               PROVE  svc'[n] # shown' /\ (film' # None => own'[Start(n)] = film'.number)
    BY DEF Changing
  <2>1. t # Start(n) /\ Changes(n) /\ svc'[n] = svc[n]
    BY <1>2, <1>3 DEF Tuning
  <2> QED BY <1>1, <2>1 DEF Tracking, Changing
<1>7. Shown'
  <2> SUFFICES ASSUME shown' # None
               PROVE  \E j \in StartIds : /\ j <= begun' /\ j - 1 <= calledOff' /\ svc'[j] = shown'
                                          /\ \A n \in StartIds : Decides(n)' => j <= n
    BY DEF Shown
  <2>1. PICK j \in StartIds : /\ j <= begun /\ j - 1 <= calledOff /\ svc[j] = shown
                              /\ \A n \in StartIds : Decides(n) => j <= n
    BY <1>1 DEF Tracking, Shown
  <2>2. j \in Nat /\ j <= begun' /\ j - 1 <= calledOff' /\ svc'[j] = shown'
    BY <1>1, <2>1 DEF StartIds
  <2>3. ASSUME NEW n \in StartIds, Decides(n)' PROVE j <= n
    <3>1. CASE t = Start(n)
      BY <1>1, <2>1, <2>2, <2>3, <3>1 DEF StartIds
    <3>2. CASE t # Start(n)
      BY <1>3, <2>1, <2>3, <3>2
    <3> QED BY <3>1, <3>2
  <2> QED BY <2>2, <2>3
<1>8. FilmOn' <=> FilmOn
  BY <1>1 DEF FilmOn
<1>9. Sourced'
  <2> SUFFICES ASSUME FilmOn PROVE Is(Source(film.number), "Watch")'
    BY <1>8 DEF Sourced
  <2>1. Source(film.number) \in Tasks /\ Source(film.number) # t
    BY TaskNames, Held DEF FilmOn
  <2> QED BY <1>1, <2>1 DEF Tracking, Sourced, Is, Moves
<1>10. NoReturn' => NoReturn
  <2> SUFFICES ASSUME NoReturn',
                      NEW a \in StartIds, NEW b \in StartIds, NEW c \in StartIds,
                      a < b, b < c, c <= begun, svc[a] = svc[c]
               PROVE  svc[b] = svc[a]
    BY DEF NoReturn
  <2>1. a \in Nat /\ b \in Nat /\ c \in Nat
    BY DEF StartIds
  <2>2. c <= begun' /\ svc'[a] = svc[a] /\ svc'[b] = svc[b] /\ svc'[c] = svc[c]
    BY <1>1, <2>1
  <2> QED BY <2>2 DEF NoReturn
<1>11. NoReturn' => Followed'
  <2> SUFFICES ASSUME NoReturn, FilmOn, ReceiverUp PROVE InStep' \/ Mended'
    BY <1>1, <1>8, <1>10 DEF Followed, ReceiverUp
  <2>1. InStep => InStep'
    BY <1>1 DEF InStep, Streams, Fed
  <2>2. Is(Back, "StopHere") => Is(Back, "StopHere")'
    BY TaskNames DEF Moves, Is
  <2>3. \A n \in StartIds : Putting(n) => Putting(n)'
    BY <1>2, <1>3
  <2>4. Mended => Mended'
    BY <2>2, <2>3 DEF Mended
  <2> QED BY <2>1, <2>4 DEF Tracking, Followed
<1> QED BY <1>4, <1>5, <1>6, <1>7, <1>9, <1>11 DEF Tracking

\* Once a start for a channel other than the one on record has come, so are all
\* the later ones.
LEMMA Newer ==
    ASSUME LiveInv, Tracking, NoReturn, NEW k \in StartIds, Replaces(k), NEW n \in StartIds, n > k,
           n <= begun
    PROVE  svc[n] # shown
<1> SUFFICES ASSUME svc[n] = shown PROVE FALSE
  OBVIOUS
<1>1. shown \in Channels /\ shown # None
  BY Held, LiveStartAssumption DEF Linked
<1>2. PICK j \in StartIds : j - 1 <= calledOff /\ svc[j] = shown
  BY <1>1 DEF Tracking, Shown
<1>3. k > calledOff /\ svc[k] # shown
  BY DEF Replaces
<1>4. j < k
  <2>1. calledOff \in Nat /\ j \in Nat /\ k \in Nat
    BY DEF LiveInv, Counted, StartIds
  <2>2. j <= k
    BY <1>2, <1>3, <2>1
  <2> QED BY <1>2, <1>3, <2>1, <2>2
<1> QED BY <1>2, <1>3, <1>4 DEF NoReturn

LEMMA ChooseTracks == ASSUME LiveInv, Tracking, NEW c \in Channels, Choose(c) PROVE Tracking'
<1> DEFINE k == begun + 1
           t == Start(k)
           s == <<"Count", "CallOff", "Lock">>
<1>1. /\ begun < MaxStarts /\ begun' = begun + 1 /\ calledOff' = calledOff /\ Goes(t, s)
      /\ svc' = [svc EXCEPT ![k] = c]
      /\ UNCHANGED <<playVars, playerVars, tunerVars, shown, own, here>>
  BY DEF Choose, S!TakeNumber
<1>2. begun \in Nat /\ calledOff \in Nat /\ k \in StartIds
  BY <1>1, LiveStartAssumption DEF LiveInv, Counted, StartIds
<1>3. t \in Tasks /\ t[1] = "Start" /\ t # Back /\ PlansOK
  BY <1>2, TaskNames, Held
<1>4. todo[t] = <<>>
  BY <1>2, Held DEF Linked
<1>5. Plan(t, s) /\ s # <<>> /\ Head(s) = "Count"
  BY <1>3, Literal
<1> HIDE DEF s
<1>6. Moves(t) /\ todo'[t] = s
  BY <1>1, <1>3, <1>5, GoesMoves
<1>7. \A n \in StartIds : n # k => todo'[Start(n)] = todo[Start(n)] /\ svc'[n] = svc[n]
  BY <1>1, <1>6, TaskNames, TasksDiffer DEF Moves
<1>8. \A n \in StartIds : t = Start(n) => ~Decides(n)'
  BY <1>5, <1>6 DEF Decides, Locked
<1>9. ASSUME NEW n \in StartIds, Replaces(n) PROVE Mended'
  <2>1. n # k
    BY <1>4, <1>9 DEF Replaces
  <2>2. Replaces(n)'
    BY <1>1, <1>7, <1>9, <2>1 DEF Replaces
  <2> QED BY <2>2 DEF Mended
<1>10. \A n \in StartIds : n <= begun => n # k
  BY <1>2 DEF StartIds
<1>11. begun' \in Nat /\ begun' >= begun /\ calledOff' \in Nat /\ calledOff' >= calledOff
  BY <1>1, <1>2
<1>12. /\ todo[t] # <<>> => Head(todo[t]) \in EarlySteps \cup {"Decide", "Over"}
       /\ todo'[t] # <<>> => Head(todo'[t]) \in EarlySteps \cup {"Decide", "Over"}
  BY <1>4, <1>5, <1>6 DEF EarlySteps
<1> HIDE DEF t
<1> QED BY <1>1, <1>3, <1>6, <1>7, <1>8, <1>9, <1>10, <1>11, <1>12, CountersTrack

LEMMA CountInTracks == ASSUME LiveInv, Tracking, NEW n \in StartIds, CountIn(n) PROVE Tracking'
<1> DEFINE t == Start(n)
<1>1. /\ todo[t] # <<>> /\ Head(todo[t]) = "Count" /\ Done(t)
      /\ UNCHANGED <<begun, calledOff>>
      /\ UNCHANGED <<playVars, playerVars, tunerVars, shown, svc, own, here>>
  BY DEF CountIn, S!Count, Is, given
<1>2. t \in Tasks /\ t[1] = "Start" /\ t # Back /\ PlansOK /\ begun \in Nat /\ calledOff \in Nat
  BY TaskNames, Held DEF LiveInv, Counted
<1>3. Moves(t) /\ todo'[t] # <<>> /\ Head(todo'[t]) = "CallOff"
  <2>1. /\ Moves(t)
        /\ todo'[t] = <<>> => "Count" \in Ends["Start"]
        /\ todo'[t] # <<>> => <<"Count", Head(todo'[t])>> \in Links["Start"]
    BY <1>1, <1>2, DoneMoves
  <2> QED BY <2>1 DEF Links, Ends, Stop
<1>4. \A k \in StartIds : k # n => todo'[Start(k)] = todo[Start(k)]
  BY <1>3, TaskNames, TasksDiffer DEF Moves
<1>5. \A k \in StartIds : t = Start(k) => ~Decides(k)'
  BY <1>3 DEF Decides, Locked
<1>6. ASSUME NEW k \in StartIds, Replaces(k) PROVE Mended'
  <2>1. Replaces(k)'
    BY <1>1, <1>3, <1>4, <1>6 DEF Replaces, EarlySteps
  <2> QED BY <2>1 DEF Mended
<1> HIDE DEF t
<1> QED BY <1>1, <1>2, <1>3, <1>5, <1>6, CountersTrack DEF EarlySteps

\* Whoever calls off the start that was to put things right is one itself.
LEMMA CallOffOlderTracks ==
    ASSUME LiveInv, Tracking, NEW n \in StartIds, CallOffOlder(n) PROVE Tracking'
<1> DEFINE t == Start(n)
<1>1. /\ todo[t] # <<>> /\ Head(todo[t]) = "CallOff" /\ Done(t)
      /\ begun' = begun /\ calledOff' = S!Raised(n - 1)
      /\ UNCHANGED <<playVars, playerVars, tunerVars, shown, svc, own, here>>
  BY DEF CallOffOlder, S!CallOffOlder, Is, given
<1>2. t \in Tasks /\ t[1] = "Start" /\ t # Back /\ PlansOK /\ begun \in Nat /\ calledOff \in Nat
      /\ n \in Nat /\ n - 1 \in Nat
  BY TaskNames, Held DEF LiveInv, Counted, StartIds
<1>3. Moves(t) /\ todo'[t] # <<>> /\ Head(todo'[t]) = "Lock"
  <2>1. /\ Moves(t)
        /\ todo'[t] = <<>> => "CallOff" \in Ends["Start"]
        /\ todo'[t] # <<>> => <<"CallOff", Head(todo'[t])>> \in Links["Start"]
    BY <1>1, <1>2, DoneMoves
  <2> QED BY <2>1 DEF Links, Ends, Stop
<1>4. \A k \in StartIds : k # n => todo'[Start(k)] = todo[Start(k)]
  BY <1>3, TaskNames, TasksDiffer DEF Moves
<1>5. \A k \in StartIds : t = Start(k) => ~Decides(k)'
  BY <1>3 DEF Decides, Locked
<1>6. calledOff' \in Nat /\ calledOff' >= calledOff
  BY <1>1, <1>2 DEF S!Raised
<1>7. ASSUME NoReturn, NEW k \in StartIds, Replaces(k) PROVE Mended'
  <2>1. k \in Nat /\ k > calledOff
    BY <1>7 DEF Replaces, StartIds
  <2>2. CASE k > calledOff'
    <3>1. Replaces(k)'
      BY <1>1, <1>3, <1>4, <1>7, <2>2 DEF Replaces, EarlySteps
    <3> QED BY <3>1 DEF Mended
  <2>3. CASE ~(k > calledOff')
    <3>1. n > calledOff' /\ n > k
      BY <1>1, <1>2, <2>1, <2>3 DEF S!Raised
    <3>2. n <= begun
      BY <1>1, Held DEF Linked
    <3>3. svc[n] # shown
      BY <1>7, <3>1, <3>2, Newer
    <3>4. Replaces(n)'
      BY <1>1, <1>3, <3>1, <3>3 DEF Replaces, EarlySteps
    <3> QED BY <3>4 DEF Mended
  <2> QED BY <2>2, <2>3
<1> HIDE DEF t
<1> QED BY <1>1, <1>2, <1>3, <1>5, <1>6, <1>7, CountersTrack DEF EarlySteps

LEMMA LockTracks == ASSUME LiveInv, Tracking, NEW n \in StartIds, Lock(n) PROVE Tracking'
<1> DEFINE t == Start(n)
<1>1. /\ todo[t] # <<>> /\ Head(todo[t]) = "Lock"
      /\ IF n <= calledOff THEN Goes(t, <<"Over">>) ELSE Goes(t, <<"Decide">>)
      /\ UNCHANGED <<begun, calledOff>>
      /\ UNCHANGED <<playVars, playerVars, tunerVars, shown, svc, own, here>>
  BY DEF Lock, S!CalledOff, Is, startVars, given
<1>2. t \in Tasks /\ t[1] = "Start" /\ t # Back /\ PlansOK /\ begun \in Nat /\ calledOff \in Nat
      /\ n \in Nat
  BY TaskNames, Held DEF LiveInv, Counted, StartIds
<1>3. /\ Moves(t) /\ todo'[t] # <<>>
      /\ Head(todo'[t]) = IF n <= calledOff THEN "Over" ELSE "Decide"
  <2>1. CASE n <= calledOff
    BY <1>1, <1>2, <2>1, Literal, GoesMoves
  <2>2. CASE ~(n <= calledOff)
    BY <1>1, <1>2, <2>2, Literal, GoesMoves
  <2> QED BY <2>1, <2>2
<1>4. \A k \in StartIds : k # n => todo'[Start(k)] = todo[Start(k)]
  BY <1>3, TaskNames, TasksDiffer DEF Moves
<1>5. \A k \in StartIds : t = Start(k) /\ Decides(k)' => k > calledOff
  <2>1. Decides(n)' => ~(n <= calledOff)
    BY <1>3 DEF Decides, Is
  <2> QED BY <1>2, <2>1, TasksDiffer
<1>6. ASSUME NEW k \in StartIds, Replaces(k) PROVE Mended'
  <2>1. k = n => ~(n <= calledOff)
    BY <1>2, <1>6 DEF Replaces
  <2>2. Replaces(k)'
    BY <1>1, <1>3, <1>4, <1>6, <2>1 DEF Replaces
  <2> QED BY <2>2 DEF Mended
<1> HIDE DEF t
<1> QED BY <1>1, <1>2, <1>3, <1>5, <1>6, CountersTrack DEF EarlySteps

LEMMA OverTracks == ASSUME LiveInv, Tracking, NEW n \in StartIds, Over(n) PROVE Tracking'
<1> DEFINE t == Start(n)
<1>1. /\ todo[t] # <<>> /\ Head(todo[t]) = "Over" /\ Done(t)
      /\ begun' = begun /\ calledOff' = calledOff /\ own' = [own EXCEPT ![t] = None]
      /\ UNCHANGED <<playVars, playerVars, tunerVars, shown, svc, here>>
  BY DEF Over, S!EndStart, Is, given
<1>2. t \in Tasks /\ t[1] = "Start" /\ t # Back /\ PlansOK /\ begun \in Nat /\ calledOff \in Nat
  BY TaskNames, Held DEF LiveInv, Counted
<1>3. Moves(t) /\ todo'[t] = <<>>
  <2>1. Moves(t) /\ (todo'[t] # <<>> => <<"Over", Head(todo'[t])>> \in Links["Start"])
    BY <1>1, <1>2, DoneMoves
  <2> QED BY <2>1 DEF Links, Stop
<1>4. \A k \in StartIds : k # n => todo'[Start(k)] = todo[Start(k)]
  BY <1>3, TaskNames, TasksDiffer DEF Moves
<1>5. \A k \in StartIds : t = Start(k) => ~Decides(k)'
  BY <1>3 DEF Decides, Locked
<1>6. ASSUME NEW k \in StartIds, Replaces(k) PROVE Mended'
  <2>1. k # n
    BY <1>1, <1>6 DEF Replaces, EarlySteps
  <2>2. Replaces(k)'
    BY <1>1, <1>4, <1>6, <2>1 DEF Replaces
  <2> QED BY <2>2 DEF Mended
<1>7. \A k \in StartIds : t # Start(k) => own'[Start(k)] = own[Start(k)]
  BY <1>1
<1> HIDE DEF t
<1> QED BY <1>1, <1>2, <1>3, <1>5, <1>6, <1>7, CountersTrack DEF EarlySteps

LEMMA PressBackTracks == ASSUME LiveInv, Tracking, PressBack PROVE Tracking'
<1> DEFINE s == <<"CallOff", "StopHere">>
<1>1. /\ todo[Back] = <<"Idle">> /\ Goes(Back, s) /\ begun' = begun /\ calledOff' = calledOff
      /\ UNCHANGED <<playVars, playerVars, tunerVars, shown, svc, own, here>>
  BY DEF PressBack, S!ReadBegun, given
<1>2. /\ Back \in Tasks /\ Back[1] = "Back" /\ PlansOK /\ begun \in Nat /\ calledOff \in Nat
      /\ \A n \in StartIds : Start(n) # Back
  BY TaskNames, TasksDiffer, Held DEF LiveInv, Counted
<1>3. ~Is(Back, "StopHere")
  BY <1>1 DEF Is
<1>4. Moves(Back)
  <2>1. Plan(Back, s)
    <3>1. s \in Seq(Steps) /\ Len(s) = 2 /\ s[1] = "CallOff" /\ s[2] = "StopHere"
      BY DEF Steps
    <3> HIDE DEF s
    <3> QED BY <1>2, <3>1 DEF Plan, Links, Ends
  <2> HIDE DEF s
  <2> QED BY <1>1, <1>2, <2>1, GoesMoves
<1>5. ASSUME NEW k \in StartIds, Replaces(k) PROVE Mended'
  <2>1. todo'[Start(k)] = todo[Start(k)]
    BY <1>2, <1>4, TaskNames DEF Moves
  <2>2. Replaces(k)'
    BY <1>1, <1>5, <2>1 DEF Replaces
  <2> QED BY <2>2 DEF Mended
<1> QED BY <1>1, <1>2, <1>3, <1>4, <1>5, CountersTrack

LEMMA BackCallsOffTracks == ASSUME LiveInv, Tracking, BackCallsOff PROVE Tracking'
<1>1. /\ todo[Back] # <<>> /\ Head(todo[Back]) = "CallOff" /\ Done(Back)
      /\ \E read \in backs : calledOff' = S!Raised(read)
      /\ UNCHANGED <<begun, playVars, playerVars, tunerVars, shown, svc, own, here>>
  BY DEF BackCallsOff, S!CallOffRead, Is, given
<1>2. /\ Back \in Tasks /\ Back[1] = "Back" /\ PlansOK /\ begun \in Nat /\ calledOff \in Nat
      /\ backs \subseteq Nat /\ \A n \in StartIds : Start(n) # Back
  BY TaskNames, TasksDiffer, Held DEF LiveInv, Counted
<1>3. calledOff' \in Nat /\ calledOff' >= calledOff
  BY <1>1, <1>2 DEF S!Raised
<1>4. Moves(Back) /\ todo'[Back] # <<>> /\ Head(todo'[Back]) = "StopHere"
  <2>1. /\ Moves(Back)
        /\ todo'[Back] = <<>> => "CallOff" \in Ends["Back"]
        /\ todo'[Back] # <<>> => <<"CallOff", Head(todo'[Back])>> \in Links["Back"]
    BY <1>1, <1>2, DoneMoves
  <2> QED BY <2>1 DEF Links, Ends, Stop
<1>5. Mended' /\ ~Is(Back, "StopHere")
  BY <1>1, <1>4 DEF Mended, Is
<1> QED BY <1>1, <1>2, <1>3, <1>4, <1>5, CountersTrack

----------------------------------------------------------------------------
(* The theorem.                                                               *)

LEMMA InitTracking == ASSUME LiveStartInit PROVE Tracking
<1>1. /\ select = None /\ receiver = None /\ film = None /\ shown = None
      /\ \A n \in StartIds : todo[Start(n)] = <<>>
  <2>1. \A n \in StartIds : Start(n) # Back
    BY TasksDiffer
  <2> QED BY <2>1, TaskNames DEF LiveStartInit, P!PlayInit
<1>2. \A n \in StartIds : ~Tuning(n) /\ ~Plays(n) /\ ~Changes(n)
  BY <1>1 DEF Tuning, Plays, Changes, Uses, Is, EndsIn
<1>3. ~FilmOn
  BY <1>1 DEF FilmOn
<1> QED BY <1>1, <1>2, <1>3
      DEF Tracking, StreamsTo, Tuned, Changing, Shown, Sourced, Followed

LEMMA NextTracking == ASSUME Inv, Watching, Tracking, [LiveStartNext]_vars PROVE Tracking'
<1>0. LiveInv
  BY InvIsLive
<1>1. ASSUME NEW n \in StartIds, StartStep(n) PROVE Tracking'
  BY <1>0, <1>1, CountInTracks, CallOffOlderTracks, LockTracks, DecideTracks, RetryTracks, AskTracks,
     SwitchTracks, ReloadTracks, ReceiverTracks, UpTracks, OpenedTracks, RateTracks,
     AfterMatchTracks, LaunchTracks, LaunchedTracks, BeginTracks, OverTracks DEF StartStep
<1>2. ASSUME NEW m \in StartIds, FollowStep(m) PROVE Tracking'
  BY <1>0, <1>2, HearTracks, DisplayTracks, WatchTracks DEF FollowStep
<1>3. ASSUME NEW t \in Tasks, StopStep(t) PROVE Tracking'
  <2>1. CASE t[1] = "Start"
    <3>1. PICK n \in StartIds : t = Start(n)
      BY <2>1, Kinds
    <3>2. StopStep(Start(n))
      BY <1>3, <3>1
    <3> QED BY <1>0, <3>2, TakeTracks, QuitTracks, StoppingTracks, GoneTracks, CleanedTracks,
            StopHereTracks, FinishTracks, MatchTracks DEF StopStep
  <2>2. CASE t[1] # "Start"
    <3>1. Plan(t, todo[t])
      BY <1>0, Held
    <3>2. ~Take(t)
      BY <2>2, <3>1, StepOf DEF Take, Is
    <3>3. StopHere(t) => t = Back
      BY <2>2, <3>1, StepOf, Kinds DEF StopHere, Is
    <3> QED BY <1>0, <1>3, <2>2, <3>2, <3>3, OthersTrack, BackTracks DEF StopStep
  <2> QED BY <2>1, <2>2
<1>4. ASSUME NEW c \in Channels, Choose(c) PROVE Tracking'
  BY <1>0, <1>4, ChooseTracks
<1>5. PressBack \/ BackCallsOff => Tracking'
  BY <1>0, PressBackTracks, BackCallsOffTracks
<1>6. ReceiverFollows \/ ReceiverEnds \/ PlayerDies \/ UNCHANGED vars => Tracking'
  BY <1>0, ProcessesTrack
<1> QED BY <1>1, <1>2, <1>3, <1>4, <1>5, <1>6 DEF LiveStartNext

\* When nothing is under way nothing is left to be put right.
LEMMA TrackedPlays == ASSUME LiveInv, Tracking, NoReturn PROVE ChannelPlays
<1> SUFFICES ASSUME Quiet, film # None
             PROVE  receiver # None /\ receiver.service = shown /\ receiver.fifo = unit
  BY DEF ChannelPlays
<1>1. film.number \in StartIds
  BY Held
<1>2. unit # None /\ pnum = here[film.number]
  <2>1. Is(Mpv(film.number), "Hear") /\ todo[Mpv(film.number)] # <<>>
    BY Held DEF FilmsFollowed, Is
  <2> QED BY <1>1, <2>1 DEF Quiet
<1>3. FilmOn
  BY <1>2 DEF FilmOn
<1>4. ReceiverUp /\ receiver # None /\ select = None
  <2>1. todo[Source(film.number)] # <<>>
    BY <1>3 DEF Tracking, Sourced, Is
  <2>2. ReceiverUp
    BY <1>1, <2>1 DEF Quiet
  <2> QED BY <2>2 DEF Quiet, ReceiverUp
<1>5. ~Mended
  <2>1. \A n \in StartIds : todo[Start(n)] = <<>>
    BY DEF Quiet
  <2>2. \A n \in StartIds : ~Putting(n) /\ ~Replaces(n)
    BY <2>1 DEF Putting, Changes, Replaces, Is
  <2>3. ~Is(Back, "StopHere")
    BY DEF Quiet, Is
  <2> QED BY <2>2, <2>3 DEF Mended
<1>6. InStep
  BY <1>3, <1>4, <1>5 DEF Tracking, Followed
<1> QED BY <1>2, <1>4, <1>6 DEF Tracking, StreamsTo, InStep, Streams, Fed

\* What is on record is what the receiver streams, to the FIFO the player
\* reads, for any number of starts and whatever fails, until a channel is asked
\* for again after another: play_live, LiveManager::switch, reload_live.
THEOREM ChannelOnRecordPlays == LiveStartSpec => [](NoReturn => ChannelPlays)
<1>1. LiveStartInit => Inv /\ Watching /\ Tracking
  BY InitInv, InitWatching, InitTracking
<1>2. Inv /\ Watching /\ Tracking /\ [LiveStartNext]_vars => Inv' /\ Watching' /\ Tracking'
  BY NextInv, NextWatching, NextTracking
<1>3. Inv /\ Tracking => (NoReturn => ChannelPlays)
  BY InvIsLive, TrackedPlays
<1> QED BY <1>1, <1>2, <1>3, PTL DEF LiveStartSpec

\* Of two starts none returns to a channel: the newest choice plays.
THEOREM ChannelOfTwoPlays == ASSUME MaxStarts <= 2 PROVE LiveStartSpec => []ChannelPlays
<1>1. NoReturn
  BY LiveStartAssumption DEF NoReturn, StartIds
<1>2. (NoReturn => ChannelPlays) => ChannelPlays
  BY <1>1
<1> QED BY <1>2, ChannelOnRecordPlays, PTL
=============================================================================
