------------------------------- MODULE Starts -------------------------------
(* Films being started, and which of them are called off: the three counters  *)
(* of the supervisor in mediaboxd-rs/src/playback.rs.  They are separate      *)
(* atomics without a lock around them, so what begin_start and                *)
(* call_off_starts do is taken one atomic at a time, in any interleaving.     *)
EXTENDS Integers, FiniteSets

CONSTANT MaxStarts      \* bound on the starts of a run
ASSUME StartsAssumption == MaxStarts \in Nat

VARIABLES
    begun,        \* starts_begun: the number of the last start
    busy,         \* starts_busy: how many are under way
    calledOff,    \* starts_called_off: every start up to this one
    numbered,     \* starts that have their number, and nothing else yet
    counted,      \* starts that are counted as under way
    underway,     \* the guards handed out: begin_start has returned
    backs         \* what a Back that has not called anything off yet has read

startVars == <<begun, busy, calledOff, numbered, counted, underway, backs>>

\* fetch_max.
Raised(n) == IF n > calledOff THEN n ELSE calledOff

----------------------------------------------------------------------------
(* begin_start: a number, the count, and the older ones called off.           *)

TakeNumber ==
    /\ begun < MaxStarts
    /\ begun' = begun + 1
    /\ numbered' = numbered \cup {begun + 1}
    /\ UNCHANGED <<busy, calledOff, counted, underway, backs>>

Count(n) ==
    /\ n \in numbered
    /\ numbered' = numbered \ {n}
    /\ counted' = counted \cup {n}
    /\ busy' = busy + 1
    /\ UNCHANGED <<begun, calledOff, underway, backs>>

CallOffOlderByStore(n) ==                \* mutant: the last to get there wins
    /\ n \in counted
    /\ counted' = counted \ {n}
    /\ underway' = underway \cup {n}
    /\ calledOff' = n - 1
    /\ UNCHANGED <<begun, busy, numbered, backs>>
CallOffOlder(n) ==
    /\ n \in counted
    /\ counted' = counted \ {n}
    /\ underway' = underway \cup {n}
    /\ calledOff' = Raised(n - 1)
    /\ UNCHANGED <<begun, busy, numbered, backs>>

CalledOff(n) == n <= calledOff

EndStartStillCounted(n) ==               \* mutant: an early return skips the count
    /\ n \in underway
    /\ underway' = underway \ {n}
    /\ UNCHANGED <<begun, busy, calledOff, numbered, counted, backs>>

\* The guard is dropped: the start is over, one way or another.
EndStart(n) ==
    /\ n \in underway
    /\ underway' = underway \ {n}
    /\ busy' = busy - 1
    /\ UNCHANGED <<begun, calledOff, numbered, counted, backs>>

----------------------------------------------------------------------------
(* call_off_starts: Back, while a film is opening.                            *)

ReadBegunNext ==                         \* mutant: the start after this one too
    /\ backs' = backs \cup {begun + 1}
    /\ UNCHANGED <<begun, busy, calledOff, numbered, counted, underway>>
ReadBegun ==
    /\ backs' = backs \cup {begun}
    /\ UNCHANGED <<begun, busy, calledOff, numbered, counted, underway>>

CallOffRead(n) ==
    /\ n \in backs
    /\ backs' = backs \ {n}
    /\ calledOff' = Raised(n)
    /\ UNCHANGED <<begun, busy, numbered, counted, underway>>

----------------------------------------------------------------------------
StartsInit ==
    /\ begun = 0 /\ busy = 0 /\ calledOff = 0
    /\ numbered = {} /\ counted = {} /\ underway = {} /\ backs = {}

StartsNext ==
    \/ TakeNumber
    \/ \E n \in numbered : Count(n)
    \/ \E n \in counted : CallOffOlder(n)
    \/ \E n \in underway : EndStart(n)
    \/ ReadBegun
    \/ \E n \in backs : CallOffRead(n)

StartsSpec == StartsInit /\ [][StartsNext]_startVars

----------------------------------------------------------------------------
(* Properties.                                                                *)

\* Every counter counts something there is.
StartsTypeOK ==
    /\ begun \in Nat /\ busy \in Nat /\ calledOff \in Nat
    /\ numbered \subseteq 1..begun /\ counted \subseteq 1..begun /\ underway \subseteq 1..begun
    /\ backs \subseteq 0..begun

\* A later start calls off every earlier one still under way, however their
\* atomics interleave: "the newest choice is the one that plays" (begin_start).
OnlyTheNewest == \A a, b \in underway : a < b => CalledOff(a)

\* Nothing is called off before it has begun (begin_start's and
\* call_off_starts' numbers): Back before a start is not Back for it.
NoneAheadOfItself == calledOff <= begun

\* What the sweep for stray sessions relies on: no start is under way that the
\* count does not know of (starts, sweep_stray_sessions).
BusyCounts == busy = Cardinality(counted) + Cardinality(underway)

\* A start called off stays called off: what answers late finds it so.
StaysCalledOff == [][calledOff' >= calledOff]_startVars
=============================================================================
