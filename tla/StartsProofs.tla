---------------------------- MODULE StartsProofs ----------------------------
(* What the three counters of Starts keep, for any number of starts.         *)
EXTENDS Starts, FiniteSetTheorems, TLAPS

\* A start is in one place at a time, and one that got past its fetch_max has
\* called off everything before it.
Places ==
    /\ numbered \cap counted = {}
    /\ numbered \cap underway = {}
    /\ counted \cap underway = {}
Passed == \A n \in underway : n - 1 <= calledOff

StartsInv == StartsTypeOK /\ Places /\ Passed /\ NoneAheadOfItself /\ BusyCounts

\* The starts of any place are finitely many.
LEMMA FinitelyMany ==
    ASSUME NEW n \in Nat, NEW S, S \subseteq 1..n
    PROVE  IsFiniteSet(S) /\ Cardinality(S) \in Nat
<1>1. IsFiniteSet(1..n)
  BY FS_Interval
<1>2. IsFiniteSet(S)
  BY <1>1, FS_Subset
<1> QED
  BY <1>2, FS_CardinalityType

\* fetch_max gives the larger of the two.
LEMMA RaisedIsMax ==
    ASSUME calledOff \in Nat, NEW n \in Int
    PROVE  Raised(n) \in Nat /\ Raised(n) >= calledOff /\ Raised(n) >= n
           /\ (Raised(n) = n \/ Raised(n) = calledOff)
  BY DEF Raised

\* The counters start from nothing.
LEMMA InitInv == StartsInit => StartsInv
  BY FS_EmptySet DEF StartsInit, StartsInv, StartsTypeOK, Places, Passed, NoneAheadOfItself, BusyCounts

\* Each atomic keeps the counters in step with the starts.
LEMMA NextInv == StartsInv /\ [StartsNext]_startVars => StartsInv'
<1> SUFFICES ASSUME StartsInv, [StartsNext]_startVars PROVE StartsInv'
  OBVIOUS
<1> USE DEF StartsInv
<1>t. StartsTypeOK
  OBVIOUS
<1>1. CASE TakeNumber
  <2>1. begun' = begun + 1 /\ numbered' = numbered \cup {begun + 1}
        /\ UNCHANGED <<busy, calledOff, counted, underway, backs>>
    BY <1>1 DEF TakeNumber
  <2> QED
    BY <2>1 DEF StartsTypeOK, Places, Passed, NoneAheadOfItself, BusyCounts
<1>2. ASSUME NEW n \in numbered, Count(n) PROVE StartsInv'
  <2>1. /\ numbered' = numbered \ {n} /\ counted' = counted \cup {n} /\ busy' = busy + 1
        /\ UNCHANGED <<begun, calledOff, underway, backs>>
    BY <1>2 DEF Count
  <2>2. StartsTypeOK' /\ Places' /\ Passed' /\ NoneAheadOfItself'
    BY <2>1 DEF StartsTypeOK, Places, Passed, NoneAheadOfItself
  <2>3. Cardinality(counted \cup {n}) = Cardinality(counted) + 1
    <3>1. n \notin counted /\ IsFiniteSet(counted)
      BY <1>t, FinitelyMany DEF Places, StartsTypeOK
    <3> QED
      BY <3>1, FS_AddElement
  <2>4. Cardinality(counted) \in Nat /\ Cardinality(underway) \in Nat
    BY <1>t, FinitelyMany DEF StartsTypeOK
  <2>5. BusyCounts'
    BY <2>1, <2>3, <2>4 DEF BusyCounts, StartsTypeOK
  <2> QED
    BY <2>2, <2>5
<1>3. ASSUME NEW n \in counted, CallOffOlder(n) PROVE StartsInv'
  <2>1. /\ counted' = counted \ {n} /\ underway' = underway \cup {n} /\ calledOff' = Raised(n - 1)
        /\ UNCHANGED <<begun, busy, numbered, backs>>
    BY <1>3 DEF CallOffOlder
  <2>2. n \in 1..begun /\ n - 1 \in Int
    BY DEF StartsTypeOK
  <2>3. /\ calledOff' \in Nat /\ calledOff' >= calledOff /\ calledOff' >= n - 1
        /\ (calledOff' = n - 1 \/ calledOff' = calledOff)
    BY <2>1, <2>2, RaisedIsMax DEF StartsTypeOK
  <2>4. StartsTypeOK' /\ Places' /\ NoneAheadOfItself'
    BY <2>1, <2>2, <2>3 DEF StartsTypeOK, Places, NoneAheadOfItself
  <2>5. Passed'
    BY <2>1, <2>2, <2>3 DEF StartsTypeOK, Passed
  <2>6. /\ Cardinality(counted \ {n}) = Cardinality(counted) - 1
        /\ Cardinality(underway \cup {n}) = Cardinality(underway) + 1
    <3>1. n \notin underway /\ IsFiniteSet(counted) /\ IsFiniteSet(underway)
      BY <1>t, FinitelyMany DEF Places, StartsTypeOK
    <3> QED
      BY <3>1, FS_AddElement, FS_RemoveElement
  <2>7. Cardinality(counted) \in Nat /\ Cardinality(underway) \in Nat
    BY <1>t, FinitelyMany DEF StartsTypeOK
  <2>8. BusyCounts'
    BY <2>1, <2>6, <2>7 DEF BusyCounts, StartsTypeOK
  <2> QED
    BY <2>4, <2>5, <2>8
<1>4. ASSUME NEW n \in underway, EndStart(n) PROVE StartsInv'
  <2>1. /\ underway' = underway \ {n} /\ busy' = busy - 1
        /\ UNCHANGED <<begun, calledOff, numbered, counted, backs>>
    BY <1>4 DEF EndStart
  <2>2. IsFiniteSet(underway) /\ Cardinality(counted) \in Nat /\ Cardinality(underway) \in Nat
    BY <1>t, FinitelyMany DEF StartsTypeOK
  <2>3. Cardinality(underway \ {n}) = Cardinality(underway) - 1 /\ Cardinality(underway \ {n}) \in Nat
    BY <2>2, FS_RemoveElement, FS_CardinalityType
  <2>4. BusyCounts' /\ busy' \in Nat
    BY <2>1, <2>2, <2>3 DEF BusyCounts, StartsTypeOK
  <2> QED
    BY <2>1, <2>4 DEF StartsTypeOK, Places, Passed, NoneAheadOfItself
<1>5. CASE ReadBegun
  BY <1>5 DEF ReadBegun, StartsTypeOK, Places, Passed, NoneAheadOfItself, BusyCounts
<1>6. ASSUME NEW n \in backs, CallOffRead(n) PROVE StartsInv'
  <2>1. /\ backs' = backs \ {n} /\ calledOff' = Raised(n)
        /\ UNCHANGED <<begun, busy, numbered, counted, underway>>
    BY <1>6 DEF CallOffRead
  <2>2. n \in 0..begun
    BY DEF StartsTypeOK
  <2>3. calledOff' \in Nat /\ calledOff' >= calledOff /\ (calledOff' = n \/ calledOff' = calledOff)
    BY <2>1, <2>2, RaisedIsMax DEF StartsTypeOK
  <2> QED
    BY <2>1, <2>2, <2>3 DEF StartsTypeOK, Places, Passed, NoneAheadOfItself, BusyCounts
<1>7. CASE UNCHANGED startVars
  BY <1>7 DEF startVars, StartsTypeOK, Places, Passed, NoneAheadOfItself, BusyCounts
<1> QED
  BY <1>1, <1>2, <1>3, <1>4, <1>5, <1>6, <1>7 DEF StartsNext

\* No atomic lowers what is called off.
LEMMA NextRaises == StartsInv /\ [StartsNext]_startVars => [calledOff' >= calledOff]_startVars
<1> SUFFICES ASSUME StartsInv, StartsNext PROVE calledOff' >= calledOff
  BY DEF startVars
<1>1. calledOff \in Nat
  BY DEF StartsInv, StartsTypeOK
<1>2. ASSUME NEW n \in counted, CallOffOlder(n) PROVE calledOff' >= calledOff
  BY <1>1, <1>2, RaisedIsMax DEF CallOffOlder, StartsInv, StartsTypeOK
<1>3. ASSUME NEW n \in backs, CallOffRead(n) PROVE calledOff' >= calledOff
  BY <1>1, <1>3, RaisedIsMax DEF CallOffRead, StartsInv, StartsTypeOK
<1> QED
  BY <1>1, <1>2, <1>3 DEF StartsNext, TakeNumber, Count, EndStart, ReadBegun

\* StartsInv holds in every state of every run.
THEOREM StartsInvariance == StartsSpec => []StartsInv
  BY InitInv, NextInv, PTL DEF StartsSpec

\* The counters count something there is (begin_start, Starting::drop).
THEOREM StartsTypeCorrect == StartsSpec => []StartsTypeOK
<1>1. StartsInv => StartsTypeOK
  BY DEF StartsInv
<1> QED
  BY <1>1, StartsInvariance, PTL

\* Of the starts whose begin_start has returned, every one but the newest is
\* called off: an answer that arrives late finds so and puts nothing on.
THEOREM NewestOnly == StartsSpec => []OnlyTheNewest
<1>1. StartsInv => OnlyTheNewest
  <2> SUFFICES ASSUME StartsInv, NEW a \in underway, NEW b \in underway, a < b
               PROVE  a <= calledOff
    BY DEF OnlyTheNewest, CalledOff
  <2>1. b - 1 <= calledOff /\ a \in Int /\ b \in Int /\ calledOff \in Nat
    BY DEF StartsInv, Passed, StartsTypeOK
  <2> QED
    BY <2>1
<1> QED
  BY <1>1, StartsInvariance, PTL

\* Back, and a start, reach back only (call_off_starts, begin_start).
THEOREM NothingAhead == StartsSpec => []NoneAheadOfItself
<1>1. StartsInv => NoneAheadOfItself
  BY DEF StartsInv
<1> QED
  BY <1>1, StartsInvariance, PTL

\* The count the sweep reads is zero only when no start is under way (starts).
THEOREM BusyIsExact == StartsSpec => []BusyCounts
<1>1. StartsInv => BusyCounts
  BY DEF StartsInv
<1> QED
  BY <1>1, StartsInvariance, PTL

\* A start called off is never taken back on (called_off).
THEOREM CallOffStands == StartsSpec => StaysCalledOff
<1> QED
  BY StartsInvariance, NextRaises, PTL DEF StartsSpec, StaysCalledOff
=============================================================================
