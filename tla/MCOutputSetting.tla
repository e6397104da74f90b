-------------------------- MODULE MCOutputSetting --------------------------
(* Two displays that list different modes, one film rate that asks for a     *)
(* refresh other than the preferred one, and two trials alive at a time.     *)
EXTENDS OutputSetting, TLC
CONSTANTS s1, s2, m1, m2, c1

MCOffers    == [sink \in Sinks |-> IF sink = s1 THEN {m1, m2} ELSE {m1}]
MCPreferred == [sink \in Sinks |-> m1]
MCMigrated  == [sink \in Sinks |-> IF sink = s1 THEN m2 ELSE Automatic]
MCFit       == [want \in Cadences \X Modes |-> m2]
TrialSymmetry == Permutations(TrialIds)
=============================================================================
