--------------------------- MODULE MCDisplayOwner ---------------------------
(* One display with two modes and a film rate that asks for the second.      *)
EXTENDS DisplayOwner
CONSTANTS s1, m1, m2, c1

MCOffers    == [sink \in Sinks |-> {m1, m2}]
MCPreferred == [sink \in Sinks |-> m1]
MCMigrated  == [sink \in Sinks |-> m2]
MCFit       == [want \in Cadences \X Modes |-> m2]
=============================================================================
