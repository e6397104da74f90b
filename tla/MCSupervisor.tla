----------------------------- MODULE MCSupervisor -----------------------------
(* The two halves of the supervisor of mediaboxd-rs/src/playback.rs: the       *)
(* counters of starts and the record of the film playing.  No method touches   *)
(* both, so a step of one leaves the other as it was and their interleavings   *)
(* say nothing that each alone does not: each is run with the other at rest.   *)
(* Four starts with any number of Backs among them; two films, one of which    *)
(* replaces the other, and one worker session.                                 *)
EXTENDS Starts, Playback

supervisorVars == <<startVars, playVars>>

SupervisorInit == StartsInit /\ PlayInit

SupervisorNext ==
    \/ StartsNext /\ PlayInit /\ UNCHANGED playVars
    \/ PlayNext /\ StartsInit /\ UNCHANGED startVars

SupervisorSpec == SupervisorInit /\ [][SupervisorNext]_supervisorVars
=============================================================================
