----------------------------- MODULE MCLiveStart -----------------------------
(* Two channels asked for in turn.  What may go wrong besides is divided into *)
(* worlds: the player and the receiver fail, with the display matched, or     *)
(* Back is pressed.                                                           *)
EXTENDS LiveStart

World(stop, match, fail) == [stop |-> stop, match |-> match, fail |-> fail]
Apart == {World(FALSE, TRUE, TRUE), World(TRUE, FALSE, FALSE)}
=============================================================================
