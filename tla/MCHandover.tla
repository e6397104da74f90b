----------------------------- MODULE MCHandover -----------------------------
(* Two requests at most, and one thing that goes wrong besides, or two.      *)
EXTENDS Handover

Calm == [first |-> {"Ui"}, asks |-> 0, restarts |-> 0, ends |-> 0, crashes |-> 0,
         returns |-> 1, replugs |-> 0, deaths |-> 0, refusals |-> 1]
Few == {[Calm EXCEPT !.first = {"Ui", "Kodi", "Bridge"}, !.asks = 2, !.ends = 1],
        [Calm EXCEPT !.first = {"Ui", "Kodi"}, !.asks = 1, !.crashes = 1, !.deaths = 1],
        [Calm EXCEPT !.first = {"Ui", "Kodi"}, !.asks = 1, !.ends = 1, !.refusals = 1],
        [Calm EXCEPT !.first = {"Ui", "Kodi"}, !.asks = 2, !.replugs = 1],
        [Calm EXCEPT !.first = {"Kodi"}, !.asks = 1, !.restarts = 1]}
Raced == {[Calm EXCEPT !.first = {"Kodi"}, !.asks = 1, !.ends = 1]}
=============================================================================
