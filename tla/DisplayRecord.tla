--------------------------- MODULE DisplayRecord ---------------------------
(* What the display setting promises a viewer, whatever carries it out: the   *)
(* record kept for a display changes only to a setting the viewer accepted    *)
(* after the display showed it, on the display being looked at -- or moves,   *)
(* at its default, to a display it was not made for.                          *)
CONSTANTS Sinks, Settings, None,
          Rebound(_, _)      \* the record as it applies to another display

VARIABLES record,            \* the setting kept
          sink,              \* the display being looked at
          proposal           \* None, or a setting asked for and whether it was shown

vars == <<record, sink, proposal>>

Proposals == [setting : Settings, shown : BOOLEAN] \cup {None}

Init == /\ sink = None
        /\ proposal = None

\* Looking at a display may move the record to it.
Look == \/ record' = record
        \/ sink' \in Sinks /\ record' = Rebound(record, sink')

Propose  == \E setting \in Settings :
                /\ setting.sink = sink'
                /\ proposal' = [setting |-> setting, shown |-> FALSE]
Show     == /\ proposal # None
            /\ proposal.setting.sink = sink'
            /\ proposal' = [proposal EXCEPT !.shown = TRUE]
Withdraw == proposal' = None

Accept == /\ proposal # None
          /\ proposal.shown
          /\ proposal.setting.sink \in {sink, sink'}
          /\ record' = proposal.setting
          /\ proposal' = None

Next == \/ Look /\ (Propose \/ Show \/ Withdraw \/ UNCHANGED proposal)
        \/ Accept

Spec == Init /\ [][Next]_vars
=============================================================================
