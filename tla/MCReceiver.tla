----------------------------- MODULE MCReceiver -----------------------------
(* Worlds for Receiver: two transponders, their multiplexes and a neighbour.  *)
EXTENDS Receiver, TLC

Here == [tp |-> "t1", service |-> 1]
There == [tp |-> "t2", service |-> 2]

\* What a tuner put on the second transponder's carrier, and beside it, locks.
Carriers(on, beside) == [t1 |-> (0 :> "m1" @@ 10 :> None), t2 |-> (0 :> on @@ 10 :> beside)]
World(asks, losses, unplugs, carriers, tsid, onid, programmes, listed) ==
    [asks |-> asks, losses |-> losses, unplugs |-> unplugs,
     home |-> [t1 |-> "m1", t2 |-> "m2"], carrier |-> carriers, tsid |-> tsid,
     onid |-> onid, programmes |-> programmes, listed |-> listed]

Apart(asks, losses, unplugs, carriers, listed) ==
    World(asks, losses, unplugs, carriers, [m1 |-> 1, m2 |-> 2, m3 |-> 3], [m1 |-> 1, m2 |-> 1, m3 |-> 1],
          [m1 |-> {1}, m2 |-> {2}, m3 |-> {3}], listed)
Plain == Apart(1, 1, 1, Carriers("m2", None), FALSE)
\* Left to its first channel, with a signal that comes and goes.
Alone == Apart(0, 3, 0, Carriers("m2", None), FALSE)
\* The neighbour is on the nominal frequency, the transponder beside it.
Drifted == Apart(1, 1, 1, Carriers("m3", "m2"), TRUE)
Off == Apart(1, 1, 0, Carriers(None, "m2"), TRUE)

\* One transport stream number on two networks, and one list of services, or nearly.
Twins(asks, losses, others) ==
    World(asks, losses, 0, Carriers("m2", None), [m1 |-> 1, m2 |-> 1, m3 |-> 3], [m1 |-> 1, m2 |-> 2, m3 |-> 1],
          [m1 |-> {1, 2}, m2 |-> {1, 2} \cup others, m3 |-> {3}], TRUE)
\* A third network's, of the same number, on the second one's nominal frequency.
Crowded ==
    World(1, 1, 0, Carriers("m3", "m2"), [m1 |-> 1, m2 |-> 1, m3 |-> 1], [m1 |-> 1, m2 |-> 2, m3 |-> 3],
          [m1 |-> {1, 2}, m2 |-> {1, 2}, m3 |-> {2}], TRUE)

MCWorlds == {Plain, Alone, Drifted, Crowded, Twins(1, 1, {}), Twins(2, 0, {3})}
OffWorld == {Off}
MCChannels == {Here, There}
MCOffsets == <<10>>
=============================================================================
