\* Two channels in turn: the player and the receiver may fail, and then nothing
\* is left to do, or Back may come at any moment.
SPECIFICATION LiveStartSpec
CONSTANTS
    MaxStarts = 2
    Channels = {A, B}
    Worlds <- Apart
    None = None
CHECK_DEADLOCK FALSE
INVARIANTS
    LiveStartTypeOK
    ChannelPlays
    NoStrayPlayer
    BackStopsLive
    ReceiverGoesWithPlayer
PROPERTY
    MatchStays
