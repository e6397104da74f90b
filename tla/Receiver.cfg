\* Two transponders and a neighbour; what is asked, lost and unplugged, each world says.
SPECIFICATION FairReceiver
CONSTANTS
    Channels <- MCChannels
    First <- Here
    Worlds <- MCWorlds
    SearchOffsets <- MCOffsets
    MaxTail = 3
    None = None
    Standby = Standby
INVARIANTS
    LossIsNoEnd
PROPERTIES
    TailHeldBack
    OnlyTheChannels
    ComesBack
CHECK_DEADLOCK FALSE
