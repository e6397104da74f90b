\* The transponder lies beside its nominal frequency, and the cable is out for a while.
SPECIFICATION FairReceiver
CONSTANTS
    Channels <- MCChannels
    First <- Here
    Worlds <- OffWorld
    SearchOffsets <- MCOffsets
    MaxTail = 0
    None = None
    Standby = Standby
PROPERTIES
    ComesBack
CHECK_DEADLOCK FALSE
