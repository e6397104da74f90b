\* Kodi ends by itself, and the viewer asks for something else as it does.
SPECIFICATION HandoverSpec
CONSTANTS
    Requests = {"r1", "r2"}
    Worlds <- Raced
    None = None
CHECK_DEADLOCK FALSE
PROPERTIES
    RecoveryIsHarmless
