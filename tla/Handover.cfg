\* Two requests at most; the rest of each world is named in MCHandover.  Kodi
\* is started by systemd once at most, and a unit refuses once.  A world stops
\* when nothing is asked or ends any more.
SPECIFICATION FairHandover
CONSTANTS
    Requests = {"r1", "r2"}
    Worlds <- Few
    None = None
CHECK_DEADLOCK FALSE
INVARIANTS
    KodiUiApart
PROPERTIES
    HandoverLands
    RecoveryOnlyWhenEnded
    NeverBlank
    AllEnd
