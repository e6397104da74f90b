SPECIFICATION FilmStartSpec
CONSTANTS
    MaxStarts = 2
    Kinds = {"Kodi"}
    Asides = {}
    MaxAsides = 0
    MayFail = FALSE
    None = None
CHECK_DEADLOCK FALSE
INVARIANTS
    NewestChoicePlays
