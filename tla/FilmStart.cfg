\* Two starts, each here or on Kodi, with Back, a television that leaves or a
\* film handed to Kodi at any moment, and a worker, a unit and a Kodi that may refuse.
SPECIFICATION FilmStartSpec
CONSTANTS
    MaxStarts = 2
    Kinds = {"Here", "Kodi"}
    Asides <- MCAsides
    MaxAsides = 1
    MayFail = TRUE
    None = None
CHECK_DEADLOCK FALSE
INVARIANTS
    BackHasTheLastWord
    PlaysTheNewest
    NoStraySession
    SweepSparesTheFilm
