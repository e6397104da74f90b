SPECIFICATION SupervisorSpec
CONSTANTS
    MaxStarts = 4
    Sessions = {s1}
    MaxFilms = 2
    MaxPosted = 2
    None = None
CHECK_DEADLOCK FALSE
INVARIANTS
    OnlyTheNewest
    NoneAheadOfItself
    BusyCounts
    ClosedMeansDone
    AskedIsStopped
PROPERTY
    DecidedOnce
