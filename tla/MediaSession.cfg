\* Two readers; a source that is transformed, or one played as it is; nothing
\* is left to do when the daemon has asked for all it may.
SPECIFICATION FairSessions
CONSTANTS
    Sources = {"film", "link"}
    Direct = {"link"}
    r1 = r1
    r2 = r2
    Readers = {r1, r2}
    MaxSessions = 1
    MaxChildren = 2
    MaxAsked = 3
    MaxLost = 1
    None = None
INVARIANTS
    OneEncoderPerSession
    ReadersAreCounted
    NotCutByARewind
PROPERTIES
    AbandonedIsEnded
CHECK_DEADLOCK FALSE
