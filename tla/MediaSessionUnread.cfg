\* What the worker promises of readers, where it keeps a count of them.
SPECIFICATION FairSessions
CONSTANTS
    Sources = {"film", "link"}
    Direct = {"link"}
    r1 = r1
    r2 = r2
    Readers = {r1, r2}
    MaxSessions = 1
    MaxChildren = 2
    MaxAsked = 3
    MaxLost = 1
    None = None
PROPERTY UnreadIsEnded
CHECK_DEADLOCK FALSE
