SPECIFICATION LiveSpec
CONSTANTS
    e1 = e1
    e2 = e2
    s1 = s1
    s2 = s2
    t1 = t1
    t2 = t2
    Execs = {e1}
    ScriptIds = {s1, s2}
    Tasks = {t1, t2}
    Scripts <- MCOneBatch
    Cap = 1
    Oversized <- MCOversized
    MaxDeliveries = 2
    MaxCrashes = 1
    MaxFaults = 0
    MaxClock = 1
\* The agent rests when nothing is pending and no message comes.
CHECK_DEADLOCK FALSE
INVARIANTS
    ExclusiveBatch
    HonestJournal
PROPERTIES
    EventuallyAnswered
