SPECIFICATION Spec
CONSTANTS
    e1 = e1
    e2 = e2
    s1 = s1
    s2 = s2
    t1 = t1
    t2 = t2
    Execs = {e1, e2}
    ScriptIds = {s1, s2}
    Tasks = {t1, t2}
    Scripts <- MCScripts
    Cap = 1
    Oversized <- MCOversized
    MaxDeliveries = 2
    MaxCrashes = 1
    MaxFaults = 2
    MaxClock = 0
SYMMETRY MCSymmetry
\* The agent rests when nothing is pending and no message comes.
CHECK_DEADLOCK FALSE
INVARIANTS
    TypeOK
    NoSilentLoss
    OutboxBound
PROPERTIES
    DeliversResults
