SPECIFICATION LiveSpec
CONSTANTS
    o1 = o1
    o2 = o2
    p1 = p1
    p2 = p2
    Versions = {1}
    Kinds = {"install", "reinstall", "uninstall", "restart"}
    Ops = {o1}
    Sups = {p1, p2}
    MaxOps = 2
    MaxCrashes = 1
    MaxFaults = 0
    MaxStops = 1
\* The agent rests when no message comes and no process exits.
CHECK_DEADLOCK FALSE
PROPERTIES
    EventuallySupervised
