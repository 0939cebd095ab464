SPECIFICATION Spec
CONSTANTS
    o1 = o1
    o2 = o2
    p1 = p1
    p2 = p2
    Versions = {1, 2}
    Kinds = {"install", "reinstall", "uninstall", "restart"}
    Ops = {o1, o2}
    Sups = {p1, p2}
    MaxOps = 3
    MaxCrashes = 1
    MaxFaults = 1
    MaxStops = 0
SYMMETRY MCSymmetry
\* The agent rests when no message comes and no process exits.
CHECK_DEADLOCK FALSE
INVARIANTS
    OneOperation
    KeepsPromise
