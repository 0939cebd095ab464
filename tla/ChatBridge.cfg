SPECIFICATION Spec
CONSTANTS
    Attempts = 1
    MaxCreators = 2
    MaxRouters = 2
    MaxChunks = 2
    MaxSubs = 2
    MaxFaults = 1
\* The bridge rests when the stream does.
CHECK_DEADLOCK FALSE
INVARIANTS
    NoGap
PROPERTIES
    InOrder
    ConsecutiveRun
    Served
