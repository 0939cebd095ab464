SPECIFICATION Spec
CONSTANTS
    Versions = {1, 2}
    Permits = 2
    Rounds = 2
    MaxFaults = 3
    Target = 2
    MaxDeliver = 2
\* A finished update leaves nothing to do.
CHECK_DEADLOCK FALSE
INVARIANTS
    BinarySurvives
PROPERTIES
    HonestRecord
    ServiceNotLost
    OperationEnds
