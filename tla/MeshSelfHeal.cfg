SPECIFICATION Spec
CONSTANTS
    StuckAfter = 1
    SilentAfter = 2
    Cooldown = 2
    MaxLines = 2
    MaxOps = 2
    MaxFaults = 1
INVARIANTS
    LoopReachable
    NoStaleRest
PROPERTIES
    HealthyLeftAlone
    MeshRecovers
    Publishes
