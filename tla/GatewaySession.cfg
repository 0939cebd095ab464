SPECIFICATION Spec
CONSTANTS
    StopAfter = 3
    UninstallAfter = 2
    Grace = 1
    BackoffMax = 2
    SpawnAttempts = 2
    MaxFaults = 1
    MaxFlips = 2
\* The agent rests once it has uninstalled itself.
CHECK_DEADLOCK FALSE
INVARIANTS
    
    ToolsFollowPhase
PROPERTIES
    Recovers
    GoneForGood
