SPECIFICATION Spec
CONSTANTS
    ToolMessages = {m1}
    AckWait = 2
    PendingTTL = 5
    ProgressEvery = 1
    StopWithin = 1
    MaxDeliver = 3
    MaxFaults = 2
\* Nothing happens once every message is settled.
CHECK_DEADLOCK FALSE
INVARIANTS
    OneParkedCopy
PROPERTIES
    GateHoldsUntilStop
    GateSurvivesDeferral
    ToolMessagesSettle
