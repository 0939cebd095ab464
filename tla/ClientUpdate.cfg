SPECIFICATION Spec
CONSTANTS
    Versions = {1, 2, 3}
    Broken = {2}
    Flaky = {}
    MaxBoots = 1
    MaxAsks = 2
    MaxFaults = 2
\* Nothing happens once the agent is online and no update is asked for.
CHECK_DEADLOCK FALSE
INVARIANTS
    ReserveStarted
    Recoverable
PROPERTIES
    AnchorNeverFalls
    ComesBack
