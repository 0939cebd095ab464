SPECIFICATION InstallSpec
CONSTANTS
    Platforms = {"windows", "macos"}
    MaxInstalls = 2
    MaxMachines = 3
    MaxInstallFaults = 3
\* Nothing happens once the agent is registered and nobody touches it.
CHECK_DEADLOCK FALSE
INVARIANTS
    IdentityKept
    InstallStands
PROPERTIES
    Registers
