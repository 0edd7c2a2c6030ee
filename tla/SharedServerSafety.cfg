SPECIFICATION Spec
CONSTANTS
    None = None
    Platforms = {"unix", "tcp"}
    Launcher = {l1, l2}
    IdleTimeout = 1
    MaxFaults = 1
    MaxPolls = 1
SYMMETRY Symmetry
INVARIANTS
    TypeOK
    ActiveCountsSessions
    OnlyLateSessionsKilled
    StaleFileNeedsCrash
PROPERTIES
    StopOnlyWhenQuiet
