SPECIFICATION FairSpec
CONSTANTS
    None = None
    Platforms = {"unix"}
    Launcher = {l1, l2}
    IdleTimeout = 1
    MaxFaults = 0
    MaxPolls = 1
PROPERTIES
    EofEndsLauncher
    NeverLingers
