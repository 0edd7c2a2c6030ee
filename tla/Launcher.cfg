SPECIFICATION Spec
CONSTANTS
    Platforms = {"unix", "windows"}
    NoFile = NoFile
    MaxRuns = 3
    MaxFaults = 2
    MaxEdits = 1
    Environments = {{}, {"fallback", "server"}}
INVARIANTS
    OriginalKept
    RunsAreRepeatable
    ClearLaunchWorks
PROPERTIES
    LaunchEnds
