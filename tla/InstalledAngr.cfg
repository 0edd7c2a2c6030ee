SPECIFICATION Spec
CONSTANTS
    Platforms = {"unix"}
    NoFile = NoFile
    MaxRuns = 1
    MaxFaults = 0
    MaxEdits = 0
    Environments = {{}}
INVARIANTS
    StockOnlyIfAsked
