SPECIFICATION FairSpec
CONSTANTS
    MaxCalls = 3
    MaxQueries = 2
    Breaks = TRUE
INVARIANTS
    Aligned
    NothingLeftOver
    ReturnsOwnOutcome
PROPERTIES
    ImplementsCalls
    EveryCallEnds
    CoreEndsWithClient
