SPECIFICATION ProbeSpec
CONSTANTS
    PageSize = 2
    MaxSize = 6
    LastPage = 5
    Readable = {0, 1, 2}
INVARIANT TooLargeGivesNone
