SPECIFICATION Spec
CONSTANTS
    Shapes <- MCShapes
    NumAddrs = 1
    MaxOps = 3
    MaxDuplicates = 2
    NumSlots = 2
INVARIANTS
    RefusedOnlyIfCrowded
    UniqueIsFound
