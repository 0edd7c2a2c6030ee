SPECIFICATION Spec
CONSTANTS
    Shapes <- MCCopies
    NumAddrs = 1
    MaxOps = 4
    MaxDuplicates = 8
    NumSlots = 32
INVARIANT
    StoredIsFound
