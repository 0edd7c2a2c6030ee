SPECIFICATION EditsSpec
CONSTANTS
    stack = stack
    reg = reg
    large = large
    v1 = v1
    v2 = v2
    u1 = u1
    u2 = u2
    r1 = r1
    r2 = r2
    Vars = {v1, v2}
    Slots <- MCSlots
    Nowhere = Nowhere
    NumValues = 2
    NumChunks = 3
    Unified = {u1, u2}
    Stack <- MCStack
    Registers = {r1, r2}
    MaxEdits = 1
SYMMETRY Symmetry
INVARIANT RenameIsShown
