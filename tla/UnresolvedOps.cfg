SPECIFICATION Spec
CONSTANTS
    x = x
    y = y
    z = z
    stack = stack
    reg = reg
    v1 = v1
    v2 = v2
    SsaValues = {x, y, z}
    Exprs <- MCExprs
    AilGraphs <- MCGraphs
    Nowhere = Nowhere
    Vars = {v1, v2}
    Slots <- MCSlots
    NoVar = NoVar
    NumChunks = 2
    TextsOf <- MCTextsOf
    CoreTypeSets = {{"int"}}
    StackOffsets <- MCStack
INVARIANT OpRefsResolve
CHECK_DEADLOCK FALSE
