SPECIFICATION Spec
CONSTANTS
    Session = {s1, s2}
    Process = {p1}
    Image = {i1}
    None = None
    main = main
    helper = helper
    Function = {main, helper}
    Calls <- MCCalls
    Mentions <- MCMentions
    MaxRequests = 2
    MaxCrashes = 0
SYMMETRY Symmetry
INVARIANTS
    RenderedNamesAreOwn
