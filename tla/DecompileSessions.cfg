SPECIFICATION Spec
CONSTANTS
    Session = {s1, s2}
    Process = {p1, p2}
    Image = {i1}
    None = None
    main = main
    helper = helper
    Function = {main, helper}
    Calls <- MCCalls
    Mentions <- MCMentions
    MaxRequests = 3
    MaxCrashes = 1
SYMMETRY Symmetry
INVARIANTS
    LocksFollowSections
    NamesAtWork
    OwnNamesUnlessOvertaken
    BuiltOnce
