SPECIFICATION Spec
CONSTANTS
    p1 = p1
    p2 = p2
    f1 = f1
    f2 = f2
    d1 = d1
    n1 = n1
    n2 = n2
    w1 = w1
    page = page
    whole = whole
    Pids <- TwoPids
    MaxLives <- LivesOf
    Files <- TwoFiles
    Docs <- OneDoc
    Nodes <- TwoNodes
    Walkers <- OneWalker
    Rights <- TwoRights
    Grants <- FewGrants
    Started <- OnlyPage
    NoMemory = TRUE
    Openers <- FirstPid
    Bootstrap <- TwoPids
SYMMETRY Symmetry
INVARIANTS TypeOK TableSound PlaintextIsGated RightsAreOwn
CHECK_DEADLOCK FALSE
