SPECIFICATION Spec
CONSTANTS
    r1 = r1
    r2 = r2
    r3 = r3
    n1 = n1
    n2 = n2
    d = d
    p1 = p1
    p2 = p2
    Requests <- ThreeRequests
    DocOf <- OneDoc
    ProcessOf <- TwoProcesses
    Tries = 2
    Nodes <- TwoNodes
    Losses = TRUE
SYMMETRY Symmetry
INVARIANTS TypeOK TableServes PasswordArrives
CHECK_DEADLOCK FALSE
