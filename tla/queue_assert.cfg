SPECIFICATION Spec
CONSTANTS
    r1 = r1
    r2 = r2
    r3 = r3
    Irps <- TwoIrps
    Faults <- NoMemory
    HoldLimit = 0
SYMMETRY IrpSymmetry
CHECK_DEADLOCK FALSE
INVARIANTS AssertNotStopPending
