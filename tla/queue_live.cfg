SPECIFICATION FairSpec
CONSTANTS
    r1 = r1
    r2 = r2
    r3 = r3
    Irps <- TwoIrps
    Faults <- NoFaults
    HoldLimit = 0
CHECK_DEADLOCK FALSE
INVARIANTS StopIsWoken
PROPERTIES EveryIrpAnswered CloseFinishes
