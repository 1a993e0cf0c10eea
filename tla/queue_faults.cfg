SPECIFICATION Spec
CONSTANTS
    r1 = r1
    r2 = r2
    r3 = r3
    Irps <- TwoIrps
    Faults <- AllFaults
    HoldLimit = 1
SYMMETRY IrpSymmetry
CHECK_DEADLOCK FALSE
INVARIANTS TypeOK CountAccounts TokenCoversQueue HoldIsQuiet FreedIsQuiescent GrantedKeyIsUsed
PROPERTIES ImplementsService
