SPECIFICATION Spec
CONSTANTS
    s1 = s1
    s2 = s2
    b1 = b1
    b2 = b2
    g1 = g1
    g2 = g2
    NoBlock = NoBlock
    Services <- TwoServices
    Tools <- OneTool
    Gates <- OneGate
CHECK_DEADLOCK FALSE
INVARIANTS TypeOK BlockSafe SessionIsServed NothingLeft WholeBlockRead
PROPERTIES CrashIsCleanedUp
