SPECIFICATION Spec
CONSTANTS
    q1 = q1
    q2 = q2
    q3 = q3
    NoQueue = NoQueue
    Queues <- TwoQueues
    Faults <- NoFaults
INVARIANTS StoppedIsUnlisted
CHECK_DEADLOCK FALSE
