SPECIFICATION FairSpec
CONSTANTS
    q1 = q1
    q2 = q2
    q3 = q3
    NoQueue = NoQueue
    Queues <- TwoQueues
    Faults <- AllFaults
INVARIANTS TypeOK RequestOnce ListedIsAnnounced AnswerFindsQueue LoneStopUnlists ServiceOutlivesThreads
PROPERTIES LoneStopEnds ServiceEnds
CHECK_DEADLOCK FALSE
