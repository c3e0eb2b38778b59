SPECIFICATION Spec
CONSTANTS
    k1 = k1
    k2 = k2
    k3 = k3
    Tasks <- TwoTasks
    MaxQueueSize = 1
    MaxWorkers = 2
    MaxStarts = 2
    MaxFaults = 0
    MaxSpurious = 1
    MaxThreads = 4
INVARIANTS FifoNoLoss AtMostOneLate StopJoinsAll
PROPERTY ImplementsTaskDispatch
CHECK_DEADLOCK FALSE
