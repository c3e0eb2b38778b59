SPECIFICATION FairSpec
CONSTANTS
    k1 = k1
    k2 = k2
    k3 = k3
    Tasks <- TwoTasks
    MaxQueueSize = 1
    MaxWorkers = 1
    MaxStarts = 1
    MaxFaults = 0
    MaxSpurious = 0
    MaxThreads = 1
PROPERTY StopReturns
CHECK_DEADLOCK FALSE
