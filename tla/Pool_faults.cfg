SPECIFICATION FairSpec
CONSTANTS
    k1 = k1
    k2 = k2
    k3 = k3
    Tasks <- OneTask
    MaxQueueSize = 1
    MaxWorkers = 2
    MaxStarts = 1
    MaxFaults = 1
    MaxSpurious = 1
    MaxThreads = 3
INVARIANTS OneThreadPerId
PROPERTIES QueuedIsTaken WorkerReplaced SubmitReturns
CHECK_DEADLOCK FALSE
