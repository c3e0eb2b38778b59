SPECIFICATION FairSpec
CONSTANTS
    t1 = t1
    Threads <- OneThread
    Range = 2
    Sequences = 2
    MaxWaits = 2
    Given <- Arguments
    HostHashes <- Hashes
    MaxTime = 2
    MaxIds = 4
INVARIANTS TypeOK IdsIncrease
PROPERTIES GivesUpExhausted WaitEnds
