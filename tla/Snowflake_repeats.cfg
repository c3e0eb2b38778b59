SPECIFICATION Spec
CONSTANTS
    t1 = t1
    Threads <- OneThread
    Range = 2
    Sequences = 3
    MaxWaits = 2
    Given <- Arguments
    HostHashes <- Hashes
    MaxTime = 1
    MaxIds = 4
INVARIANT IdsIncreaseWithClock
