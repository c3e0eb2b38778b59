SPECIFICATION GuardSpec
CONSTANTS
    p1 = p1
    p2 = p2
    p3 = p3
    c1 = c1
    c2 = c2
    Requested = 3
    MaxItems = 10
    Producers <- TwoProducers
    Callers <- TwoProducers
    Consumers <- TwoConsumers
    MaxFailures = 1
    Limits <- SmallAndLarge
    MaxChanges = 1
    MaxAttempts <- Attempts
INVARIANTS GuardTypeOK RaceFree SizeByOwner OvershootBounded DropsAddUp
PROPERTY ImplementsFifo
CHECK_DEADLOCK FALSE
