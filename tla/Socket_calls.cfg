SPECIFICATION FairSpec
CONSTANTS
    t1 = t1
    t2 = t2
    u1 = u1
    u2 = u2
    NoUrl = NoUrl
    Senders <- OneThread
    Stoppers <- TwoThreads
    Urls <- TwoUrls
    MaxRequests = 2
INVARIANTS SentToUrl NothingLeftBehind
PROPERTY RequestReturns
CHECK_DEADLOCK FALSE
