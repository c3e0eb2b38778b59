SPECIFICATION FairSpec
CONSTANTS
    t1 = t1
    t2 = t2
    h1 = h1
    h2 = h2
    NoHost = NoHost
    Senders <- OneThread
    Stoppers <- TwoThreads
    Hosts <- TwoHosts
    MaxRequests = 2
INVARIANTS SentToTarget OwnAnswerAfterSuccess NothingLeftBehind
PROPERTY RequestReturns
CHECK_DEADLOCK FALSE
