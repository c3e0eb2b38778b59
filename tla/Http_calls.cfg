SPECIFICATION Spec
CONSTANTS
    t1 = t1
    t2 = t2
    o1 = o1
    o2 = o2
    NoThread = NoThread
    NoOptions = NoOptions
    Threads <- TwoThreads
    Urls <- SomeUrls
    Requests <- SomeRequests
    Settings <- SomeSettings
    Options <- TwoOptions
    Configs <- SomeConfigs
    MaxCalls = 3
INVARIANTS DisconnectFinal TimeoutKept ContextCurrent
PROPERTIES HeldClient CallsReturn
CHECK_DEADLOCK FALSE
