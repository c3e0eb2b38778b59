SPECIFICATION RouteSpec
CONSTANTS
    MaxChunks = 2
    Small = 2
    Threshold = 1
    MaxWaits = 2
    Settings <- PumpOnIo
PROPERTY HandoffRespected
CHECK_DEADLOCK FALSE
