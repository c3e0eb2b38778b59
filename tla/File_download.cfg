SPECIFICATION DownloadSpec
CONSTANTS
    MaxChunks = 4
    Settings <- PumpOnIo
    Small = 2
    Threshold = 1
    MaxWaits = 2
INVARIANTS BodyInOrder  StreamedWhole
    CheckedSuccessMeansSent FailureMeansCut Backpressure
PROPERTIES  SendReturns
CHECK_DEADLOCK FALSE
