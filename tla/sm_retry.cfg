CONSTANTS
    ClientRing = 1  ServerRing = 1
    MaxSessions = 1  MaxStarts = 1  MaxQueue = 2
    CanStop = FALSE  Transports = {TRUE}  Resolves = {TRUE}
    Retry = TRUE  Duplicates = FALSE
SPECIFICATION FairSpec
CHECK_DEADLOCK FALSE
PROPERTY RetriedLater
