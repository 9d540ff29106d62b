CONSTANTS
    ClientRing = 2  ServerRing = 1
    MaxSessions = 3  MaxStarts = 1  MaxQueue = 2
    CanStop = FALSE  Transports = {TRUE, FALSE}  Resolves = {TRUE, FALSE}
    Retry = FALSE  Duplicates = FALSE
SPECIFICATION FairSpec
CHECK_DEADLOCK FALSE
INVARIANT NoOrphan
PROPERTIES ConnectAnswered DisconnectAnswered
