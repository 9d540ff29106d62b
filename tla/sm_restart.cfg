CONSTANTS
    ClientRing = 2  ServerRing = 1
    MaxSessions = 2  MaxStarts = 2  MaxQueue = 1
    CanStop = TRUE  Transports = {TRUE}  Resolves = {TRUE}
    Retry = TRUE  Duplicates = TRUE
SPECIFICATION Spec
CHECK_DEADLOCK FALSE
INVARIANTS RingAccounting CallbackOrder
