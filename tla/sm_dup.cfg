CONSTANTS
    ClientRing = 2  ServerRing = 1
    MaxSessions = 2  MaxStarts = 1  MaxQueue = 1
    CanStop = FALSE  Transports = {TRUE, FALSE}  Resolves = {TRUE, FALSE}
    Retry = FALSE  Duplicates = TRUE
SPECIFICATION Spec
CHECK_DEADLOCK FALSE
INVARIANTS TypeOK RingAccounting OneSessionPerToken Agreement CallbackOrder
           DisconnectsMatch
