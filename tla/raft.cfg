SPECIFICATION Spec
CONSTANTS
    Servers = {s1, s2, s3}
    None = None
    MaxElections = 3
    MaxReqs = 2
    MaxMsgs = 0
    MaxMsgsPeriodic = 0
SYMMETRY Symmetry
CHECK_DEADLOCK FALSE
INVARIANTS
    TypeOK
    LeaderCompleteness
    NoShutdown
PROPERTIES
    ImplementsCommitLog
