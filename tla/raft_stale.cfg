SPECIFICATION Spec
CONSTANTS
    Servers = {s1, s2, s3}
    None = None
    MaxElections = 2
    MaxReqs = 2
    MaxMsgs = 1
    MaxMsgsPeriodic = 0
SYMMETRY Symmetry
CHECK_DEADLOCK FALSE
INVARIANTS
    ElectionSafety
    MatchIsReplicated
PROPERTIES
    ImplementsCommitLog
