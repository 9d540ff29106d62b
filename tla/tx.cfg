SPECIFICATION FairSpec
CONSTANTS
    kRQDepth = 4
    kSQDepth = 6
    kUnsigBatch = 3
    kPostlist = 2
    kRecvSlack = 2
    Credits = 4
    LossScan = TRUE
    MaxCr = 7
    MaxRfr = 1
    MaxData = 2
    MaxFlush = 1
INVARIANTS
    TypeOK
    SelectiveSignaling
    ReceiveRing
PROPERTIES
    ImplementsFlow
