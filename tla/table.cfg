SPECIFICATION FairSpec
CONSTANTS
    m1 = m1
    m2 = m2
    Main = {m1, m2}
    LastMain = m2
    NumExtra = 2
    Cap = 1
    Keys = {1, 2, 3, 4, 5}
    BucketOf <- MCBucketOf
    Load <- MCLoad
    Threads = {t1, t2}
    None = None
    MaxWrites = 5
    MaxReads = 1
CHECK_DEADLOCK FALSE
INVARIANTS
    ContentsMatch
    ExtraInOnePlace
PROPERTIES
    ImplementsMap
    CallsReturn
