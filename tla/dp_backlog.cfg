CONSTANTS
    kSessionCredits = 2
    kSessionReqWindow = 1
    MaxReqPkts = 1
    MaxRespPkts = 1
    MaxNum = 2
    MaxBacklog = 1
    Background = {FALSE}
    InOrder = TRUE
SPECIFICATION FairSpec
CHECK_DEADLOCK FALSE
PROPERTY BacklogServed
