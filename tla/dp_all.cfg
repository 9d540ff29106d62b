CONSTANTS
    kSessionCredits = 2
    kSessionReqWindow = 2
    MaxReqPkts = 2
    MaxRespPkts = 2
    MaxNum = 2
    MaxBacklog = 1
    Background = {TRUE, FALSE}
    InOrder = TRUE
SPECIFICATION Spec
CHECK_DEADLOCK FALSE
INVARIANT IInv
