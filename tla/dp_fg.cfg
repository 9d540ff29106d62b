CONSTANTS
    kSessionCredits = 3
    kSessionReqWindow = 2
    MaxReqPkts = 4
    MaxRespPkts = 3
    MaxNum = 2
    MaxBacklog = 0
    Background = {FALSE}
    InOrder = TRUE
SPECIFICATION FairSpec
CHECK_DEADLOCK FALSE
INVARIANTS TypeOK CreditConservation SlotDiscipline NoLostWakeup NoNullDereference
           PacketsInOrder
PROPERTIES ImplementsRpcService
