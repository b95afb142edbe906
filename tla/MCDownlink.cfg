CONSTANTS
    s1 = s1
    s2 = s2
    Session = {s1, s2}
    Worker = {w1, w2}
    MsgKind <- MCMsgKind
    Scenario <- MCScenario
    MaxOffset = 2
    ChanCap = 1
    WriteCap = 1
    MaxConn = 2
    MaxCrash = 1
SPECIFICATION Spec
INVARIANTS
    LossIsExplained
    RightRecipients
    UnicastSeqIdsDiffer
PROPERTIES
    FansOutOnce
    SlowClientsDelayNobody
CHECK_DEADLOCK FALSE
