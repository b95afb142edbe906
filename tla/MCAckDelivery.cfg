SPECIFICATION Spec
CONSTANTS
    m1 = m1
    Msg = {m1}
    Offline = {m1}
    MaxRetries = 1
    MaxConn = 3
    MaxSent = 1
    None = None
INVARIANTS
    TypeOK
    OnlyCloseOrStoreLoses
    NoLeakedAckIndex
PROPERTIES
    DeliversAtLeastOnce
CHECK_DEADLOCK FALSE
