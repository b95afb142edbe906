SPECIFICATION Spec
CONSTANTS
    m1 = m1
    Msg = {m1}
    Offline = {m1}
    MaxRetries = 2
    MaxConn = 1
    MaxSent = 3
    None = None
INVARIANTS
    RetriesAreBounded
CHECK_DEADLOCK FALSE
