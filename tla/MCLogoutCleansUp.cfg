SPECIFICATION FairSpec
CONSTANTS
    c1 = c1
    u1 = u1
    d1 = d1
    Conn = {c1}
    Responsive = {c1}
    User = {u1}
    Device = {d1}
    Topic = {}
    Worker = {}
    WriteCap = 1
    Nil = Nil
PROPERTIES
    LogoutCleansUp
CHECK_DEADLOCK FALSE
