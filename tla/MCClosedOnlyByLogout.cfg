SPECIFICATION FairSpec
CONSTANTS
    c1 = c1
    c2 = c2
    u1 = u1
    d1 = d1
    w1 = w1
    Conn = {c1, c2}
    Responsive = {c1, c2}
    User = {u1}
    Device = {d1}
    Topic = {}
    Worker = {w1}
    WriteCap = 1
    Nil = Nil
PROPERTIES
    ClosedOnlyByLogout
CHECK_DEADLOCK FALSE
