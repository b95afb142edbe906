SPECIFICATION Spec
CONSTANTS
    c1 = c1
    c2 = c2
    u1 = u1
    u2 = u2
    d1 = d1
    t1 = t1
    w1 = w1
    Conn = {c1, c2}
    Responsive = {c1, c2}
    User = {u1, u2}
    Device = {d1}
    Topic = {t1}
    Worker = {w1}
    WriteCap = 1
    Nil = Nil
SYMMETRY ConnSymmetry
INVARIANTS
    NoDeadConnReferenced
    RunningConnOwnsSession
    ActiveSessionRoutable
    NoGhostMembers
CHECK_DEADLOCK FALSE
