CONSTANTS
    t1 = t1
    t2 = t2
    u1 = u1
    d1 = d1
    d2 = d2
    c1 = c1
    c2 = c2
    n1 = n1
    n2 = n2
    Node = {n1, n2}
    Conn = {c1, c2}
    User = {u1}
    Device = {d1, d2}
    Token = {t1, t2}
    UserOf <- MCUserOf
    DeviceOf <- MCDeviceOf
    Placement <- MCPlacement
    MaxStop = 1
    TokenLife = 1
    RouteTTL = 2
SPECIFICATION Spec
INVARIANTS
    ValidTokensAreKept
    FreshRouteIsRight
    RoutesLeadSomewhere
PROPERTIES
    StaleRoutesVanish
    ExpiredTokensGo
CHECK_DEADLOCK FALSE
