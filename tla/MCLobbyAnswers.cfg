\* No faults: what can keep a command from being answered?
SPECIFICATION FairSpec
CONSTANTS
    c1 = c1
    c2 = c2
    c3 = c3
    k1 = k1
    k2 = k2
    k3 = k3
    Conns = {c1, c2, c3}
    Codes = {k1, k2, k3}
    NoConn = NoConn
    NoCode = NoCode
    CodesCollide = FALSE
    Faults = {}
PROPERTIES UnansweredOnlyBehindUser
CHECK_DEADLOCK FALSE
