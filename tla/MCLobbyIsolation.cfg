\* No faults: does the lobby outlive its rooms?
SPECIFICATION Spec
CONSTANTS
    c1 = c1
    c2 = c2
    c3 = c3
    k1 = k1
    k2 = k2
    Conns = {c1, c2, c3}
    Codes = {k1, k2}
    NoConn = NoConn
    NoCode = NoCode
    CodesCollide = FALSE
    Faults = {}
INVARIANTS LobbyOutlivesRooms
CHECK_DEADLOCK FALSE
