\* Codes may be drawn twice, clients may crash, accept and fork may fail.
SPECIFICATION Spec
CONSTANTS
    c1 = c1
    c2 = c2
    c3 = c3
    c4 = c4
    k1 = k1
    k2 = k2
    k3 = k3
    Conns = {c1, c2, c3, c4}
    Codes = {k1, k2, k3}
    NoConn = NoConn
    NoCode = NoCode
    CodesCollide = TRUE
    Faults = {"accept", "fork", "crash"}
INVARIANTS TypeOK RoomsMatchHosts PlayersAreWaiting OneServerPerPlayer
SYMMETRY Symmetry
CHECK_DEADLOCK FALSE
