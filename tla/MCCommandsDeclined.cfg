SPECIFICATION Spec
CONSTANTS
    k1 = k1
    c1 = c1
    c2 = c2
    Commands = {k1}
    Chargers = {h1}
    Nodes = {n1, n2}
    Conns = {c1, c2}
    NoConn = NoConn
    h1 = h1
    n1 = n1
    n2 = n2
    NodeTimeout = 1
    SendTimeout = 2
    MaxUnsent = 1
SYMMETRY MCSymmetry
INVARIANTS
    DeclinedIsNotAccepted
CHECK_DEADLOCK FALSE
