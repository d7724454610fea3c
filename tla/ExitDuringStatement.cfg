SPECIFICATION SSpec
CONSTANTS
    k1 = k1
    k2 = k2
    Clients = {k1, k2}
    MaxConnections = 1
SYMMETRY ClientSymmetry
CHECK_DEADLOCK FALSE
INVARIANTS
    GracefulExit
