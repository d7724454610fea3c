SPECIFICATION RSpec
CONSTANTS
    c1 = c1
    c2 = c2
    t1 = t1
    t2 = t2
    Conns = {c1, c2}
    Names = {t1, t2}
    MaxOIDs = 2
    MaxXIDs = 2
    MaxRestarts = 1
SYMMETRY ConnNameSymmetry
INVARIANTS
    VisibleOnlyIfCommitted
