SPECIFICATION Spec
CONSTANTS
    c1 = c1
    c2 = c2
    Conns = {c1, c2}
    PageCapacity = 2
    Preloaded = 1
    MaxQueries = 3
SYMMETRY ConnSymmetry
INVARIANTS
    CommittedDeleteStays
