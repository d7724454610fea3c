SPECIFICATION PSpec
CONSTANTS
    PageSize = 8192
    Lengths <- MCLengths
    MaxInserts = 6
INVARIANTS
    PTypeOK
    NoClobber
    StoredInFull
