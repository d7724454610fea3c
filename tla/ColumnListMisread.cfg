SPECIFICATION QSpec
CONSTANTS
    BitsPerByte = 2
    MantissaBits = 13
    MaxHeight = 3
    Schemas <- MCSchemas
    Queries <- ListQueries
    ParseQuery <- Parse
    SQLHolds <- Holds
    MaxXID = 2
    MaxTuples = 2
INVARIANTS
    EveryRowReadsBack
