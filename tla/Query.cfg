SPECIFICATION QSpec
CONSTANTS
    BitsPerByte = 2
    MantissaBits = 13
    MaxHeight = 3
    Schemas <- MCSchemas
    Queries <- MCQueries
    ParseQuery <- Parse
    SQLHolds <- Holds
    MaxXID = 2
    MaxTuples = 3
INVARIANTS
    QTypeOK
    InOrderReadsBack
    ReadAsWritten
    SelectsTheTrue
    AnswerWellFormed
PROPERTIES
    InvisibleUntilCommitted
    EffectsAsAsked
