SPECIFICATION LFairSpec
CONSTANTS
    k1 = k1
    s1 = s1
    s2 = s2
    w1 = w1
    NoSlot = NoSlot
    Clients = {k1, s1, s2}
    Slots = {s1, s2}
    Workers = {w1}
    MaxConnections = 1
    MaxAttempts = 2
CHECK_DEADLOCK FALSE
INVARIANTS
    STypeOK
    CountersExact
    ExitOnlyWhenSignalled
    SuccessesServed
PROPERTIES
    NoSpuriousRefusal
    SignalEndsServer
    LoadTestEnds
    HandlersDrain
