SPECIFICATION FairSpec
CONSTANTS
    a1 = a1
    a2 = a2
    a3 = a3
    b1 = b1
    bad = bad
    c1 = c1
    c2 = c2
    Messages = {a1, a2, a3, b1, bad}
    EventOf <- Assorted
    Events = {"a", "b"}
    Poison = "poison"
    Consumers = {c1}
    OutputDir <- OneDir
    MaxMessages = 2
    BatchSize = 1
    WaitTime = 1
    FlushInterval = 1
    UntilEmpty = TRUE
    MaxReceives = 1
    MaxCrashes = 1
    MaxStops = 0
INVARIANTS
    NothingVanishes
PROPERTIES
    StoredForGood
    CrashCost
    DrainEnds
    ImplementsDelivery
CHECK_DEADLOCK FALSE
