SPECIFICATION Spec
CONSTANTS
    a1 = a1
    a2 = a2
    a3 = a3
    b1 = b1
    bad = bad
    c1 = c1
    c2 = c2
    Messages = {a1, a2}
    EventOf <- Pair
    Events = {"a"}
    Poison = "poison"
    Consumers = {c1, c2}
    OutputDir <- SharedDir
    MaxMessages = 1
    BatchSize = 1
    WaitTime = 1
    FlushInterval = 1
    UntilEmpty = FALSE
    MaxReceives = 1
    MaxCrashes = 0
    MaxStops = 0
INVARIANT
    NamesDoNotCollide
