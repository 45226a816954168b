SPECIFICATION FairSpec
CONSTANTS
    a1 = a1
    a2 = a2
    a3 = a3
    b1 = b1
    bad = bad
    c1 = c1
    c2 = c2
    Messages = {a1}
    EventOf <- JustOne
    Events = {"a"}
    Poison = "poison"
    Consumers = {c1, c2}
    OutputDir <- OwnDirs
    MaxMessages = 2
    BatchSize = 2
    WaitTime = 1
    FlushInterval = 1
    UntilEmpty = FALSE
    MaxReceives = 2
    MaxCrashes = 1
    MaxStops = 1
INVARIANTS
    TypeOK
    NothingVanishes
    OneRowPerReceive
PROPERTIES
    EventuallyStored
    StopIsHonoured
