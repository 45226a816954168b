SPECIFICATION MCSpec
CONSTANTS
    r1 = r1
    EventNames = {"checkout.started@1", "search.performed@1"}
    Requests = {r1}
    EventOf <- MCEventOf
    Blanks <- MCBlanks
    MaxEdits = 1
    MaxRuns = 2
    MaxFaults = 1
    MaxAttempts = 2
    MaxTries = 2
    MaxMessages = 2
INVARIANTS
    TypeOK
    ConstantsWhole
    RolloutLosesNothing
    AnswerNamesEvent
PROPERTIES
    GenerationHeals
    AcceptedArrives
CHECK_DEADLOCK FALSE
