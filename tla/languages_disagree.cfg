SPECIFICATION MCSpec
CONSTANTS
    r1 = r1
    EventNames = {"checkout.started@1", "search.performed@1"}
    Requests = {r1}
    EventOf <- MCEventOf
    Blanks <- MCBlanks
    MaxEdits = 1
    MaxRuns = 2
    MaxFaults = 1
    MaxAttempts = 1
    MaxTries = 1
    MaxMessages = 1
INVARIANT
    LanguagesAgree
CHECK_DEADLOCK FALSE
