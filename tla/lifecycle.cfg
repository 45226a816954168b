SPECIFICATION MCSpec
CONSTANTS
    ContextNames = {1, 2}
    PropertyNames = {1, 2}
    Keys <- TwoEvents
    PermanentEvents <- OneEvent
    ContextScope = ContextScope
    FieldTypes <- Strings
    PascalCase <- MCPascalCase
    ValueName <- MCValueName
    UnfitNames = {}
    ReservedStart = 8
    ReservedEnd = 9
    ShortHistory = 3
    LongHistory = 9
INVARIANTS
    TypeOK
    UpdateNeverRefused
    UpdateSettles
    GatesAgree
    NumberMeansOneName
    PublishedStaysLocked
PROPERTY
    ImplementsLedger
